CONSTANTS
  Base = 4
  Short = 1
  MaxSent = 3
  Msgs <- MCMsgs
  Refused <- MCRefused
SPECIFICATION Spec
CHECK_DEADLOCK FALSE
INVARIANTS
  InOrder
  NoneWaits
PROPERTIES
  ChannelSpec
