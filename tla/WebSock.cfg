CONSTANTS
  a = a
  b = b
  bad = bad
  Garbage = Garbage
  NoFrags = NoFrags
  Msgs <- MCMsgs
  Bad = {bad}
  MaxFrames = 5
  Stray = Stray
SPECIFICATION Spec
CHECK_DEADLOCK FALSE
PROPERTIES
  ChannelSafe
  FramesServed
