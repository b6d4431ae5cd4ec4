CONSTANTS
  Empty = Empty
  Null = Null
  Garbage = Garbage
  Lists <- MCLists
  MaxSent = 3
SPECIFICATION Spec
INVARIANTS Understood 
PROPERTIES HandedOver
\* Nobody has to send.
CHECK_DEADLOCK FALSE
