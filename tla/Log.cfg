CONSTANTS
  Threads = {t1, t2}
  Worker = t1
  Sig = sig
  NoThread = none
  Records <- MCRecords
  Cap = 4
  MaxRecords = 3
SPECIFICATION Spec
CHECK_DEADLOCK FALSE
INVARIANTS
  InOrder
  
PROPERTIES
  WritersReturn
  AllTaken
