CONSTANTS
  Fds = {f1, f2}
  NoSock = NoSock
  Objs = {o1, o2, o3}
  NULL = NULL
  InitFree <- MCInitFree
  o1 = o1
  MaxConns = 4
SPECIFICATION Spec
INVARIANTS PoolSound MapSound CurrentOwn AnswersOwn
\* Nobody has to connect or send, and the process stops.
CHECK_DEADLOCK FALSE
