\* Two descriptors, used again and again by connections of three kinds.
CONSTANTS
    Fds = {f1, f2}
    NoSock = NoSock
    Types = {"TCPCLIENT", "WEBSOCK", "DEBUG"}
    NHosts = 1
    MaxConns = 4
    MaxDelayed = 1
    Failures = {"new", "add", "enable"}
SPECIFICATION FairSpec
INVARIANTS OneOwner NothingLeaked LinkTruth RegisteredLive
INVARIANTS FragmentsOwnOrScripted
PROPERTIES DelayedCloseOwn 
\* The peers need not connect or send anything.
CHECK_DEADLOCK FALSE
