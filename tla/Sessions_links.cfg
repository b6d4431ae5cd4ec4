\* Two outgoing links.
CONSTANTS
    Fds = {f1, f2}
    NoSock = NoSock
    Types = {"TCP"}
    NHosts = 2
    MaxConns = 3
    MaxDelayed = 0
    Failures = {}
SPECIFICATION Spec
INVARIANT LinkTruth
\* The peers need not connect or send anything.
CHECK_DEADLOCK FALSE
