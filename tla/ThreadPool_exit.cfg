\* Nothing fails.
CONSTANTS
    Workers = {w1, w2}
    Tasks = {t1}
    NoTask = NoTask
    Faults = {}
SPECIFICATION Spec
INVARIANT ThreadsExited
CHECK_DEADLOCK FALSE
