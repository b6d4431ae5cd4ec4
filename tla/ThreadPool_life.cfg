\* Two workers, three tasks, every fault.
CONSTANTS
    Workers = {w1, w2}
    Tasks = {t1, t2, t3}
    NoTask = NoTask
    Faults = {"create", "memory", "throw"}
SPECIFICATION FairSpec
INVARIANTS NoTaskLost ExactlyOnce
PROPERTY DestroyEnds
\* The pool is deleted in the end.
CHECK_DEADLOCK FALSE
