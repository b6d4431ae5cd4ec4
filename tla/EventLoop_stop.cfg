\* A socket pair may fail once; the shut-down script may refuse.
CONSTANTS
    MaxPairErrors = 1
    OnStopConfirms = {TRUE, FALSE}
SPECIFICATION FairSpec
INVARIANTS WaitedStopMeansLoopLeft LeavesAfterOnStop
PROPERTIES StatusAdvances StopReturns
\* Every thread ends.
CHECK_DEADLOCK FALSE
