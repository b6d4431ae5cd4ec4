\* A socket pair of the worker may fail once; one exit signal.
CONSTANTS
    MaxPairErrors = 1
    TimerConfigured = TRUE
    MaxSignals = 1
SPECIFICATION FairSpec
INVARIANTS FreedAfterWorker ExitLeavesNoThread
PROPERTIES  WokenExits
\* The process ends.
CHECK_DEADLOCK FALSE
