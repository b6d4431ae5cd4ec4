\* Three wheels, a turn and more of the last.
CONSTANTS
    Timers = {t1, t2, t3}
    NoTimer = NoTimer
    Count <- MCCount
    Delays = {1, 2, 5, 6, 7, 12}
    CallbackDelays = {1, 3, 7}
    MaxTick = 14
SYMMETRY TimerSymmetry
SPECIFICATION Spec
INVARIANTS TypeOK NoneMissed  RemainingExact 
 
\* The clock stops at MaxTick.
CHECK_DEADLOCK FALSE
