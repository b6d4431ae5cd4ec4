------------------------------ MODULE EventLoop ------------------------------
(***************************************************************************)
(* One event-loop thread of QService and the threads that start and stop   *)
(* it: CRunStatus with CSockPairEvent (the worker, the loggers, the mail   *)
(* sender); CTimerTrigger and CServer run the same protocol.               *)
(*                                                                         *)
(* Three threads share a plain status word, a mutex and a condition        *)
(* variable that has no predicate:                                         *)
(*   the launcher starts the loop thread and polls the status;             *)
(*   the loop thread initialises, dispatches events and, every 100 ms,     *)
(*     looks at the status in exitMonitorCB;                               *)
(*   the stopper calls Stop().                                             *)
(* Callbacks of a loop run one at a time on its own thread, so each is one *)
(* step.  Every access to the status word from another thread is a step.   *)
(***************************************************************************)
EXTENDS Naturals

CONSTANTS
    MaxPairErrors,      \* how many error events the socket pairs may raise
    OnStopConfirms      \* the answers onStop() may give: TRUE, it set STOPPED

ASSUME MaxPairErrorsAssumption == MaxPairErrors \in Nat
ASSUME OnStopConfirmsAssumption == OnStopConfirms \in SUBSET BOOLEAN

VARIABLES
    status,         \* CRunStatus::m_emStatus
    runOnStop,      \* CSockPairEvent::m_bRunOnStop
    loop,           \* where the loop thread is in Start()
    stopper,        \* where the stopping thread is in Stop()
    launcher,       \* where the launching thread is in waitForStarted()
    mutex,          \* the thread that holds m_Mutex, or "none"
    pairErrors,     \* error events raised so far
    startled        \* Stop() was woken without a signal

vars == <<status, runOnStop, loop, stopper, launcher, mutex, pairErrors,
          startled>>

RunStatus == {"UNKNOWN", "STARTING", "RUNING", "ERROR", "STOPPING", "STOPPED"}

LoopPC == {"none", "spawned", "init", "dispatch", "broken", "lock", "signal",
           "unlock", "ended", "failed"}

\* "skipped" is a Stop() that found the loop not running and returned at once.
StopperPC == {"idle", "lock", "set", "wait", "waiting", "woken", "unlock",
              "returned", "skipped"}

LauncherPC == {"idle", "polling", "started", "refused", "thrown"}

Init ==
    /\ status = "UNKNOWN"
    /\ runOnStop = FALSE
    /\ loop = "none"
    /\ stopper = "idle"
    /\ launcher = "idle"
    /\ mutex = "none"
    /\ pairErrors = 0
    /\ startled = FALSE

getIsRun == status = "RUNING"

-----------------------------------------------------------------------------
(* The launching thread.                                                   *)

Execute ==
    /\ launcher = "idle"
    /\ launcher' = "polling"
    /\ loop' = "spawned"
    /\ UNCHANGED <<status, runOnStop, stopper, mutex, pairErrors, startled>>

\* The thread cannot be created: Execute() throws in the launching thread.
ExecuteThrows ==
    /\ launcher = "idle"
    /\ launcher' = "thrown"
    /\ UNCHANGED <<status, runOnStop, loop, stopper, mutex, pairErrors,
                   startled>>

\* One turn of the polling loop; a turn that sees neither status changes nothing.
waitForStarted ==
    /\ launcher = "polling"
    /\ \/ getIsRun /\ launcher' = "started"
       \/ status = "ERROR" /\ launcher' = "refused"
    /\ UNCHANGED <<status, runOnStop, loop, stopper, mutex, pairErrors,
                   startled>>

-----------------------------------------------------------------------------
(* The loop thread.                                                        *)

StartBegin ==
    /\ loop = "spawned"
    /\ loop' = "init"
    /\ status' = "STARTING"
    /\ UNCHANGED <<runOnStop, stopper, launcher, mutex, pairErrors, startled>>

\* One of the four init functions or onStartUp() failed.
StartFailed ==
    /\ loop = "init"
    /\ loop' = "failed"
    /\ status' = "ERROR"
    /\ UNCHANGED <<runOnStop, stopper, launcher, mutex, pairErrors, startled>>

StartDispatch ==
    /\ loop = "init"
    /\ loop' = "dispatch"
    /\ status' = "RUNING"
    /\ UNCHANGED <<runOnStop, stopper, launcher, mutex, pairErrors, startled>>

\* A tick that finds STOPPING runs onStop() unless it has run before.
exitMonitorStopping ==
    /\ loop = "dispatch"
    /\ status = "STOPPING"
    /\ ~runOnStop
    /\ runOnStop' = TRUE
    /\ \E confirmed \in OnStopConfirms :
          status' = IF confirmed THEN "STOPPED" ELSE status
    /\ UNCHANGED <<loop, stopper, launcher, mutex, pairErrors, startled>>

\* A tick that finds STOPPED breaks the dispatch loop.
exitMonitorStopped ==
    /\ loop = "dispatch"
    /\ status = "STOPPED"
    /\ loop' = "broken"
    /\ UNCHANGED <<status, runOnStop, stopper, launcher, mutex, pairErrors,
                   startled>>

exitMonitorCB == exitMonitorStopping \/ exitMonitorStopped

\* Mutation: the error announces that the loop has stopped.
eventCB_Stopped ==
    /\ loop = "dispatch"
    /\ pairErrors < MaxPairErrors
    /\ pairErrors' = pairErrors + 1
    /\ status' = "STOPPED"
    /\ UNCHANGED <<runOnStop, loop, stopper, launcher, mutex, startled>>

\* An error or end of file on one of the three socket pairs.
eventCB ==
    /\ loop = "dispatch"
    /\ pairErrors < MaxPairErrors
    /\ pairErrors' = pairErrors + 1
    /\ status' = "STOPPING"
    /\ UNCHANGED <<runOnStop, loop, stopper, launcher, mutex, startled>>

StartLeft ==
    /\ loop = "broken"
    /\ loop' = "lock"
    /\ status' = "STOPPED"
    /\ UNCHANGED <<runOnStop, stopper, launcher, mutex, pairErrors, startled>>

StartLock ==
    /\ loop = "lock"
    /\ mutex = "none"
    /\ loop' = "signal"
    /\ mutex' = "loop"
    /\ UNCHANGED <<status, runOnStop, stopper, launcher, pairErrors, startled>>

\* Mutation: the waiting thread is not signalled.
StartSignal_Missing ==
    /\ loop = "signal"
    /\ loop' = "unlock"
    /\ UNCHANGED <<status, runOnStop, stopper, launcher, mutex, pairErrors,
                   startled>>

\* Signal() wakes a thread that is waiting, and is lost when none is.
StartSignal ==
    /\ loop = "signal"
    /\ loop' = "unlock"
    /\ stopper' = IF stopper = "waiting" THEN "woken" ELSE stopper
    /\ UNCHANGED <<status, runOnStop, launcher, mutex, pairErrors, startled>>

StartUnlock ==
    /\ loop = "unlock"
    /\ loop' = "ended"
    /\ mutex' = "none"
    /\ UNCHANGED <<status, runOnStop, stopper, launcher, pairErrors, startled>>

-----------------------------------------------------------------------------
(* The stopping thread.                                                    *)

\* Mutation: Stop() does not ask whether the loop runs.
StopCheck_Always ==
    /\ stopper = "idle"
    /\ stopper' = "lock"
    /\ UNCHANGED <<status, runOnStop, loop, launcher, mutex, pairErrors,
                   startled>>

\* getIsRun() is read without the mutex.
StopCheck ==
    /\ stopper = "idle"
    /\ stopper' = IF getIsRun THEN "lock" ELSE "skipped"
    /\ UNCHANGED <<status, runOnStop, loop, launcher, mutex, pairErrors,
                   startled>>

StopLock ==
    /\ stopper = "lock"
    /\ mutex = "none"
    /\ stopper' = "set"
    /\ mutex' = "stopper"
    /\ UNCHANGED <<status, runOnStop, loop, launcher, pairErrors, startled>>

StopSet ==
    /\ stopper = "set"
    /\ stopper' = "wait"
    /\ status' = "STOPPING"
    /\ UNCHANGED <<runOnStop, loop, launcher, mutex, pairErrors, startled>>

\* Mutation: Stop() announces the stop and does not wait for it.
StopWait_NoWait ==
    /\ stopper = "wait"
    /\ stopper' = "unlock"
    /\ UNCHANGED <<status, runOnStop, loop, launcher, mutex, pairErrors,
                   startled>>

\* pthread_cond_wait releases the mutex and starts to wait in one step.
StopWait ==
    /\ stopper = "wait"
    /\ stopper' = "waiting"
    /\ mutex' = "none"
    /\ UNCHANGED <<status, runOnStop, loop, launcher, pairErrors, startled>>

\* pthread_cond_wait may also return without a signal.
StopSpuriousWake ==
    /\ stopper = "waiting"
    /\ stopper' = "woken"
    /\ startled' = TRUE
    /\ UNCHANGED <<status, runOnStop, loop, launcher, mutex, pairErrors>>

\* ... and takes the mutex again before it returns.
StopRelock ==
    /\ stopper = "woken"
    /\ mutex = "none"
    /\ stopper' = "unlock"
    /\ mutex' = "stopper"
    /\ UNCHANGED <<status, runOnStop, loop, launcher, pairErrors, startled>>

StopUnlock ==
    /\ stopper = "unlock"
    /\ stopper' = "returned"
    /\ mutex' = "none"
    /\ UNCHANGED <<status, runOnStop, loop, launcher, pairErrors, startled>>

-----------------------------------------------------------------------------
Launch == Execute \/ waitForStarted

StartInit == StartBegin \/ StartFailed \/ StartDispatch

StartEnd == StartLeft \/ StartLock \/ StartSignal \/ StartUnlock

Start == StartInit \/ exitMonitorCB \/ StartEnd

Stop ==
    \/ StopCheck \/ StopLock \/ StopSet \/ StopWait \/ StopRelock \/ StopUnlock

Next ==
    \/ Launch \/ ExecuteThrows
    \/ Start \/ eventCB
    \/ Stop \/ StopSpuriousWake

Spec == Init /\ [][Next]_vars

(***************************************************************************)
(* Every thread is scheduled and the exit monitor is a persistent timer    *)
(* event, so what they can do they eventually do.  Nothing obliges anybody *)
(* to start or to stop the loop, or a socket pair to fail.                 *)
(***************************************************************************)
Fairness ==
    /\ WF_vars(waitForStarted)
    /\ WF_vars(Start)
    /\ WF_vars(Stop /\ stopper # "idle")

FairSpec == Spec /\ Fairness

-----------------------------------------------------------------------------
(* Properties.                                                             *)

\* Every variable stays in its range.
TypeOK ==
    /\ status \in RunStatus
    /\ runOnStop \in BOOLEAN
    /\ loop \in LoopPC
    /\ stopper \in StopperPC
    /\ launcher \in LauncherPC
    /\ mutex \in {"none", "loop", "stopper"}
    /\ pairErrors \in 0..MaxPairErrors
    /\ startled \in BOOLEAN

\* The loop thread is, or can still come, inside event_base_dispatch.
LoopAlive == loop \in {"none", "spawned", "init", "dispatch", "broken"}

\* Unless it is woken without a signal, Stop() comes back from its wait only
\* when the loop thread has left event_base_dispatch for good: the caller
\* (exitWorkThread) frees the sessions the loop was using.
WaitedStopMeansLoopLeft ==
    ~startled /\ stopper \in {"unlock", "returned"} => ~LoopAlive

\* However it was stopped, a loop leaves event_base_dispatch only after
\* onStop(), the shut-down handler of the scripts, has run.
LeavesAfterOnStop ==
    loop \in {"broken", "lock", "signal", "unlock", "ended"} => runOnStop

StatusRank ==
    [UNKNOWN |-> 0, STARTING |-> 1, ERROR |-> 2, RUNING |-> 2,
     STOPPING |-> 3, STOPPED |-> 4]

\* As long as no socket pair fails, the status word moves only forwards: no
\* write of one thread takes back what another has announced (a loop that
\* stopped never looks as if it were stopping again, and a stop request is
\* never overwritten by RUNING).
StatusAdvances ==
    [][pairErrors' = 0 => StatusRank[status'] >= StatusRank[status]]_vars

\* The shut-down script ran and did not confirm: onStop() is not called again.
StopRefused ==
    loop = "dispatch" /\ runOnStop /\ status = "STOPPING"

\* A call of Stop() returns, unless the shut-down script refuses to stop or a
\* socket pair has failed (the signal may then be sent before Stop() waits).
StopReturns ==
    stopper # "idle" ~> \/ stopper \in {"returned", "skipped"}
                        \/ StopRefused
                        \/ pairErrors > 0
=============================================================================
