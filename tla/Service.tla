------------------------------- MODULE Service -------------------------------
(***************************************************************************)
(* The life of the process: the main thread (startSV, Service_InitProgram, *)
(* Service_Exit), the listener thread (CServer), the worker thread         *)
(* (CWorkThreadEvent), the timer thread (CTimerTrigger), the link monitor  *)
(* (CLinkOther) and the signal handler.                                    *)
(*                                                                         *)
(* Server, worker and timer are three instances of EventLoop.  The         *)
(* initialisation of the server loop launches the worker and the timer;    *)
(* the main thread launches the server, and stops timer, worker and server *)
(* in this order, freeing all sessions after the worker's Stop().  Server  *)
(* and timer have no socket pair and their exit monitors always confirm.   *)
(* The log system and the mail sender are started before and stopped after *)
(* everything here, by the same protocol.                                  *)
(***************************************************************************)
EXTENDS Naturals

CONSTANTS
    MaxPairErrors,      \* error events on the worker's socket pairs
    TimerConfigured,    \* is the interval of the timer other than 0?
    MaxSignals          \* how often the exit signal is sent

ASSUME MaxPairErrorsAssumption == MaxPairErrors \in Nat
ASSUME MaxSignalsAssumption == MaxSignals \in Nat
ASSUME TimerConfiguredAssumption == TimerConfigured \in BOOLEAN

VARIABLES
    \* the worker
    wStatus, wRunOnStop, wLoop, wStopper, wLauncher, wMutex, wErrors,
    \* the timer trigger
    tStatus, tRunOnStop, tLoop, tStopper, tLauncher, tMutex, tErrors,
    \* the server
    sStatus, sRunOnStop, sLoop, sStopper, sLauncher, sMutex, sErrors,
    \* the link monitor: its status and where its thread is
    kStatus, kLoop,
    main,           \* where the main thread is
    exitMutex,      \* who holds g_objExitMutex
    handler,        \* where the signal handler is
    signals,        \* exit signals received so far
    freed,          \* freeAllSession() has run
    startled        \* a wait of the main thread ended without a signal

workerVars == <<wStatus, wRunOnStop, wLoop, wStopper, wLauncher, wMutex, wErrors>>
timerVars == <<tStatus, tRunOnStop, tLoop, tStopper, tLauncher, tMutex, tErrors>>
serverVars == <<sStatus, sRunOnStop, sLoop, sStopper, sLauncher, sMutex, sErrors>>
linkVars == <<kStatus, kLoop>>
exitVars == <<exitMutex, handler, signals>>
vars == <<workerVars, timerVars, serverVars, linkVars, main, exitVars, freed,
          startled>>

Worker == INSTANCE EventLoop WITH
    OnStopConfirms <- {TRUE},
    status <- wStatus, runOnStop <- wRunOnStop, loop <- wLoop,
    stopper <- wStopper, launcher <- wLauncher, mutex <- wMutex,
    pairErrors <- wErrors

Timer == INSTANCE EventLoop WITH
    MaxPairErrors <- 0, OnStopConfirms <- {TRUE},
    status <- tStatus, runOnStop <- tRunOnStop, loop <- tLoop,
    stopper <- tStopper, launcher <- tLauncher, mutex <- tMutex,
    pairErrors <- tErrors

Server == INSTANCE EventLoop WITH
    MaxPairErrors <- 0, OnStopConfirms <- {TRUE},
    status <- sStatus, runOnStop <- sRunOnStop, loop <- sLoop,
    stopper <- sStopper, launcher <- sLauncher, mutex <- sMutex,
    pairErrors <- sErrors

Init ==
    /\ Worker!Init /\ Timer!Init /\ Server!Init
    /\ kStatus = "UNKNOWN" /\ kLoop = "none"
    /\ main = "init"
    /\ exitMutex = "none" /\ handler = "idle" /\ signals = 0
    /\ freed = FALSE
    /\ startled = FALSE

StopDone == {"returned", "skipped"}

-----------------------------------------------------------------------------
(* The worker and the timer threads.                                       *)

WorkerThread ==
    /\ Worker!Start
    /\ UNCHANGED <<timerVars, serverVars, linkVars, main, exitVars, freed>>

WorkerPairFails ==
    /\ Worker!eventCB
    /\ UNCHANGED <<timerVars, serverVars, linkVars, main, exitVars, freed>>

TimerThread ==
    /\ Timer!Start
    /\ UNCHANGED <<workerVars, serverVars, linkVars, main, exitVars, freed>>

-----------------------------------------------------------------------------
(* The server thread: CServer::Loop.                                       *)

LaunchWorker ==
    /\ sLoop = "init"
    /\ Worker!Launch
    /\ UNCHANGED <<timerVars, serverVars, linkVars, main, exitVars, freed>>

LaunchTimer ==
    /\ sLoop = "init"
    /\ wLauncher = "started"
    /\ TimerConfigured
    /\ Timer!Launch
    /\ UNCHANGED <<workerVars, serverVars, linkVars, main, exitVars, freed>>

\* Mutation: CServer::Loop returns without telling the main thread.
LoopFailed_Silent ==
    /\ "refused" \in {wLauncher, tLauncher}
    /\ sLoop = "init"
    /\ sLoop' = "failed"
    /\ UNCHANGED <<workerVars, timerVars, sStatus, sRunOnStop, sStopper,
                   sLauncher, sMutex, sErrors, linkVars, main, exitVars, freed,
                   startled>>

LoopFailed ==
    /\ "refused" \in {wLauncher, tLauncher}
    /\ Server!StartFailed
    /\ UNCHANGED <<workerVars, timerVars, linkVars, main, exitVars, freed>>

\* The exception of Execute() ends the server thread in STARTING.
LoopThrows ==
    /\ sLoop = "init"
    /\ \/ Worker!ExecuteThrows /\ UNCHANGED timerVars
       \/ /\ wLauncher = "started"
          /\ TimerConfigured
          /\ Timer!ExecuteThrows
          /\ UNCHANGED workerVars
    /\ sLoop' = "failed"
    /\ UNCHANGED <<sStatus, sRunOnStop, sStopper, sLauncher, sMutex, sErrors,
                   linkVars, main, exitVars, freed>>

LoopDispatch ==
    /\ wLauncher = "started"
    /\ TimerConfigured => tLauncher = "started"
    /\ Server!StartDispatch
    /\ UNCHANGED <<workerVars, timerVars, linkVars, main, exitVars, freed>>

LoopOther ==
    /\ Server!StartBegin \/ Server!exitMonitorCB \/ Server!StartEnd
    /\ UNCHANGED <<workerVars, timerVars, linkVars, main, exitVars, freed>>

Loop ==
    \/ LaunchWorker \/ LaunchTimer \/ LoopFailed \/ LoopThrows \/ LoopDispatch
    \/ LoopOther

-----------------------------------------------------------------------------
(* The link monitor: CLinkOtherTask::Run.  Link() itself is in Sessions.   *)

LinkRun ==
    /\ kLoop = "spawned"
    /\ kLoop' = "running"
    /\ kStatus' = "RUNING"
    /\ UNCHANGED <<workerVars, timerVars, serverVars, main, exitVars, freed,
                   startled>>

\* Mutation: the monitor ends without saying so.
LinkStopped_Silent ==
    /\ kLoop = "running"
    /\ kStatus # "RUNING"
    /\ kLoop' = "ended"
    /\ UNCHANGED <<workerVars, timerVars, serverVars, kStatus, main,
                   exitVars, freed, startled>>

LinkStopped ==
    /\ kLoop = "running"
    /\ kStatus # "RUNING"
    /\ kLoop' = "ended"
    /\ kStatus' = "STOPPED"
    /\ UNCHANGED <<workerVars, timerVars, serverVars, main, exitVars, freed,
                   startled>>

-----------------------------------------------------------------------------
(* The main thread: Service_InitProgram.                                   *)

\* The log system, the encryption, the mail sender, the scripts or a listener
\* cannot be set up: Service_Exit() with nothing started.
InitFailed ==
    /\ main = "init"
    /\ sLauncher = "idle"
    /\ main' = "stopping"
    /\ UNCHANGED <<workerVars, timerVars, serverVars, linkVars, exitVars,
                   freed, startled>>

initServer ==
    /\ main = "init"
    /\ Server!Launch
    /\ UNCHANGED <<workerVars, timerVars, linkVars, main, exitVars, freed>>

\* Service_InitProgram() catches the exception of Execute().
initServerThrows ==
    /\ main = "init"
    /\ Server!ExecuteThrows
    /\ main' = "stopping"
    /\ UNCHANGED <<workerVars, timerVars, linkVars, exitVars, freed>>

initServerFailed ==
    /\ main = "init"
    /\ sLauncher = "refused"
    /\ main' = "stopping"
    /\ UNCHANGED <<workerVars, timerVars, serverVars, linkVars, exitVars,
                   freed, startled>>

\* The link configuration cannot be read, or the thread cannot be created.
initServerLinkerFailed ==
    /\ main = "init"
    /\ sLauncher = "started"
    /\ main' = "stopping"
    /\ kStatus' \in {kStatus, "STARTING"}
    /\ UNCHANGED <<workerVars, timerVars, serverVars, kLoop, exitVars, freed,
                   startled>>

initServerLinker ==
    /\ main = "init"
    /\ sLauncher = "started"
    /\ main' = "linking"
    /\ kStatus' = "STARTING"
    /\ kLoop' = "spawned"
    /\ UNCHANGED <<workerVars, timerVars, serverVars, exitVars, freed,
                   startled>>

LinkStarted ==
    /\ main = "linking"
    /\ kStatus = "RUNING"
    /\ main' = "ready"
    /\ UNCHANGED <<workerVars, timerVars, serverVars, linkVars, exitVars,
                   freed, startled>>

-----------------------------------------------------------------------------
(* The main thread in startSV, and the handler of the exit signal.         *)

startSVLock ==
    /\ main = "ready"
    /\ exitMutex = "none"
    /\ main' = "locked"
    /\ exitMutex' = "main"
    /\ UNCHANGED <<workerVars, timerVars, serverVars, linkVars, handler,
                   signals, freed, startled>>

startSVWait ==
    /\ main = "locked"
    /\ main' = "waiting"
    /\ exitMutex' = "none"
    /\ UNCHANGED <<workerVars, timerVars, serverVars, linkVars, handler,
                   signals, freed, startled>>

\* Wait() returns with the mutex, which is released at once.
startSVWoken ==
    /\ main = "woken"
    /\ exitMutex = "none"
    /\ main' = "stopping"
    /\ UNCHANGED <<workerVars, timerVars, serverVars, linkVars, exitVars,
                   freed, startled>>

\* A wait on a condition variable may end without a signal.
WaitStartled ==
    /\ \/ /\ Worker!StopSpuriousWake
          /\ UNCHANGED <<timerVars, serverVars, main>>
       \/ /\ Timer!StopSpuriousWake
          /\ UNCHANGED <<workerVars, serverVars, main>>
       \/ /\ Server!StopSpuriousWake
          /\ UNCHANGED <<workerVars, timerVars, main>>
       \/ /\ main = "waiting"
          /\ main' = "woken"
          /\ startled' = TRUE
          /\ UNCHANGED <<workerVars, timerVars, serverVars>>
    /\ UNCHANGED <<linkVars, exitVars, freed>>

startSV == startSVLock \/ startSVWait \/ startSVWoken

SignalArrives ==
    /\ handler = "idle"
    /\ signals < MaxSignals
    /\ main # "exited"
    /\ handler' = "lock"
    /\ signals' = signals + 1
    /\ UNCHANGED <<workerVars, timerVars, serverVars, linkVars, main,
                   exitMutex, freed, startled>>

SigHandLock ==
    /\ handler = "lock"
    /\ exitMutex = "none"
    /\ handler' = "signal"
    /\ exitMutex' = "handler"
    /\ UNCHANGED <<workerVars, timerVars, serverVars, linkVars, main,
                   signals, freed, startled>>

SigHandSignal ==
    /\ handler = "signal"
    /\ handler' = "unlock"
    /\ main' = IF main = "waiting" THEN "woken" ELSE main
    /\ UNCHANGED <<workerVars, timerVars, serverVars, linkVars, exitMutex,
                   signals, freed, startled>>

SigHandUnlock ==
    /\ handler = "unlock"
    /\ handler' = "idle"
    /\ exitMutex' = "none"
    /\ UNCHANGED <<workerVars, timerVars, serverVars, linkVars, main,
                   signals, freed, startled>>

SigHandEntry == SigHandLock \/ SigHandSignal \/ SigHandUnlock

-----------------------------------------------------------------------------
(* The main thread: Service_Exit.                                          *)

\* CServer::Stop looks at its own status first ...
StopServerCheck ==
    /\ main = "stopping"
    /\ Server!StopCheck
    /\ UNCHANGED <<workerVars, timerVars, linkVars, main, exitVars, freed>>

exitTimerTrigger ==
    /\ main = "stopping"
    /\ sStopper # "idle"
    /\ Timer!Stop
    /\ UNCHANGED <<workerVars, serverVars, linkVars, main, exitVars, freed>>

exitWorkThread ==
    /\ main = "stopping"
    /\ tStopper \in StopDone
    /\ Worker!Stop
    /\ UNCHANGED <<timerVars, serverVars, linkVars, main, exitVars, freed>>

\* Mutation: the sessions are freed before the worker is stopped.
freeAllSession_Early ==
    /\ main = "stopping"
    /\ tStopper \in StopDone
    /\ ~freed
    /\ freed' = TRUE
    /\ UNCHANGED <<workerVars, timerVars, serverVars, linkVars, main,
                   exitVars, startled>>

freeAllSession ==
    /\ main = "stopping"
    /\ wStopper \in StopDone
    /\ ~freed
    /\ freed' = TRUE
    /\ UNCHANGED <<workerVars, timerVars, serverVars, linkVars, main,
                   exitVars, startled>>

\* ... and stops itself last.
StopServer ==
    /\ main = "stopping"
    /\ freed
    /\ sStopper # "idle"
    /\ Server!Stop
    /\ UNCHANGED <<workerVars, timerVars, linkVars, main, exitVars, freed>>

\* Mutation: the link monitor is told to stop and not waited for.
stopServerLinker_NoWait ==
    /\ main = "stopping"
    /\ freed
    /\ sStopper \in StopDone
    /\ kStatus' = IF kStatus = "RUNING" THEN "STOPPING" ELSE kStatus
    /\ main' = "exited"
    /\ UNCHANGED <<workerVars, timerVars, serverVars, kLoop, exitVars, freed,
                   startled>>

stopServerLinker ==
    /\ main = "stopping"
    /\ freed
    /\ sStopper \in StopDone
    /\ IF kStatus = "RUNING"
       THEN kStatus' = "STOPPING" /\ main' = "unlinking"
       ELSE UNCHANGED kStatus /\ main' = "exited"
    /\ UNCHANGED <<workerVars, timerVars, serverVars, kLoop, exitVars, freed,
                   startled>>

LinkerStopped ==
    /\ main = "unlinking"
    /\ kStatus = "STOPPED"
    /\ main' = "exited"
    /\ UNCHANGED <<workerVars, timerVars, serverVars, linkVars, exitVars,
                   freed, startled>>

Service_InitProgram ==
    \/ InitFailed \/ initServer \/ initServerThrows \/ initServerFailed
    \/ initServerLinker \/ initServerLinkerFailed \/ LinkStarted

Service_Exit ==
    \/ StopServerCheck \/ exitTimerTrigger \/ exitWorkThread \/ freeAllSession
    \/ StopServer \/ stopServerLinker \/ LinkerStopped

Main == Service_InitProgram \/ startSV \/ Service_Exit

Next ==
    \/ WorkerThread \/ WorkerPairFails \/ TimerThread \/ Loop \/ LinkRun \/ LinkStopped
    \/ Main \/ SignalArrives \/ SigHandEntry \/ WaitStartled

Spec == Init /\ [][Next]_vars

(***************************************************************************)
(* Every thread is scheduled.  No signal has to arrive, and no socket pair *)
(* has to fail.                                                            *)
(***************************************************************************)
Fairness ==
    /\ WF_vars(WorkerThread)
    /\ WF_vars(TimerThread)
    /\ WF_vars(Loop)
    /\ WF_vars(LinkRun \/ LinkStopped)
    /\ WF_vars(Main)
    /\ WF_vars(SigHandEntry)

FairSpec == Spec /\ Fairness

-----------------------------------------------------------------------------
(* Properties.                                                             *)

\* A thread that may be, or come, inside event_base_dispatch.
Alive(loop) == loop \in {"spawned", "init", "dispatch"}

\* exitWorkThread frees the sessions only when the worker, whose callbacks use
\* them without a lock, has left its event loop (as long as no socket pair of
\* the worker fails and no wait ends without a signal).
FreedAfterWorker ==
    freed /\ wErrors = 0 /\ ~startled => ~Alive(wLoop)

\* When Service_Exit() is through, no thread of the service is left running:
\* the static objects they use are destroyed when main() returns.
ExitLeavesNoThread ==
    main = "exited" /\ wErrors = 0 /\ ~startled =>
        /\ ~Alive(wLoop) /\ ~Alive(tLoop) /\ ~Alive(sLoop)
        /\ kLoop # "running"

\* The start-up comes to an end: the service waits for its exit signal or
\* Service_InitProgram() gives up and everything is stopped (unless a socket
\* pair of the worker fails before waitForStarted() has seen it running, or the
\* server thread cannot create a thread).
StartUpEnds ==
    main = "init" ~> \/ main \in {"waiting", "exited"}
                     \/ wErrors > 0
                     \/ "thrown" \in {wLauncher, tLauncher}

\* A signal that finds the main thread waiting ends the process.
WokenExits ==
    main = "woken" ~> main = "exited" \/ wErrors > 0

\* What the start message says, "exit service by command kill -N pid": the exit
\* signal ends the process. TLC refutes it: a signal that is handled before the
\* main thread waits is lost (startSV's wait has no predicate).
SignalExits ==
    signals > 0 ~> main = "exited"
=============================================================================
