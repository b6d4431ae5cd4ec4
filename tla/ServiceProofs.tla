---------------------------- MODULE ServiceProofs ----------------------------
(***************************************************************************)
(* Proofs about Service, for any number of signals and of socket-pair      *)
(* errors, with the timer or without; and, at the end, about one loop of   *)
(* EventLoop, whatever the shut-down script answers.                       *)
(***************************************************************************)
EXTENDS Service, TLAPS

-----------------------------------------------------------------------------
(***************************************************************************)
(* What holds of each of the three loops as long as no socket pair failed  *)
(* and no wait ended without a signal.                                     *)
(***************************************************************************)

\* The status says where the loop thread is.  A server thread that could not
\* create a thread ends in STARTING.
StatusOfLoop(status, loop) ==
    /\ loop \in {"none", "spawned"} => status = "UNKNOWN"
    /\ loop = "init" => status = "STARTING"
    /\ loop = "failed" => status \in {"STARTING", "ERROR"}
    /\ loop = "dispatch" => status \in {"RUNING", "STOPPING", "STOPPED"}
    /\ loop \in {"broken", "lock", "signal", "unlock", "ended"}
          => status = "STOPPED"

\* What the launching thread has seen.
LauncherSaw(status, loop, launcher) ==
    /\ launcher \in {"idle", "thrown"} => loop = "none"
    /\ launcher = "refused" => loop = "failed"
    /\ launcher = "started" => status \in {"RUNING", "STOPPING", "STOPPED"}

\* Only Stop() takes the loop out of RUNING, and it is woken by the loop's end.
StopperSaw(status, loop, stopper) ==
    /\ stopper \in {"idle", "lock", "set", "skipped"}
          => status \notin {"STOPPING", "STOPPED"}
    /\ stopper \in {"lock", "set"} => status = "RUNING"
    /\ stopper \in {"woken", "unlock", "returned"} => loop \in {"unlock", "ended"}
    /\ stopper = "skipped" => loop \in {"none", "failed"}

LoopInv(status, loop, stopper, launcher) ==
    /\ loop \in {"none", "spawned", "init", "dispatch", "broken", "lock",
                 "signal", "unlock", "ended", "failed"}
    /\ StatusOfLoop(status, loop)
    /\ LauncherSaw(status, loop, launcher)
    /\ StopperSaw(status, loop, stopper)

-----------------------------------------------------------------------------
(* How the threads depend on each other.                                   *)

\* The server thread launches the worker and then the timer while it
\* initialises, and the main thread waits for the server.
LaunchOrder ==
    /\ "polling" \in {wLauncher, tLauncher} => sLoop = "init"
    /\ tLauncher # "idle" => wLauncher = "started" /\ TimerConfigured
    /\ main # "init" => sLauncher # "polling"
    /\ sLauncher \in {"idle", "polling", "started", "refused", "thrown"}
    /\ wLauncher \in {"idle", "polling", "started", "refused", "thrown"}
    /\ tLauncher \in {"idle", "polling", "started", "refused", "thrown"}

\* Service_Exit() stops the timer, the worker and the server in this order, and
\* frees the sessions in between.
StopOrder ==
    /\ (sStopper # "idle" \/ tStopper # "idle" \/ wStopper # "idle")
          => main \in {"stopping", "unlinking", "exited"}
    /\ wStopper # "idle" => tStopper \in StopDone
    /\ freed => wStopper \in StopDone
    /\ main \in {"unlinking", "exited"} => freed /\ sStopper \in StopDone

\* The monitor of the links.
LinkMonitor ==
    /\ main = "init" => kLoop = "none" /\ kStatus = "UNKNOWN"
    /\ main = "linking" =>
          \/ kLoop = "spawned" /\ kStatus = "STARTING"
          \/ kLoop = "running" /\ kStatus = "RUNING"
    /\ main \in {"ready", "locked", "waiting", "woken"} =>
          kLoop = "running" /\ kStatus = "RUNING"
    /\ main = "stopping" =>
          \/ kLoop = "none" /\ kStatus # "RUNING"
          \/ kLoop = "running" /\ kStatus = "RUNING"
    /\ main = "unlinking" =>
          \/ kLoop = "running" /\ kStatus = "STOPPING"
          \/ kLoop = "ended" /\ kStatus = "STOPPED"
    /\ main = "exited" => kLoop \in {"none", "ended"}

Parts ==
    /\ LoopInv(wStatus, wLoop, wStopper, wLauncher)
    /\ LoopInv(tStatus, tLoop, tStopper, tLauncher)
    /\ LoopInv(sStatus, sLoop, sStopper, sLauncher)
    /\ LaunchOrder /\ StopOrder /\ LinkMonitor

Quiet == wErrors = 0 /\ ~startled

ServiceInv ==
    /\ wErrors \in Nat
    /\ Quiet => Parts

-----------------------------------------------------------------------------
(* The loops.                                                              *)

\* The steps of the worker's loop.
LEMMA WorkerLoop ==
  ASSUME LoopInv(wStatus, wLoop, wStopper, wLauncher),
         \/ Worker!Launch /\ wStopper = "idle"
         \/ Worker!ExecuteThrows
         \/ Worker!Start
         \/ /\ Worker!Stop
            /\ wStopper = "idle" /\ wStatus # "RUNING" => wLoop \in {"none", "failed"}
  PROVE  LoopInv(wStatus, wLoop, wStopper, wLauncher)'
<1> USE DEF LoopInv, StatusOfLoop, LauncherSaw, StopperSaw
<1>1. CASE Worker!Launch /\ wStopper = "idle"
  BY <1>1 DEF Worker!Launch, Worker!Execute, Worker!waitForStarted, Worker!getIsRun
<1>2. CASE Worker!ExecuteThrows
  BY <1>2 DEF Worker!ExecuteThrows
<1>3. CASE Worker!StartInit
  BY <1>3 DEF Worker!StartInit, Worker!StartBegin, Worker!StartFailed, Worker!StartDispatch
<1>4. CASE Worker!exitMonitorCB
  BY <1>4 DEF Worker!exitMonitorCB, Worker!exitMonitorStopping, Worker!exitMonitorStopped
<1>5. CASE Worker!StartEnd
  BY <1>5 DEF Worker!StartEnd, Worker!StartLeft, Worker!StartLock, Worker!StartSignal,
     Worker!StartUnlock
<1>6. CASE Worker!Stop /\ (wStopper = "idle" /\ wStatus # "RUNING" => wLoop \in {"none", "failed"})
  BY <1>6 DEF Worker!Stop, Worker!StopCheck, Worker!getIsRun, Worker!StopLock,
              Worker!StopSet, Worker!StopWait, Worker!StopRelock, Worker!StopUnlock
<1> QED
  BY <1>1, <1>2, <1>3, <1>4, <1>5, <1>6 DEF Worker!Start

\* The steps of the timer's loop.
LEMMA TimerLoop ==
  ASSUME LoopInv(tStatus, tLoop, tStopper, tLauncher),
         \/ Timer!Launch /\ tStopper = "idle"
         \/ Timer!ExecuteThrows
         \/ Timer!Start
         \/ /\ Timer!Stop
            /\ tStopper = "idle" /\ tStatus # "RUNING" => tLoop \in {"none", "failed"}
  PROVE  LoopInv(tStatus, tLoop, tStopper, tLauncher)'
<1> USE DEF LoopInv, StatusOfLoop, LauncherSaw, StopperSaw
<1>1. CASE Timer!Launch /\ tStopper = "idle"
  BY <1>1 DEF Timer!Launch, Timer!Execute, Timer!waitForStarted, Timer!getIsRun
<1>2. CASE Timer!ExecuteThrows
  BY <1>2 DEF Timer!ExecuteThrows
<1>3. CASE Timer!StartInit
  BY <1>3 DEF Timer!StartInit, Timer!StartBegin, Timer!StartFailed, Timer!StartDispatch
<1>4. CASE Timer!exitMonitorCB
  BY <1>4 DEF Timer!exitMonitorCB, Timer!exitMonitorStopping, Timer!exitMonitorStopped
<1>5. CASE Timer!StartEnd
  BY <1>5 DEF Timer!StartEnd, Timer!StartLeft, Timer!StartLock, Timer!StartSignal,
     Timer!StartUnlock
<1>6. CASE Timer!Stop /\ (tStopper = "idle" /\ tStatus # "RUNING" => tLoop \in {"none", "failed"})
  BY <1>6 DEF Timer!Stop, Timer!StopCheck, Timer!getIsRun, Timer!StopLock, Timer!StopSet,
     Timer!StopWait,
              Timer!StopRelock, Timer!StopUnlock
<1> QED
  BY <1>1, <1>2, <1>3, <1>4, <1>5, <1>6 DEF Timer!Start

\* The steps of the server's loop, except that an exception ends it (LoopThrows).
LEMMA ServerLoop ==
  ASSUME LoopInv(sStatus, sLoop, sStopper, sLauncher),
         \/ Server!Launch /\ sStopper = "idle"
         \/ Server!ExecuteThrows
         \/ Server!Start
         \/ /\ Server!Stop
            /\ sStopper = "idle" /\ sStatus # "RUNING" => sLoop \in {"none", "failed"}
  PROVE  LoopInv(sStatus, sLoop, sStopper, sLauncher)'
<1> USE DEF LoopInv, StatusOfLoop, LauncherSaw, StopperSaw
<1>1. CASE Server!Launch /\ sStopper = "idle"
  BY <1>1 DEF Server!Launch, Server!Execute, Server!waitForStarted, Server!getIsRun
<1>2. CASE Server!ExecuteThrows
  BY <1>2 DEF Server!ExecuteThrows
<1>3. CASE Server!StartInit
  BY <1>3 DEF Server!StartInit, Server!StartBegin, Server!StartFailed, Server!StartDispatch
<1>4. CASE Server!exitMonitorCB
  BY <1>4 DEF Server!exitMonitorCB, Server!exitMonitorStopping, Server!exitMonitorStopped
<1>5. CASE Server!StartEnd
  BY <1>5 DEF Server!StartEnd, Server!StartLeft, Server!StartLock, Server!StartSignal,
     Server!StartUnlock
<1>6. CASE Server!Stop /\ (sStopper = "idle" /\ sStatus # "RUNING" => sLoop \in {"none", "failed"})
  BY <1>6 DEF Server!Stop, Server!StopCheck, Server!getIsRun, Server!StopLock,
              Server!StopSet, Server!StopWait, Server!StopRelock, Server!StopUnlock
<1> QED
  BY <1>1, <1>2, <1>3, <1>4, <1>5, <1>6 DEF Server!Start

\* What the steps of the worker's loop leave alone.
LEMMA WorkerFrame ==
  /\ Worker!Start =>
       /\ UNCHANGED <<wLauncher, wErrors, startled>>
       /\ wStopper' = wStopper \/ (wStopper = "waiting" /\ wStopper' = "woken")
  /\ Worker!Stop =>
       /\ UNCHANGED <<wLauncher, wLoop, wErrors, startled>>
       /\ wStopper \notin StopDone /\ wStopper' # "idle"
  /\ Worker!Launch =>
       /\ UNCHANGED <<wStopper, wErrors, startled>>
       /\ \/ wLauncher = "idle" /\ wLauncher' = "polling"
          \/ wLauncher = "polling" /\ wLauncher' \in {"started", "refused"}
  /\ Worker!ExecuteThrows =>
       /\ UNCHANGED <<wStopper, wErrors, startled>>
       /\ wLauncher = "idle" /\ wLauncher' = "thrown"
<1>1. Worker!Start =>
       /\ UNCHANGED <<wLauncher, wErrors, startled>>
       /\ wStopper' = wStopper \/ (wStopper = "waiting" /\ wStopper' = "woken")
  BY DEF Worker!Start, Worker!StartInit, Worker!StartBegin, Worker!StartFailed,
     Worker!StartDispatch,
         Worker!exitMonitorCB, Worker!exitMonitorStopping, Worker!exitMonitorStopped,
         Worker!StartEnd, Worker!StartLeft, Worker!StartLock, Worker!StartSignal, Worker!StartUnlock
<1>2. Worker!Stop =>
       /\ UNCHANGED <<wLauncher, wLoop, wErrors, startled>>
       /\ wStopper \notin StopDone /\ wStopper' # "idle"
  BY DEF StopDone, Worker!Stop, Worker!StopCheck, Worker!StopLock, Worker!StopSet,
     Worker!StopWait,
         Worker!StopRelock, Worker!StopUnlock
<1>3. Worker!Launch =>
       /\ UNCHANGED <<wStopper, wErrors, startled>>
       /\ \/ wLauncher = "idle" /\ wLauncher' = "polling"
          \/ wLauncher = "polling" /\ wLauncher' \in {"started", "refused"}
  BY DEF Worker!Launch, Worker!Execute, Worker!waitForStarted
<1>4. Worker!ExecuteThrows =>
       /\ UNCHANGED <<wStopper, wErrors, startled>>
       /\ wLauncher = "idle" /\ wLauncher' = "thrown"
  BY DEF Worker!ExecuteThrows
<1> QED
  BY <1>1, <1>2, <1>3, <1>4

\* What the steps of the timer's loop leave alone.
LEMMA TimerFrame ==
  /\ Timer!Start =>
       /\ UNCHANGED <<tLauncher, tErrors, startled>>
       /\ tStopper' = tStopper \/ (tStopper = "waiting" /\ tStopper' = "woken")
  /\ Timer!Stop =>
       /\ UNCHANGED <<tLauncher, tLoop, tErrors, startled>>
       /\ tStopper \notin StopDone /\ tStopper' # "idle"
  /\ Timer!Launch =>
       /\ UNCHANGED <<tStopper, tErrors, startled>>
       /\ \/ tLauncher = "idle" /\ tLauncher' = "polling"
          \/ tLauncher = "polling" /\ tLauncher' \in {"started", "refused"}
  /\ Timer!ExecuteThrows =>
       /\ UNCHANGED <<tStopper, tErrors, startled>>
       /\ tLauncher = "idle" /\ tLauncher' = "thrown"
<1>1. Timer!Start =>
       /\ UNCHANGED <<tLauncher, tErrors, startled>>
       /\ tStopper' = tStopper \/ (tStopper = "waiting" /\ tStopper' = "woken")
  BY DEF Timer!Start, Timer!StartInit, Timer!StartBegin, Timer!StartFailed,
     Timer!StartDispatch,
         Timer!exitMonitorCB, Timer!exitMonitorStopping, Timer!exitMonitorStopped,
         Timer!StartEnd, Timer!StartLeft, Timer!StartLock, Timer!StartSignal, Timer!StartUnlock
<1>2. Timer!Stop =>
       /\ UNCHANGED <<tLauncher, tLoop, tErrors, startled>>
       /\ tStopper \notin StopDone /\ tStopper' # "idle"
  BY DEF StopDone, Timer!Stop, Timer!StopCheck, Timer!StopLock, Timer!StopSet,
     Timer!StopWait,
         Timer!StopRelock, Timer!StopUnlock
<1>3. Timer!Launch =>
       /\ UNCHANGED <<tStopper, tErrors, startled>>
       /\ \/ tLauncher = "idle" /\ tLauncher' = "polling"
          \/ tLauncher = "polling" /\ tLauncher' \in {"started", "refused"}
  BY DEF Timer!Launch, Timer!Execute, Timer!waitForStarted
<1>4. Timer!ExecuteThrows =>
       /\ UNCHANGED <<tStopper, tErrors, startled>>
       /\ tLauncher = "idle" /\ tLauncher' = "thrown"
  BY DEF Timer!ExecuteThrows
<1> QED
  BY <1>1, <1>2, <1>3, <1>4

\* What the steps of the server's loop leave alone.
LEMMA ServerFrame ==
  /\ Server!Start =>
       /\ UNCHANGED <<sLauncher, sErrors, startled>>
       /\ sStopper' = sStopper \/ (sStopper = "waiting" /\ sStopper' = "woken")
  /\ Server!Stop =>
       /\ UNCHANGED <<sLauncher, sLoop, sErrors, startled>>
       /\ sStopper \notin StopDone /\ sStopper' # "idle"
  /\ Server!Launch =>
       /\ UNCHANGED <<sStopper, sErrors, startled>>
       /\ \/ sLauncher = "idle" /\ sLauncher' = "polling"
          \/ sLauncher = "polling" /\ sLauncher' \in {"started", "refused"}
  /\ Server!ExecuteThrows =>
       /\ UNCHANGED <<sStopper, sErrors, startled>>
       /\ sLauncher = "idle" /\ sLauncher' = "thrown"
<1>1. Server!Start =>
       /\ UNCHANGED <<sLauncher, sErrors, startled>>
       /\ sStopper' = sStopper \/ (sStopper = "waiting" /\ sStopper' = "woken")
  BY DEF Server!Start, Server!StartInit, Server!StartBegin, Server!StartFailed,
     Server!StartDispatch,
         Server!exitMonitorCB, Server!exitMonitorStopping, Server!exitMonitorStopped,
         Server!StartEnd, Server!StartLeft, Server!StartLock, Server!StartSignal, Server!StartUnlock
<1>2. Server!Stop =>
       /\ UNCHANGED <<sLauncher, sLoop, sErrors, startled>>
       /\ sStopper \notin StopDone /\ sStopper' # "idle"
  BY DEF StopDone, Server!Stop, Server!StopCheck, Server!StopLock, Server!StopSet,
     Server!StopWait,
         Server!StopRelock, Server!StopUnlock
<1>3. Server!Launch =>
       /\ UNCHANGED <<sStopper, sErrors, startled>>
       /\ \/ sLauncher = "idle" /\ sLauncher' = "polling"
          \/ sLauncher = "polling" /\ sLauncher' \in {"started", "refused"}
  BY DEF Server!Launch, Server!Execute, Server!waitForStarted
<1>4. Server!ExecuteThrows =>
       /\ UNCHANGED <<sStopper, sErrors, startled>>
       /\ sLauncher = "idle" /\ sLauncher' = "thrown"
  BY DEF Server!ExecuteThrows
<1> QED
  BY <1>1, <1>2, <1>3, <1>4

-----------------------------------------------------------------------------
(* The service.                                                            *)

\* While a thread is launched by the server thread the main thread is in
\* Service_InitProgram() and nothing is being stopped.
LEMMA InitAlone ==
  ASSUME Parts, sLoop = "init"
  PROVE  main = "init" /\ sStopper = "idle" /\ tStopper = "idle" /\ wStopper = "idle"
<1>1. main = "init"
  BY DEF Parts, LaunchOrder, LoopInv, StatusOfLoop, LauncherSaw
<1> QED
  BY <1>1 DEF Parts, StopOrder

\* Once Service_Exit() runs, a loop that is not in RUNING before its Stop() has
\* no thread in or on its way to event_base_dispatch.
LEMMA NotRunning ==
  ASSUME Parts, main # "init"
  PROVE  /\ sStopper = "idle" /\ sStatus # "RUNING" => sLoop \in {"none", "failed"}
         /\ tStopper = "idle" /\ tStatus # "RUNING" => tLoop \in {"none", "failed"}
         /\ wStopper = "idle" /\ wStatus # "RUNING" => wLoop \in {"none", "failed"}
<1>1. sLoop # "init"
  BY InitAlone
<1>2. "polling" \notin {wLauncher, tLauncher, sLauncher}
  BY <1>1 DEF Parts, LaunchOrder
<1>3. sStopper = "idle" /\ sStatus # "RUNING" => sLoop \in {"none", "failed"}
  BY <1>2 DEF Parts, LaunchOrder, LoopInv, LauncherSaw, StopperSaw
<1>4. tStopper = "idle" /\ tStatus # "RUNING" => tLoop \in {"none", "failed"}
  BY <1>2 DEF Parts, LaunchOrder, LoopInv, LauncherSaw, StopperSaw
<1>5. wStopper = "idle" /\ wStatus # "RUNING" => wLoop \in {"none", "failed"}
  BY <1>2 DEF Parts, LaunchOrder, LoopInv, LauncherSaw, StopperSaw
<1> QED
  BY <1>3, <1>4, <1>5

\* A loop none of whose variables changes.
LEMMA LoopsKept ==
  /\ UNCHANGED workerVars =>
       LoopInv(wStatus, wLoop, wStopper, wLauncher)' = LoopInv(wStatus, wLoop, wStopper, wLauncher)
  /\ UNCHANGED timerVars =>
       LoopInv(tStatus, tLoop, tStopper, tLauncher)' = LoopInv(tStatus, tLoop, tStopper, tLauncher)
  /\ UNCHANGED serverVars =>
       LoopInv(sStatus, sLoop, sStopper, sLauncher)' = LoopInv(sStatus, sLoop, sStopper, sLauncher)
BY DEF workerVars, timerVars, serverVars, LoopInv, StatusOfLoop, LauncherSaw, StopperSaw

\* The worker's thread and the timer's thread.
LEMMA ThreadsKeep ==
  ASSUME Parts, WorkerThread \/ TimerThread
  PROVE  Parts'
<1> USE DEF linkVars, exitVars
<1>1. CASE WorkerThread
  <2>1. LoopInv(wStatus, wLoop, wStopper, wLauncher)'
    BY <1>1, WorkerLoop DEF Parts, WorkerThread
  <2>2. LoopInv(tStatus, tLoop, tStopper, tLauncher)' /\ LoopInv(sStatus, sLoop, sStopper, sLauncher)'
    BY <1>1, LoopsKept DEF Parts, WorkerThread
  <2>3. /\ wLauncher' = wLauncher
        /\ wStopper' = wStopper \/ (wStopper = "waiting" /\ wStopper' = "woken")
    BY <1>1, WorkerFrame DEF WorkerThread
  <2>4. LaunchOrder'
    BY <1>1, <2>3 DEF Parts, LaunchOrder, WorkerThread, timerVars, serverVars
  <2>5. StopOrder'
    BY <1>1, <2>3 DEF Parts, StopOrder, StopDone, WorkerThread, timerVars, serverVars
  <2>6. LinkMonitor'
    BY <1>1 DEF Parts, LinkMonitor, WorkerThread
  <2> QED
    BY <2>1, <2>2, <2>4, <2>5, <2>6 DEF Parts
<1>2. CASE TimerThread
  <2>1. LoopInv(tStatus, tLoop, tStopper, tLauncher)'
    BY <1>2, TimerLoop DEF Parts, TimerThread
  <2>2. LoopInv(wStatus, wLoop, wStopper, wLauncher)' /\ LoopInv(sStatus, sLoop, sStopper, sLauncher)'
    BY <1>2, LoopsKept DEF Parts, TimerThread
  <2>3. /\ tLauncher' = tLauncher
        /\ tStopper' = tStopper \/ (tStopper = "waiting" /\ tStopper' = "woken")
    BY <1>2, TimerFrame DEF TimerThread
  <2>4. LaunchOrder'
    BY <1>2, <2>3 DEF Parts, LaunchOrder, TimerThread, workerVars, serverVars
  <2>5. StopOrder'
    BY <1>2, <2>3 DEF Parts, StopOrder, StopDone, TimerThread, workerVars, serverVars
  <2>6. LinkMonitor'
    BY <1>2 DEF Parts, LinkMonitor, TimerThread
  <2> QED
    BY <2>1, <2>2, <2>4, <2>5, <2>6 DEF Parts
<1> QED
  BY <1>1, <1>2

\* The server's thread launches the worker or the timer.
LEMMA LaunchKeeps ==
  ASSUME Parts, LaunchWorker \/ LaunchTimer
  PROVE  Parts'
<1> USE DEF linkVars, exitVars
<1>0. sLoop = "init" /\ main = "init" /\ sStopper = "idle" /\ tStopper = "idle" /\ wStopper = "idle"
  BY InitAlone DEF LaunchWorker, LaunchTimer
<1>1. CASE LaunchWorker
  <2>1. LoopInv(wStatus, wLoop, wStopper, wLauncher)'
    BY <1>0, <1>1, WorkerLoop DEF Parts, LaunchWorker
  <2>2. LoopInv(tStatus, tLoop, tStopper, tLauncher)' /\ LoopInv(sStatus, sLoop, sStopper, sLauncher)'
    BY <1>1, LoopsKept DEF Parts, LaunchWorker
  <2>3. /\ wStopper' = wStopper /\ wLauncher # "started"
        /\ wLauncher' \in {"polling", "started", "refused"}
    BY <1>1, WorkerFrame DEF LaunchWorker
  <2>4. LaunchOrder'
    BY <1>0, <1>1, <2>3 DEF Parts, LaunchOrder, LaunchWorker, timerVars, serverVars
  <2>5. StopOrder'
    BY <1>1, <2>3 DEF Parts, StopOrder, LaunchWorker, timerVars, serverVars
  <2>6. LinkMonitor'
    BY <1>1 DEF Parts, LinkMonitor, LaunchWorker
  <2> QED
    BY <2>1, <2>2, <2>4, <2>5, <2>6 DEF Parts
<1>2. CASE LaunchTimer
  <2>1. LoopInv(tStatus, tLoop, tStopper, tLauncher)'
    BY <1>0, <1>2, TimerLoop DEF Parts, LaunchTimer
  <2>2. LoopInv(wStatus, wLoop, wStopper, wLauncher)' /\ LoopInv(sStatus, sLoop, sStopper, sLauncher)'
    BY <1>2, LoopsKept DEF Parts, LaunchTimer
  <2>3. tStopper' = tStopper /\ tLauncher' \in {"polling", "started", "refused"}
    BY <1>2, TimerFrame DEF LaunchTimer
  <2>4. LaunchOrder'
    BY <1>0, <1>2, <2>3 DEF Parts, LaunchOrder, LaunchTimer, workerVars, serverVars
  <2>5. StopOrder'
    BY <1>2, <2>3 DEF Parts, StopOrder, LaunchTimer, workerVars, serverVars
  <2>6. LinkMonitor'
    BY <1>2 DEF Parts, LinkMonitor, LaunchTimer
  <2> QED
    BY <2>1, <2>2, <2>4, <2>5, <2>6 DEF Parts
<1> QED
  BY <1>1, <1>2

\* The server's thread goes on by itself: nobody it launched is polled any more
\* when it leaves its initialisation.
LEMMA ServerKeeps ==
  ASSUME Parts, LoopFailed \/ LoopDispatch \/ LoopOther
  PROVE  Parts'
<1> USE DEF linkVars, exitVars
<1>1. Server!Start /\ UNCHANGED <<workerVars, timerVars, linkVars, main, exitVars, freed>>
  BY DEF LoopFailed, LoopDispatch, LoopOther, Server!Start, Server!StartInit
<1>2. LoopInv(sStatus, sLoop, sStopper, sLauncher)'
  BY <1>1, ServerLoop DEF Parts
<1>3. LoopInv(wStatus, wLoop, wStopper, wLauncher)' /\ LoopInv(tStatus, tLoop, tStopper, tLauncher)'
  BY <1>1, LoopsKept DEF Parts
<1>4. /\ sLauncher' = sLauncher
      /\ sStopper' = sStopper \/ (sStopper = "waiting" /\ sStopper' = "woken")
  BY <1>1, ServerFrame
<1>5. "polling" \notin {wLauncher, tLauncher}
  <2>1. CASE LoopFailed \/ LoopDispatch
    BY <2>1 DEF Parts, LaunchOrder, LoopFailed, LoopDispatch
  <2>2. CASE LoopOther
    <3>1. sLoop # "init"
      BY <2>2 DEF LoopOther, Server!StartBegin, Server!exitMonitorCB,
         Server!exitMonitorStopping,
             Server!exitMonitorStopped, Server!StartEnd, Server!StartLeft, Server!StartLock,
             Server!StartSignal, Server!StartUnlock
    <3> QED
      BY <3>1 DEF Parts, LaunchOrder
  <2> QED
    BY <2>1, <2>2
<1>6. LaunchOrder'
  BY <1>1, <1>4, <1>5 DEF Parts, LaunchOrder, workerVars, timerVars
<1>7. StopOrder'
  BY <1>1, <1>4 DEF Parts, StopOrder, StopDone, workerVars, timerVars
<1>8. LinkMonitor'
  BY <1>1 DEF Parts, LinkMonitor
<1> QED
  BY <1>2, <1>3, <1>6, <1>7, <1>8 DEF Parts

\* Execute() throws in the server's thread, which ends.
LEMMA LoopThrowsKeeps ==
  ASSUME Parts, LoopThrows
  PROVE  Parts'
<1> USE DEF linkVars, exitVars
<1>0. sLoop = "init" /\ main = "init" /\ sStopper = "idle" /\ tStopper = "idle" /\ wStopper = "idle"
  BY InitAlone DEF LoopThrows
<1>1. /\ sLoop' = "failed"
      /\ UNCHANGED <<sStatus, sStopper, sLauncher, linkVars, main, exitVars, freed>>
  BY DEF LoopThrows
<1>2. LoopInv(sStatus, sLoop, sStopper, sLauncher)'
  BY <1>0, <1>1 DEF Parts, LoopInv, StatusOfLoop, LauncherSaw, StopperSaw
<1>3. CASE Worker!ExecuteThrows /\ UNCHANGED timerVars
  <2>1. LoopInv(wStatus, wLoop, wStopper, wLauncher)' /\ LoopInv(tStatus, tLoop, tStopper, tLauncher)'
    BY <1>3, WorkerLoop, LoopsKept DEF Parts
  <2>2. wStopper' = wStopper /\ wLauncher = "idle" /\ wLauncher' = "thrown"
    BY <1>3, WorkerFrame
  <2>3. LaunchOrder'
    BY <1>1, <1>3, <2>2 DEF Parts, LaunchOrder, timerVars
  <2>4. StopOrder' /\ LinkMonitor'
    BY <1>1, <1>3, <2>2 DEF Parts, StopOrder, LinkMonitor, timerVars
  <2> QED
    BY <1>2, <2>1, <2>3, <2>4 DEF Parts
<1>4. CASE wLauncher = "started" /\ TimerConfigured /\ Timer!ExecuteThrows /\ UNCHANGED workerVars
  <2>1. LoopInv(wStatus, wLoop, wStopper, wLauncher)' /\ LoopInv(tStatus, tLoop, tStopper, tLauncher)'
    BY <1>4, TimerLoop, LoopsKept DEF Parts
  <2>2. tStopper' = tStopper /\ tLauncher = "idle" /\ tLauncher' = "thrown"
    BY <1>4, TimerFrame
  <2>3. LaunchOrder'
    BY <1>1, <1>4, <2>2 DEF Parts, LaunchOrder, workerVars
  <2>4. StopOrder' /\ LinkMonitor'
    BY <1>1, <1>4, <2>2 DEF Parts, StopOrder, LinkMonitor, workerVars
  <2> QED
    BY <1>2, <2>1, <2>3, <2>4 DEF Parts
<1> QED
  BY <1>3, <1>4 DEF LoopThrows

\* The main thread launches the server.
LEMMA initServerKeeps ==
  ASSUME Parts, initServer \/ initServerThrows
  PROVE  Parts'
<1> USE DEF linkVars, exitVars
<1>0. main = "init" /\ sStopper = "idle" /\ tStopper = "idle" /\ wStopper = "idle" /\ ~freed
  BY DEF initServer, initServerThrows, Parts, StopOrder, StopDone
<1>1. UNCHANGED <<workerVars, timerVars, linkVars, exitVars, freed>>
  BY DEF initServer, initServerThrows
<1>2. LoopInv(wStatus, wLoop, wStopper, wLauncher)' /\ LoopInv(tStatus, tLoop, tStopper, tLauncher)'
  BY <1>1, LoopsKept DEF Parts
<1>3. LoopInv(sStatus, sLoop, sStopper, sLauncher)'
  BY <1>0, ServerLoop DEF Parts, initServer, initServerThrows
<1>4. CASE initServer
  <2>1. main' = main /\ sStopper' = sStopper /\ sLauncher' \in {"polling", "started", "refused"}
    BY <1>4, ServerFrame DEF initServer
  <2>2. sLoop = "init" => sLoop' = "init"
    BY <1>4 DEF Parts, LoopInv, LauncherSaw, initServer, Server!Launch, Server!Execute,
           Server!waitForStarted
  <2>3. LaunchOrder'
    BY <1>0, <1>1, <2>1, <2>2 DEF Parts, LaunchOrder, workerVars, timerVars
  <2>4. StopOrder' /\ LinkMonitor'
    BY <1>1, <2>1 DEF Parts, StopOrder, LinkMonitor, workerVars, timerVars
  <2> QED
    BY <1>2, <1>3, <2>3, <2>4 DEF Parts
<1>5. CASE initServerThrows
  <2>1. /\ main' = "stopping" /\ sStopper' = sStopper /\ sLauncher' = "thrown" /\ sLauncher = "idle"
        /\ sLoop' = sLoop
    BY <1>5, ServerFrame DEF initServerThrows, Server!ExecuteThrows
  <2>2. LaunchOrder'
    BY <1>1, <2>1 DEF Parts, LaunchOrder, workerVars, timerVars
  <2>3. StopOrder'
    BY <1>0, <1>1, <2>1 DEF Parts, StopOrder, workerVars, timerVars
  <2>4. LinkMonitor'
    BY <1>0, <1>1, <2>1 DEF Parts, LinkMonitor
  <2> QED
    BY <1>2, <1>3, <2>2, <2>3, <2>4 DEF Parts
<1> QED
  BY <1>4, <1>5

\* The steps that touch no loop: the monitor, the main thread between its calls
\* and the signal handler.
LEMMA OthersKeep ==
  ASSUME Parts,
         \/ LinkRun \/ LinkStopped
         \/ InitFailed \/ initServerFailed \/ initServerLinker \/ initServerLinkerFailed
         \/ LinkStarted \/ startSV \/ SignalArrives \/ SigHandEntry
         \/ freeAllSession \/ stopServerLinker \/ LinkerStopped
  PROVE  Parts'
<1> USE DEF linkVars, exitVars
<1>1. UNCHANGED <<workerVars, timerVars, serverVars>>
  BY DEF LinkRun, LinkStopped, InitFailed, initServerFailed, initServerLinker,
         initServerLinkerFailed, LinkStarted, startSV, startSVLock, startSVWait, startSVWoken,
         SignalArrives, SigHandEntry, SigHandLock, SigHandSignal, SigHandUnlock,
         freeAllSession, stopServerLinker, LinkerStopped
<1>2. /\ LoopInv(wStatus, wLoop, wStopper, wLauncher)'
      /\ LoopInv(tStatus, tLoop, tStopper, tLauncher)'
      /\ LoopInv(sStatus, sLoop, sStopper, sLauncher)'
  BY <1>1, LoopsKept DEF Parts
<1>3. /\ UNCHANGED <<wLauncher, tLauncher, sLauncher, sLoop, wStopper, tStopper, sStopper>>
  BY <1>1 DEF workerVars, timerVars, serverVars
<1>4. SUFFICES LaunchOrder' /\ StopOrder' /\ LinkMonitor'
  BY <1>2 DEF Parts
<1>5. CASE LinkRun \/ LinkStopped
  BY <1>3, <1>5 DEF Parts, LaunchOrder, StopOrder, LinkMonitor, LinkRun, LinkStopped
<1>6. CASE InitFailed \/ initServerFailed
  BY <1>3, <1>6 DEF Parts, LaunchOrder, StopOrder, StopDone, LinkMonitor, InitFailed,
     initServerFailed
<1>7. CASE initServerLinker \/ initServerLinkerFailed \/ LinkStarted
  BY <1>3, <1>7
     DEF Parts, LaunchOrder, StopOrder, StopDone, LinkMonitor, initServerLinker,
         initServerLinkerFailed, LinkStarted
<1>8. CASE startSV
  BY <1>3, <1>8
     DEF Parts, LaunchOrder, StopOrder, StopDone, LinkMonitor, startSV, startSVLock, startSVWait,
         startSVWoken
<1>9. CASE SignalArrives \/ SigHandEntry
  BY <1>3, <1>9
     DEF Parts, LaunchOrder, StopOrder, StopDone, LinkMonitor, SignalArrives, SigHandEntry,
         SigHandLock, SigHandSignal, SigHandUnlock
<1>10. CASE freeAllSession
  BY <1>3, <1>10 DEF Parts, LaunchOrder, StopOrder, LinkMonitor, freeAllSession
<1>11. CASE stopServerLinker
  BY <1>3, <1>11 DEF Parts, LaunchOrder, StopOrder, LinkMonitor, stopServerLinker
<1>12. CASE LinkerStopped
  BY <1>3, <1>12 DEF Parts, LaunchOrder, StopOrder, LinkMonitor, LinkerStopped
<1> QED
  BY <1>5, <1>6, <1>7, <1>8, <1>9, <1>10, <1>11, <1>12

\* Service_Exit() stops the timer.
LEMMA exitTimerTriggerKeeps ==
  ASSUME Parts, exitTimerTrigger
  PROVE  Parts'
<1> USE DEF linkVars, exitVars
<1>1. /\ main = "stopping" /\ Timer!Stop
      /\ UNCHANGED <<workerVars, serverVars, linkVars, main, exitVars, freed>>
  BY DEF exitTimerTrigger
<1>2. LoopInv(tStatus, tLoop, tStopper, tLauncher)'
  BY <1>1, NotRunning, TimerLoop DEF Parts
<1>3. /\ LoopInv(wStatus, wLoop, wStopper, wLauncher)'
      /\ LoopInv(sStatus, sLoop, sStopper, sLauncher)'
  BY <1>1, LoopsKept DEF Parts
<1>4. /\ UNCHANGED <<tLauncher, tLoop>> /\ tStopper \notin StopDone /\ tStopper' # "idle"
  BY <1>1, TimerFrame
<1>5. LaunchOrder'
  BY <1>1, <1>4 DEF Parts, LaunchOrder, workerVars, serverVars
<1>6. StopOrder'
  BY <1>1, <1>4 DEF Parts, StopOrder, exitTimerTrigger, workerVars, serverVars
<1>7. LinkMonitor'
  BY <1>1 DEF Parts, LinkMonitor
<1> QED
  BY <1>2, <1>3, <1>5, <1>6, <1>7 DEF Parts

\* It stops the worker when the timer is stopped.
LEMMA exitWorkThreadKeeps ==
  ASSUME Parts, exitWorkThread
  PROVE  Parts'
<1> USE DEF linkVars, exitVars
<1>1. /\ main = "stopping" /\ Worker!Stop
      /\ UNCHANGED <<timerVars, serverVars, linkVars, main, exitVars, freed>>
  BY DEF exitWorkThread
<1>2. LoopInv(wStatus, wLoop, wStopper, wLauncher)'
  BY <1>1, NotRunning, WorkerLoop DEF Parts
<1>3. /\ LoopInv(tStatus, tLoop, tStopper, tLauncher)'
      /\ LoopInv(sStatus, sLoop, sStopper, sLauncher)'
  BY <1>1, LoopsKept DEF Parts
<1>4. /\ UNCHANGED <<wLauncher, wLoop>> /\ wStopper \notin StopDone /\ wStopper' # "idle"
  BY <1>1, WorkerFrame
<1>5. LaunchOrder'
  BY <1>1, <1>4 DEF Parts, LaunchOrder, timerVars, serverVars
<1>6. StopOrder'
  BY <1>1, <1>4 DEF Parts, StopOrder, exitWorkThread, timerVars, serverVars
<1>7. LinkMonitor'
  BY <1>1 DEF Parts, LinkMonitor
<1> QED
  BY <1>2, <1>3, <1>5, <1>6, <1>7 DEF Parts

\* It looks at the server first, and stops it when the sessions are freed.
LEMMA StopServerKeeps ==
  ASSUME Parts, StopServerCheck \/ StopServer
  PROVE  Parts'
<1> USE DEF linkVars, exitVars
<1>1. /\ main = "stopping" /\ Server!Stop
      /\ UNCHANGED <<workerVars, timerVars, linkVars, main, exitVars, freed>>
  BY DEF StopServerCheck, StopServer, Server!Stop
<1>2. LoopInv(sStatus, sLoop, sStopper, sLauncher)'
  BY <1>1, NotRunning, ServerLoop DEF Parts
<1>3. /\ LoopInv(wStatus, wLoop, wStopper, wLauncher)'
      /\ LoopInv(tStatus, tLoop, tStopper, tLauncher)'
  BY <1>1, LoopsKept DEF Parts
<1>4. /\ UNCHANGED <<sLauncher, sLoop>> /\ sStopper \notin StopDone /\ sStopper' # "idle"
  BY <1>1, ServerFrame
<1>5. LaunchOrder'
  BY <1>1, <1>4 DEF Parts, LaunchOrder, workerVars, timerVars
<1>6. StopOrder'
  BY <1>1, <1>4 DEF Parts, StopOrder, StopServerCheck, StopServer, workerVars, timerVars
<1>7. LinkMonitor'
  BY <1>1 DEF Parts, LinkMonitor
<1> QED
  BY <1>2, <1>3, <1>5, <1>6, <1>7 DEF Parts

-----------------------------------------------------------------------------
\* The steps that are neither an error of a socket pair nor the end of a wait
\* without a signal.
LEMMA CalmSteps ==
  ASSUME Next
  PROVE  \/ WorkerPairFails
         \/ WaitStartled
         \/ UNCHANGED <<wErrors, startled>>
<1> USE DEF workerVars
<1>1. WorkerThread \/ TimerThread => UNCHANGED <<wErrors, startled>>
  BY WorkerFrame, TimerFrame DEF WorkerThread, TimerThread
<1>2. Loop => UNCHANGED <<wErrors, startled>>
  <2>1. LaunchWorker \/ LaunchTimer \/ LoopThrows => UNCHANGED <<wErrors, startled>>
    BY WorkerFrame, TimerFrame DEF LaunchWorker, LaunchTimer, LoopThrows
  <2>2. LoopFailed \/ LoopDispatch \/ LoopOther => UNCHANGED <<wErrors, startled>>
    BY ServerFrame DEF LoopFailed, LoopDispatch, LoopOther, Server!Start, Server!StartInit
  <2> QED
    BY <2>1, <2>2 DEF Loop
<1>3. LinkRun \/ LinkStopped \/ SignalArrives \/ SigHandEntry \/ startSV => UNCHANGED <<wErrors, startled>>
  BY DEF LinkRun, LinkStopped, SignalArrives, SigHandEntry, SigHandLock, SigHandSignal,
         SigHandUnlock, startSV, startSVLock, startSVWait, startSVWoken
<1>4. Service_InitProgram => UNCHANGED <<wErrors, startled>>
  BY ServerFrame
     DEF Service_InitProgram, InitFailed, initServer, initServerThrows, initServerFailed,
         initServerLinker, initServerLinkerFailed, LinkStarted
<1>5. Service_Exit => UNCHANGED <<wErrors, startled>>
  <2>1. StopServerCheck \/ StopServer \/ exitTimerTrigger \/ exitWorkThread
          => UNCHANGED <<wErrors, startled>>
    BY WorkerFrame, TimerFrame, ServerFrame
       DEF StopServerCheck, StopServer, exitTimerTrigger, exitWorkThread, Server!Stop
  <2>2. freeAllSession \/ stopServerLinker \/ LinkerStopped => UNCHANGED <<wErrors, startled>>
    BY DEF freeAllSession, stopServerLinker, LinkerStopped
  <2> QED
    BY <2>1, <2>2 DEF Service_Exit
<1> QED
  BY <1>1, <1>2, <1>3, <1>4, <1>5 DEF Next, Main

\* The parts agree after every step that leaves the service quiet.
LEMMA NextParts ==
  ASSUME Parts, Next, ~WorkerPairFails, ~WaitStartled
  PROVE  Parts'
<1>1. CASE WorkerThread \/ TimerThread
  BY <1>1, ThreadsKeep
<1>2. CASE Loop
  BY <1>2, LaunchKeeps, ServerKeeps, LoopThrowsKeeps DEF Loop
<1>3. CASE Service_InitProgram
  BY <1>3, initServerKeeps, OthersKeep DEF Service_InitProgram
<1>4. CASE Service_Exit
  BY <1>4, exitTimerTriggerKeeps, exitWorkThreadKeeps, StopServerKeeps,
     OthersKeep DEF Service_Exit
<1>5. CASE LinkRun \/ LinkStopped \/ startSV \/ SignalArrives \/ SigHandEntry
  BY <1>5, OthersKeep
<1> QED
  BY <1>1, <1>2, <1>3, <1>4, <1>5 DEF Next, Main

\* The inductive invariant holds at the start.
LEMMA InitServiceInv == Init => ServiceInv
<1> SUFFICES ASSUME Init PROVE ServiceInv
  OBVIOUS
<1> USE DEF Init, Worker!Init, Timer!Init, Server!Init
<1>1. /\ LoopInv(wStatus, wLoop, wStopper, wLauncher)
      /\ LoopInv(tStatus, tLoop, tStopper, tLauncher)
      /\ LoopInv(sStatus, sLoop, sStopper, sLauncher)
  BY DEF LoopInv, StatusOfLoop, LauncherSaw, StopperSaw
<1>2. LaunchOrder /\ StopOrder /\ LinkMonitor
  BY DEF LaunchOrder, StopOrder, LinkMonitor
<1> QED
  BY <1>1, <1>2 DEF ServiceInv, Parts

\* It is kept by every step.
LEMMA NextServiceInv == ServiceInv /\ [Next]_vars => ServiceInv'
<1> SUFFICES ASSUME ServiceInv, [Next]_vars PROVE ServiceInv'
  OBVIOUS
<1>1. CASE WorkerPairFails
  <2>1. wErrors \in Nat /\ wErrors' = wErrors + 1
    BY <1>1 DEF ServiceInv, WorkerPairFails, Worker!eventCB
  <2>2. wErrors' \in Nat /\ wErrors' # 0
    BY <2>1
  <2> QED
    BY <2>2 DEF ServiceInv, Quiet
<1>2. CASE WaitStartled
  <2>1. startled' = TRUE /\ wErrors' = wErrors
    BY <1>2 DEF WaitStartled, Worker!StopSpuriousWake, Timer!StopSpuriousWake,
           Server!StopSpuriousWake, workerVars
  <2> QED
    BY <2>1 DEF ServiceInv, Quiet
<1>3. CASE Next /\ ~WorkerPairFails /\ ~WaitStartled
  <2>1. UNCHANGED <<wErrors, startled>>
    BY <1>3, CalmSteps
  <2>2. Quiet' = Quiet
    BY <2>1 DEF Quiet
  <2>3. Parts => Parts'
    BY <1>3, NextParts
  <2> QED
    BY <2>1, <2>2, <2>3 DEF ServiceInv
<1>4. CASE UNCHANGED vars
  <2>1. UNCHANGED <<workerVars, timerVars, serverVars, linkVars, main, exitVars, freed, startled>>
    BY <1>4 DEF vars
  <2>2. Quiet' = Quiet /\ wErrors' = wErrors
    BY <2>1 DEF Quiet, workerVars
  <2>3. /\ LoopInv(wStatus, wLoop, wStopper, wLauncher)' = LoopInv(wStatus, wLoop, wStopper, wLauncher)
        /\ LoopInv(tStatus, tLoop, tStopper, tLauncher)' = LoopInv(tStatus, tLoop, tStopper, tLauncher)
        /\ LoopInv(sStatus, sLoop, sStopper, sLauncher)' = LoopInv(sStatus, sLoop, sStopper, sLauncher)
    BY <2>1, LoopsKept
  <2>4. LaunchOrder' = LaunchOrder /\ StopOrder' = StopOrder /\ LinkMonitor' = LinkMonitor
    BY <2>1 DEF LaunchOrder, StopOrder, LinkMonitor, workerVars, timerVars, serverVars,
       linkVars
  <2> QED
    BY <2>2, <2>3, <2>4 DEF ServiceInv, Parts
<1> QED
  BY <1>1, <1>2, <1>3, <1>4

\* The inductive invariant holds in every state.
LEMMA AlwaysServiceInv == Spec => []ServiceInv
BY InitServiceInv, NextServiceInv, PTL DEF Spec

\* For any number of signals, with the timer or without, and wherever start-up or
\* shut-down is: the sessions are freed only when the worker's thread is out of
\* its event loop, as long as no socket pair of the worker failed and no wait
\* ended without a signal (exitWorkThread).
THEOREM SessionsFreedSafely == Spec => []FreedAfterWorker
<1>1. ServiceInv => FreedAfterWorker
  BY DEF ServiceInv, Quiet, Parts, LoopInv, StopperSaw, StopOrder, StopDone,
         FreedAfterWorker, Alive
<1> QED
  BY <1>1, AlwaysServiceInv, PTL

\* Under the same conditions Service_Exit() leaves no thread of the service in an
\* event loop or on its way to one, and the link monitor has ended.
THEOREM ExitIsComplete == Spec => []ExitLeavesNoThread
<1>1. ServiceInv => ExitLeavesNoThread
  BY DEF ServiceInv, Quiet, Parts, LoopInv, StopperSaw, StopOrder, StopDone, LinkMonitor,
         ExitLeavesNoThread, Alive
<1> QED
  BY <1>1, AlwaysServiceInv, PTL

-----------------------------------------------------------------------------
(***************************************************************************)
(* One loop.  Its socket-pair errors and the wait that ends without a      *)
(* signal are MaxPairErrors and startled, as in the worker's instance; the *)
(* shut-down script may refuse.                                            *)
(***************************************************************************)

CONSTANT OnStopConfirms

VARIABLES status, runOnStop, loop, stopper, launcher, mutex, pairErrors

L == INSTANCE EventLoop

-----------------------------------------------------------------------------
(* Type correctness.                                                       *)

\* Every variable of the loop protocol stays in its range.
THEOREM LoopTypeCorrect == L!Spec => []L!TypeOK
<1>1. L!Init => L!TypeOK
  <2> SUFFICES ASSUME L!Init PROVE L!TypeOK
    OBVIOUS
  <2>1. pairErrors \in 0..MaxPairErrors
    BY MaxPairErrorsAssumption DEF L!Init
  <2>2. QED
    BY Zenon, <2>1 DEF L!Init, L!TypeOK, L!RunStatus, L!LoopPC, L!StopperPC, L!LauncherPC
<1>2. L!TypeOK /\ [L!Next]_(L!vars) => L!TypeOK'
  <2> SUFFICES ASSUME L!TypeOK, [L!Next]_(L!vars)
               PROVE  L!TypeOK'
    OBVIOUS
  <2> USE DEF L!TypeOK, L!RunStatus, L!LoopPC, L!StopperPC, L!LauncherPC
  <2>1. CASE L!Launch \/ L!ExecuteThrows
    BY <2>1 DEF L!Launch, L!Execute, L!waitForStarted, L!ExecuteThrows
  <2>2. CASE L!StartInit
    BY <2>2 DEF L!StartInit, L!StartBegin, L!StartFailed, L!StartDispatch
  <2>3. CASE L!exitMonitorCB
    BY Zenon, <2>3 DEF L!exitMonitorCB, L!exitMonitorStopping, L!exitMonitorStopped
  <2>4. CASE L!StartEnd
    BY <2>4 DEF L!StartEnd, L!StartLeft, L!StartLock, L!StartSignal, L!StartUnlock
  <2>5. CASE L!eventCB
    BY <2>5, MaxPairErrorsAssumption DEF L!eventCB
  <2>6. CASE L!Stop
    BY <2>6 DEF L!Stop, L!StopCheck, L!StopLock, L!StopSet, L!StopWait, L!StopRelock,
                L!StopUnlock
  <2>7. CASE L!StopSpuriousWake
    BY <2>7 DEF L!StopSpuriousWake
  <2>8. CASE UNCHANGED L!vars
    BY <2>8 DEF L!vars
  <2>9. QED
    BY <2>1, <2>2, <2>3, <2>4, <2>5, <2>6, <2>7, <2>8 DEF L!Next, L!Start
<1>3. QED
  BY <1>1, <1>2, PTL DEF L!Spec

-----------------------------------------------------------------------------
(***************************************************************************)
(* Stop() and the end of the loop.  A stopper that a signal has woken was  *)
(* woken by the loop thread after it left dispatch, and a loop thread that *)
(* ended is not started again.                                             *)
(***************************************************************************)
LaunchedOnce == launcher = "idle" => loop = "none"

WokenByEnd ==
    ~startled /\ stopper \in {"woken", "unlock", "returned"}
        => loop \in {"unlock", "ended"}

WaitInv == LaunchedOnce /\ WokenByEnd

\* Unless it is woken without a signal, Stop() comes back from its wait only
\* when the loop thread has left event_base_dispatch.
THEOREM WaitedStop == L!Spec => []L!WaitedStopMeansLoopLeft
<1>1. L!Init => WaitInv
  BY DEF L!Init, WaitInv, LaunchedOnce, WokenByEnd
<1>2. WaitInv /\ [L!Next]_(L!vars) => WaitInv'
  <2> SUFFICES ASSUME WaitInv, [L!Next]_(L!vars)
               PROVE  WaitInv'
    OBVIOUS
  <2> USE DEF WaitInv, LaunchedOnce, WokenByEnd
  <2>1. CASE L!Launch \/ L!ExecuteThrows
    BY <2>1 DEF L!Launch, L!Execute, L!waitForStarted, L!ExecuteThrows
  <2>2. CASE L!StartInit
    BY <2>2 DEF L!StartInit, L!StartBegin, L!StartFailed, L!StartDispatch
  <2>3. CASE L!exitMonitorCB
    BY <2>3 DEF L!exitMonitorCB, L!exitMonitorStopping, L!exitMonitorStopped
  <2>4. CASE L!StartEnd
    BY <2>4 DEF L!StartEnd, L!StartLeft, L!StartLock, L!StartSignal, L!StartUnlock
  <2>5. CASE L!eventCB
    BY <2>5 DEF L!eventCB
  <2>6. CASE L!Stop
    BY <2>6 DEF L!Stop, L!StopCheck, L!StopLock, L!StopSet, L!StopWait, L!StopRelock,
                L!StopUnlock
  <2>7. CASE L!StopSpuriousWake
    BY <2>7 DEF L!StopSpuriousWake
  <2>8. CASE UNCHANGED L!vars
    BY <2>8 DEF L!vars
  <2>9. QED
    BY <2>1, <2>2, <2>3, <2>4, <2>5, <2>6, <2>7, <2>8 DEF L!Next, L!Start
<1>3. WaitInv => L!WaitedStopMeansLoopLeft
  BY DEF WaitInv, WokenByEnd, L!WaitedStopMeansLoopLeft, L!LoopAlive
<1>4. QED
  BY <1>1, <1>2, <1>3, PTL DEF L!Spec

-----------------------------------------------------------------------------
(***************************************************************************)
(* onStop() and the end of the loop.  STOPPED is written by onStop() and,  *)
(* after the loop was left because of STOPPED, by Start().                 *)
(***************************************************************************)
OnStopInv == L!LeavesAfterOnStop /\ (status = "STOPPED" => runOnStop)

\* The loop is never left before onStop() has run, however it is stopped.
THEOREM OnStopFirst == L!Spec => []L!LeavesAfterOnStop
<1>1. L!Init => OnStopInv
  BY DEF L!Init, OnStopInv, L!LeavesAfterOnStop
<1>2. OnStopInv /\ [L!Next]_(L!vars) => OnStopInv'
  <2> SUFFICES ASSUME OnStopInv, [L!Next]_(L!vars)
               PROVE  OnStopInv'
    OBVIOUS
  <2> USE DEF OnStopInv, L!LeavesAfterOnStop
  <2>1. CASE L!Launch \/ L!ExecuteThrows
    BY <2>1 DEF L!Launch, L!Execute, L!waitForStarted, L!ExecuteThrows
  <2>2. CASE L!StartInit
    BY <2>2 DEF L!StartInit, L!StartBegin, L!StartFailed, L!StartDispatch
  <2>3. CASE L!exitMonitorCB
    BY <2>3 DEF L!exitMonitorCB, L!exitMonitorStopping, L!exitMonitorStopped
  <2>4. CASE L!StartEnd
    BY <2>4 DEF L!StartEnd, L!StartLeft, L!StartLock, L!StartSignal, L!StartUnlock
  <2>5. CASE L!eventCB
    BY <2>5 DEF L!eventCB
  <2>6. CASE L!Stop
    BY <2>6 DEF L!Stop, L!StopCheck, L!StopLock, L!StopSet, L!StopWait, L!StopRelock,
                L!StopUnlock
  <2>7. CASE L!StopSpuriousWake
    BY <2>7 DEF L!StopSpuriousWake
  <2>8. CASE UNCHANGED L!vars
    BY <2>8 DEF L!vars
  <2>9. QED
    BY <2>1, <2>2, <2>3, <2>4, <2>5, <2>6, <2>7, <2>8 DEF L!Next, L!Start
<1>3. OnStopInv => L!LeavesAfterOnStop
  BY DEF OnStopInv
<1>4. QED
  BY <1>1, <1>2, <1>3, PTL DEF L!Spec

-----------------------------------------------------------------------------
(***************************************************************************)
(* The direction of the status word.  As long as no socket pair failed,    *)
(* the status says where the loop thread is, and a stopper that has found  *)
(* the loop running can rely on it until it has written STOPPING.          *)
(***************************************************************************)
StatusSaysWhere ==
    /\ loop \in {"none", "spawned"} => status = "UNKNOWN"
    /\ loop = "init" => status = "STARTING"
    /\ loop = "failed" => status = "ERROR"
    /\ loop = "dispatch" => status \in {"RUNING", "STOPPING", "STOPPED"}
    /\ loop \in {"broken", "lock", "signal", "unlock", "ended"}
          => status = "STOPPED"

StopperFoundRunning ==
    stopper \in {"lock", "set"} => status = "RUNING"

StatusInv ==
    /\ L!TypeOK
    /\ LaunchedOnce
    /\ pairErrors = 0 => StatusSaysWhere /\ StopperFoundRunning

\* The status word and the loop thread agree as long as no socket pair fails.
LEMMA StatusInvariant == L!Spec => []StatusInv
<1>1. L!Init => LaunchedOnce /\ StatusSaysWhere /\ StopperFoundRunning
  BY DEF L!Init, LaunchedOnce, StatusSaysWhere, StopperFoundRunning
<1>2. L!TypeOK /\ StatusInv /\ [L!Next]_(L!vars) /\ L!TypeOK' => StatusInv'
  <2> SUFFICES ASSUME L!TypeOK, StatusInv, [L!Next]_(L!vars), L!TypeOK'
               PROVE  StatusInv'
    OBVIOUS
  <2> USE DEF StatusInv, L!TypeOK, L!LoopPC, LaunchedOnce, StatusSaysWhere,
              StopperFoundRunning
  <2>1. CASE L!Launch \/ L!ExecuteThrows
    BY <2>1 DEF L!Launch, L!Execute, L!waitForStarted, L!ExecuteThrows
  <2>2. CASE L!StartInit
    BY <2>2 DEF L!StartInit, L!StartBegin, L!StartFailed, L!StartDispatch
  <2>3. CASE L!exitMonitorCB
    BY <2>3 DEF L!exitMonitorCB, L!exitMonitorStopping, L!exitMonitorStopped
  <2>4. CASE L!StartEnd
    BY <2>4 DEF L!StartEnd, L!StartLeft, L!StartLock, L!StartSignal, L!StartUnlock
  <2>5. CASE L!eventCB
    BY <2>5, MaxPairErrorsAssumption DEF L!eventCB
  <2>6. CASE L!Stop
    BY <2>6 DEF L!Stop, L!StopCheck, L!getIsRun, L!StopLock, L!StopSet, L!StopWait,
                L!StopRelock, L!StopUnlock
  <2>7. CASE L!StopSpuriousWake
    BY <2>7 DEF L!StopSpuriousWake
  <2>8. CASE UNCHANGED L!vars
    BY SMTT(30), <2>8 DEF L!vars
  <2>9. QED
    BY Zenon, <2>1, <2>2, <2>3, <2>4, <2>5, <2>6, <2>7, <2>8 DEF L!Next, L!Start
<1>3. QED
  BY <1>1, <1>2, LoopTypeCorrect, PTL DEF L!Spec, StatusInv

\* The order of the status words, as numbers.
LEMMA Ranks ==
  /\ L!StatusRank["UNKNOWN"] = 0 /\ L!StatusRank["STARTING"] = 1
  /\ L!StatusRank["ERROR"] = 2 /\ L!StatusRank["RUNING"] = 2
  /\ L!StatusRank["STOPPING"] = 3 /\ L!StatusRank["STOPPED"] = 4
BY DEF L!StatusRank

\* Only a step that writes the status word changes it, and only a failing socket
\* pair is counted.
LEMMA StatusWrites ==
  ASSUME [L!Next]_(L!vars), ~L!eventCB
  PROVE  /\ pairErrors' = pairErrors
         /\ \/ status' = status
            \/ L!StartBegin \/ L!StartFailed \/ L!StartDispatch
            \/ L!exitMonitorStopping \/ L!StartLeft \/ L!StopSet
<1>1. CASE L!Launch \/ L!ExecuteThrows
  BY <1>1 DEF L!Launch, L!Execute, L!waitForStarted, L!ExecuteThrows
<1>2. CASE L!StartInit
  BY <1>2 DEF L!StartInit, L!StartBegin, L!StartFailed, L!StartDispatch
<1>3. CASE L!exitMonitorCB
  BY <1>3 DEF L!exitMonitorCB, L!exitMonitorStopping, L!exitMonitorStopped
<1>4. CASE L!StartEnd
  BY <1>4 DEF L!StartEnd, L!StartLeft, L!StartLock, L!StartSignal, L!StartUnlock
<1>5. CASE L!Stop
  BY <1>5 DEF L!Stop, L!StopCheck, L!StopLock, L!StopSet, L!StopWait, L!StopRelock,
              L!StopUnlock
<1>6. CASE L!StopSpuriousWake
  BY <1>6 DEF L!StopSpuriousWake
<1>7. CASE UNCHANGED L!vars
  BY <1>7 DEF L!vars
<1> QED
  BY <1>1, <1>2, <1>3, <1>4, <1>5, <1>6, <1>7, Zenon DEF L!Next, L!Start

\* As long as no socket pair fails, no thread ever moves the status word back.
THEOREM StatusForward == L!Spec => L!StatusAdvances
<1>1. StatusInv /\ [L!Next]_(L!vars)
        => [pairErrors' = 0 => L!StatusRank[status'] >= L!StatusRank[status]]_(L!vars)
  <2> SUFFICES ASSUME StatusInv, [L!Next]_(L!vars), pairErrors' = 0
               PROVE  L!StatusRank[status'] >= L!StatusRank[status]
    BY Zenon
  <2>1. ~L!eventCB
    BY MaxPairErrorsAssumption DEF StatusInv, L!TypeOK, L!eventCB
  <2>2. pairErrors = 0
    BY <2>1, StatusWrites
  <2>3. /\ status \in {"UNKNOWN", "STARTING", "ERROR", "RUNING", "STOPPING", "STOPPED"}
        /\ StatusSaysWhere /\ StopperFoundRunning
    BY <2>2 DEF StatusInv, L!TypeOK, L!RunStatus
  <2>4. CASE status' = status
    BY <2>3, <2>4, Ranks
  <2>5. CASE L!StartBegin
    <3>1. status = "UNKNOWN" /\ status' = "STARTING"
      BY <2>3, <2>5 DEF StatusSaysWhere, L!StartBegin
    <3> QED
      BY <3>1, Ranks
  <2>6. CASE L!StartFailed \/ L!StartDispatch
    <3>1. status = "STARTING" /\ status' \in {"ERROR", "RUNING"}
      BY <2>3, <2>6 DEF StatusSaysWhere, L!StartFailed, L!StartDispatch
    <3> QED
      BY <3>1, Ranks
  <2>7. CASE L!exitMonitorStopping
    <3>1. status = "STOPPING" /\ status' \in {"STOPPING", "STOPPED"}
      BY <2>7 DEF L!exitMonitorStopping
    <3> QED
      BY <3>1, Ranks
  <2>8. CASE L!StartLeft
    <3>1. status' = "STOPPED"
      BY <2>8 DEF L!StartLeft
    <3> QED
      BY <2>3, <3>1, Ranks
  <2>9. CASE L!StopSet
    <3>1. status = "RUNING" /\ status' = "STOPPING"
      BY <2>3, <2>9 DEF StopperFoundRunning, L!StopSet
    <3> QED
      BY <3>1, Ranks
  <2>10. QED
    BY <2>1, <2>4, <2>5, <2>6, <2>7, <2>8, <2>9, StatusWrites
<1>2. QED
  BY <1>1, StatusInvariant, PTL DEF L!Spec, L!StatusAdvances
=============================================================================
