------------------------------ MODULE ThreadPool ------------------------------
(***************************************************************************)
(* CThreadPool: workers that take tasks from three queues, one per task    *)
(* level, and the thread that owns the pool, appends tasks and destroys    *)
(* the pool.  A running task may append tasks as well.                     *)
(*                                                                         *)
(* Every wait on a condition variable of the pool ends after one second    *)
(* at the latest, whether it is signalled or not, so a wait is a step that *)
(* is always possible and a signal is none.  The mutexes are held for one  *)
(* step each, but for objMutex_Main: Init leaves it locked when a thread   *)
(* cannot be created.                                                      *)
(***************************************************************************)
EXTENDS Naturals, Sequences, FiniteSets

CONSTANTS
    Workers,        \* the threads of the pool, uiThreadNum of them
    Tasks,          \* the tasks that are ever appended
    NoTask,         \* none of them
    Faults          \* what may fail: "create", "memory", "throw"

ASSUME WorkersAssumption == IsFiniteSet(Workers) /\ Workers # {}
ASSUME NoTaskAssumption == NoTask \notin Tasks
ASSUME FaultsAssumption == Faults \subseteq {"create", "memory", "throw"}

VARIABLES
    queue,          \* quHigh, quNormal and quLow
    owner,          \* where the owner is in Init, its own code or Destroy
    worker,         \* where each worker is in Run
    level,          \* the queue that a worker looks at in getTask
    task,           \* the task that a worker runs
    lIndex,         \* workers that have counted themselves
    stopped,        \* lStop is STOP
    mainLocked,     \* objMutex_Main was left locked
    appended,       \* tasks appended so far
    done            \* tasks whose Run has returned

vars == <<queue, owner, worker, level, task, lIndex, stopped, mainLocked,
          appended, done>>

TaskLevel == 1..3

OwnerPC == {"execute", "wait", "running", "drain", "stop", "join", "blocked",
            "deleted"}

\* "dead": a task threw; "crashed": the worker used the deleted pool.
WorkerPC == {"none", "spawned", "counted", "test", "wait", "get", "run",
             "left", "ended", "dead", "crashed"}

Init ==
    /\ queue = [l \in TaskLevel |-> << >>]
    /\ owner = "execute"
    /\ worker = [w \in Workers |-> "none"]
    /\ level = [w \in Workers |-> 1]
    /\ task = [w \in Workers |-> NoTask]
    /\ lIndex = 0
    /\ stopped = FALSE
    /\ mainLocked = FALSE
    /\ appended = {}
    /\ done = {}

-----------------------------------------------------------------------------
(* The owner.                                                              *)

\* Init starts a worker ...
Execute(w) ==
    /\ owner = "execute"
    /\ worker[w] = "none"
    /\ worker' = [worker EXCEPT ![w] = "spawned"]
    /\ owner' = "wait"
    /\ UNCHANGED <<queue, level, task, lIndex, stopped, mainLocked, appended,
                   done>>

\* ... and waits for its signal or a second, not for its count.
InitWaited ==
    /\ owner = "wait"
    /\ owner' = IF \A w \in Workers : worker[w] # "none"
                THEN "running" ELSE "execute"
    /\ UNCHANGED <<queue, worker, level, task, lIndex, stopped, mainLocked,
                   appended, done>>

\* A thread cannot be created: the exception is caught behind the unLock, and
\* the constructor calls Destroy.
ExecuteThrows ==
    /\ "create" \in Faults
    /\ owner = "execute"
    /\ owner' = "drain"
    /\ mainLocked' = TRUE
    /\ UNCHANGED <<queue, worker, level, task, lIndex, stopped, appended, done>>

\* The task of a worker cannot be allocated.
InitNoMemory ==
    /\ "memory" \in Faults
    /\ owner = "execute"
    /\ owner' = "drain"
    /\ UNCHANGED <<queue, worker, level, task, lIndex, stopped, mainLocked,
                   appended, done>>

\* Append(), called by the owner or by a task that a worker runs.
AppendTask(t, l) ==
    /\ \/ owner = "running"
       \/ owner # "deleted" /\ \E w \in Workers : worker[w] = "run"
    /\ t \notin appended
    /\ appended' = appended \cup {t}
    /\ queue' = [queue EXCEPT ![l] = Append(@, t)]
    /\ UNCHANGED <<owner, worker, level, task, lIndex, stopped, mainLocked, done>>

Destroy ==
    /\ owner = "running"
    /\ owner' = "drain"
    /\ UNCHANGED <<queue, worker, level, task, lIndex, stopped, mainLocked,
                   appended, done>>

\* getTaskNumber() returns zero.
DestroyDrained ==
    /\ owner = "drain"
    /\ \A l \in TaskLevel : queue[l] = << >>
    /\ owner' = "stop"
    /\ UNCHANGED <<queue, worker, level, task, lIndex, stopped, mainLocked,
                   appended, done>>

DestroyStop ==
    /\ owner = "stop"
    /\ owner' = "join"
    /\ stopped' = TRUE
    /\ UNCHANGED <<queue, worker, level, task, lIndex, mainLocked, appended, done>>

\* The wait for the workers locks objMutex_Main, which the owner itself holds.
DestroyBlocked ==
    /\ owner = "join"
    /\ lIndex > 0
    /\ mainLocked
    /\ owner' = "blocked"
    /\ UNCHANGED <<queue, worker, level, task, lIndex, stopped, mainLocked,
                   appended, done>>

\* No worker is counted any more: the pool is deleted.
DestroyDelete ==
    /\ owner = "join"
    /\ lIndex = 0
    /\ owner' = "deleted"
    /\ UNCHANGED <<queue, worker, level, task, lIndex, stopped, mainLocked,
                   appended, done>>

-----------------------------------------------------------------------------
(* A worker.                                                               *)

RunBegin(w) ==
    /\ owner # "deleted"
    /\ worker[w] = "spawned"
    /\ worker' = [worker EXCEPT ![w] = "counted"]
    /\ lIndex' = lIndex + 1
    /\ UNCHANGED <<queue, owner, level, task, stopped, mainLocked, appended, done>>

\* Lock, Signal and unLock on objMutex_Main.
SignalStarted(w) ==
    /\ owner # "deleted"
    /\ worker[w] = "counted"
    /\ ~mainLocked
    /\ worker' = [worker EXCEPT ![w] = "test"]
    /\ UNCHANGED <<queue, owner, level, task, lIndex, stopped, mainLocked,
                   appended, done>>

\* Mutation: lStop is not looked at.
TestRun_Always(w) ==
    /\ owner # "deleted"
    /\ worker[w] = "test"
    /\ worker' = [worker EXCEPT ![w] = "wait"]
    /\ UNCHANGED <<queue, owner, level, task, lIndex, stopped, mainLocked,
                   appended, done>>

TestRun(w) ==
    /\ owner # "deleted"
    /\ worker[w] = "test"
    /\ ~stopped
    /\ worker' = [worker EXCEPT ![w] = "wait"]
    /\ UNCHANGED <<queue, owner, level, task, lIndex, stopped, mainLocked,
                   appended, done>>

Waited(w) ==
    /\ owner # "deleted"
    /\ worker[w] = "wait"
    /\ worker' = [worker EXCEPT ![w] = "get"]
    /\ level' = [level EXCEPT ![w] = 1]
    /\ UNCHANGED <<queue, owner, task, lIndex, stopped, mainLocked, appended, done>>

\* Mutation: the task stays in its queue.
getTask_NoPop(w) ==
    /\ owner # "deleted"
    /\ worker[w] = "get"
    /\ queue[level[w]] # << >>
    /\ task' = [task EXCEPT ![w] = Head(queue[level[w]])]
    /\ worker' = [worker EXCEPT ![w] = "run"]
    /\ UNCHANGED <<queue, owner, level, lIndex, stopped, mainLocked, appended,
                   done>>

\* getTaskFromQueue finds a task ...
getTask(w) ==
    /\ owner # "deleted"
    /\ worker[w] = "get"
    /\ queue[level[w]] # << >>
    /\ task' = [task EXCEPT ![w] = Head(queue[level[w]])]
    /\ queue' = [queue EXCEPT ![level[w]] = Tail(@)]
    /\ worker' = [worker EXCEPT ![w] = "run"]
    /\ UNCHANGED <<owner, level, lIndex, stopped, mainLocked, appended, done>>

\* ... or none: the next queue, locked anew, is looked at.
getTaskNext(w) ==
    /\ owner # "deleted"
    /\ worker[w] = "get"
    /\ queue[level[w]] = << >>
    /\ level[w] < 3
    /\ level' = [level EXCEPT ![w] = @ + 1]
    /\ UNCHANGED <<queue, owner, worker, task, lIndex, stopped, mainLocked,
                   appended, done>>

getTaskNone(w) ==
    /\ owner # "deleted"
    /\ worker[w] = "get"
    /\ queue[level[w]] = << >>
    /\ level[w] = 3
    /\ worker' = [worker EXCEPT ![w] = "test"]
    /\ UNCHANGED <<queue, owner, level, task, lIndex, stopped, mainLocked,
                   appended, done>>

\* Mutation: a worker takes one task per turn of its loop.
RunReturns_OnePerTurn(w) ==
    /\ owner # "deleted"
    /\ worker[w] = "run"
    /\ worker' = [worker EXCEPT ![w] = "test"]
    /\ task' = [task EXCEPT ![w] = NoTask]
    /\ done' = done \cup {task[w]}
    /\ UNCHANGED <<queue, owner, level, lIndex, stopped, mainLocked, appended>>

\* The task returns, and the worker asks for the next one.
RunReturns(w) ==
    /\ owner # "deleted"
    /\ worker[w] = "run"
    /\ worker' = [worker EXCEPT ![w] = "get"]
    /\ level' = [level EXCEPT ![w] = 1]
    /\ task' = [task EXCEPT ![w] = NoTask]
    /\ done' = done \cup {task[w]}
    /\ UNCHANGED <<queue, owner, lIndex, stopped, mainLocked, appended>>

\* The task throws: the thread ends, and nobody takes its count back.
RunThrows(w) ==
    /\ "throw" \in Faults
    /\ worker[w] = "run"
    /\ worker' = [worker EXCEPT ![w] = "dead"]
    /\ UNCHANGED <<queue, owner, level, task, lIndex, stopped, mainLocked,
                   appended, done>>

RunLeft(w) ==
    /\ owner # "deleted"
    /\ worker[w] = "test"
    /\ stopped
    /\ worker' = [worker EXCEPT ![w] = "left"]
    /\ lIndex' = lIndex - 1
    /\ UNCHANGED <<queue, owner, level, task, stopped, mainLocked, appended, done>>

SignalLeft(w) ==
    /\ owner # "deleted"
    /\ worker[w] = "left"
    /\ ~mainLocked
    /\ worker' = [worker EXCEPT ![w] = "ended"]
    /\ UNCHANGED <<queue, owner, level, task, lIndex, stopped, mainLocked,
                   appended, done>>

\* The worker's next step is on a pool that is no more: undefined.
UsesDeleted(w) ==
    /\ owner = "deleted"
    /\ worker[w] \in {"spawned", "left"}
    /\ worker' = [worker EXCEPT ![w] = "crashed"]
    /\ UNCHANGED <<queue, owner, level, task, lIndex, stopped, mainLocked,
                   appended, done>>

Run(w) ==
    \/ RunBegin(w) \/ SignalStarted(w) \/ TestRun(w) \/ Waited(w)
    \/ getTask(w) \/ getTaskNext(w) \/ getTaskNone(w) \/ RunReturns(w)
    \/ RunLeft(w) \/ SignalLeft(w)

InitSteps == InitWaited \/ \E w \in Workers : Execute(w)

DestroySteps == DestroyDrained \/ DestroyStop \/ DestroyBlocked \/ DestroyDelete

Next ==
    \/ InitSteps \/ ExecuteThrows \/ InitNoMemory
    \/ \E t \in Tasks, l \in TaskLevel : AppendTask(t, l)
    \/ Destroy \/ DestroySteps
    \/ \E w \in Workers : Run(w) \/ RunThrows(w) \/ UsesDeleted(w)

Spec == Init /\ [][Next]_vars

\* A thread that can go on does; the tasks end.
Fairness ==
    /\ WF_vars(InitSteps) /\ WF_vars(DestroySteps)
    /\ \A w \in Workers : WF_vars(Run(w))

FairSpec == Spec /\ Fairness

-----------------------------------------------------------------------------
(* Properties.                                                             *)

TypeOK ==
    /\ queue \in [TaskLevel -> Seq(Tasks)]
    /\ owner \in OwnerPC
    /\ worker \in [Workers -> WorkerPC]
    /\ level \in [Workers -> TaskLevel]
    /\ task \in [Workers -> Tasks \cup {NoTask}]
    /\ lIndex \in Nat
    /\ stopped \in BOOLEAN
    /\ mainLocked \in BOOLEAN
    /\ appended \subseteq Tasks
    /\ done \subseteq Tasks

\* The workers that have counted themselves and not taken it back.
Counted ==
    {w \in Workers :
        worker[w] \in {"counted", "test", "wait", "get", "run", "dead"}}

\* When Destroy deletes the pool no worker is inside its loop, every queue is
\* empty and no task is running: also a task that another task appended after
\* Destroy had found the queues empty has been run.
NoTaskLost ==
    owner = "deleted" =>
        /\ Counted = {}
        /\ \A l \in TaskLevel : queue[l] = << >>
        /\ \A w \in Workers : task[w] = NoTask

\* Where a task is: its positions in the queues, the workers that run it, done.
Places(t) ==
    (UNION {{<<l, i>> : i \in {j \in DOMAIN queue[l] : queue[l][j] = t}} :
                l \in TaskLevel})
    \cup {<<w, 0>> : w \in {v \in Workers : task[v] = t}}
    \cup {<<0, 0>> : u \in done \cap {t}}

\* A task that was appended waits in one queue, is run by one worker or is done:
\* getTaskFromQueue hands it out once, and it is never dropped.
ExactlyOnce == \A t \in appended : Cardinality(Places(t)) = 1

\* Destroy returns when the tasks do, unless a worker died of an exception (it
\* waits for that worker for ever) or Init left objMutex_Main locked.
DestroyEnds ==
    owner = "drain" ~> \/ owner = "deleted"
                       \/ mainLocked
                       \/ \E w \in Workers : worker[w] = "dead"

\* Destroy has waited for all threads to exit when it deletes the pool.
ThreadsExited ==
    owner = "deleted" => \A w \in Workers : worker[w] \in {"none", "ended"}
=============================================================================
