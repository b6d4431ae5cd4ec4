--------------------------- MODULE ThreadPoolProofs ---------------------------
(***************************************************************************)
(* Proofs about the thread pool, for any number of workers and tasks.      *)
(***************************************************************************)
EXTENDS ThreadPool, FiniteSetTheorems, TLAPS

\* A worker looks at queue l again before it leaves its loop.
WillLook(w, l) ==
    \/ worker[w] \in {"run", "dead"}
    \/ worker[w] = "get" /\ level[w] <= l

\* Destroy has found the queues empty.
Drained == owner \in {"stop", "join", "blocked", "deleted"}

\* From then on a task that waits in a queue has a worker that will look there.
QueueWatched ==
    Drained => \A l \in TaskLevel :
                   queue[l] # << >> => \E w \in Workers : WillLook(w, l)

\* A worker has a task while it runs it, and when it died of it.
TaskHeld ==
    \A w \in Workers : task[w] # NoTask <=> worker[w] \in {"run", "dead"}

IndexCounts == lIndex = Cardinality(Counted)

\* The inductive invariant.
IInv == TypeOK /\ QueueWatched /\ TaskHeld /\ IndexCounts /\ NoTaskLost

\* The workers are finitely many, and so are those that are counted.
LEMMA CountedFinite == IsFiniteSet(Counted)
<1>1. Counted \subseteq Workers
  BY DEF Counted
<1> QED
  BY <1>1, WorkersAssumption, FS_Subset

\* A worker that counts itself makes one more, and one that takes it back one
\* less; every other step keeps the set of counted workers.
LEMMA CountedAdd ==
  ASSUME TypeOK, NEW w \in Workers, RunBegin(w)
  PROVE  Cardinality(Counted') = Cardinality(Counted) + 1
<1>1. Counted' = Counted \cup {w} /\ w \notin Counted
  BY DEF TypeOK, RunBegin, Counted
<1> QED
  BY Zenon, <1>1, CountedFinite, FS_AddElement

LEMMA CountedSub ==
  ASSUME TypeOK, NEW w \in Workers, RunLeft(w)
  PROVE  Cardinality(Counted') = Cardinality(Counted) - 1
<1>1. Counted' = Counted \ {w} /\ w \in Counted
  BY DEF TypeOK, RunLeft, Counted
<1> QED
  BY <1>1, CountedFinite, FS_RemoveElement

\* An empty set of counted workers is what lIndex = 0 says.
LEMMA NoneCounted ==
  ASSUME IndexCounts, lIndex = 0
  PROVE  Counted = {}
  BY Zenon, CountedFinite, FS_EmptySet DEF IndexCounts

\* Every step keeps the types; lIndex is not taken below zero because the
\* worker that does so is counted.
LEMMA TypeStep ==
  ASSUME TypeOK, TaskHeld, IndexCounts, [Next]_vars
  PROVE  TypeOK'
<1>1. ASSUME InitWaited PROVE TypeOK'
  BY <1>1 DEF TypeOK, InitWaited, OwnerPC, WorkerPC, TaskLevel
<1>2. ASSUME ExecuteThrows PROVE TypeOK'
  BY <1>2 DEF TypeOK, ExecuteThrows, OwnerPC, WorkerPC, TaskLevel
<1>3. ASSUME InitNoMemory PROVE TypeOK'
  BY <1>3 DEF TypeOK, InitNoMemory, OwnerPC, WorkerPC, TaskLevel
<1>4. ASSUME Destroy PROVE TypeOK'
  BY <1>4 DEF TypeOK, Destroy, OwnerPC, WorkerPC, TaskLevel
<1>5. ASSUME DestroyDrained PROVE TypeOK'
  BY <1>5 DEF TypeOK, DestroyDrained, OwnerPC, WorkerPC, TaskLevel
<1>6. ASSUME DestroyStop PROVE TypeOK'
  BY <1>6 DEF TypeOK, DestroyStop, OwnerPC, WorkerPC, TaskLevel
<1>7. ASSUME DestroyBlocked PROVE TypeOK'
  BY <1>7 DEF TypeOK, DestroyBlocked, OwnerPC, WorkerPC, TaskLevel
<1>8. ASSUME DestroyDelete PROVE TypeOK'
  BY <1>8 DEF TypeOK, DestroyDelete, OwnerPC, WorkerPC, TaskLevel
<1>9. ASSUME NEW w \in Workers, Execute(w) PROVE TypeOK'
  BY <1>9 DEF TypeOK, Execute, OwnerPC, WorkerPC, TaskLevel
<1>10. ASSUME NEW w \in Workers, RunBegin(w) PROVE TypeOK'
  BY <1>10 DEF TypeOK, RunBegin, OwnerPC, WorkerPC, TaskLevel
<1>11. ASSUME NEW w \in Workers, SignalStarted(w) PROVE TypeOK'
  BY <1>11 DEF TypeOK, SignalStarted, OwnerPC, WorkerPC, TaskLevel
<1>12. ASSUME NEW w \in Workers, TestRun(w) PROVE TypeOK'
  BY <1>12 DEF TypeOK, TestRun, OwnerPC, WorkerPC, TaskLevel
<1>13. ASSUME NEW w \in Workers, Waited(w) PROVE TypeOK'
  BY <1>13 DEF TypeOK, Waited, OwnerPC, WorkerPC, TaskLevel
<1>14. ASSUME NEW w \in Workers, getTask(w) PROVE TypeOK'
  BY <1>14 DEF TypeOK, getTask, OwnerPC, WorkerPC, TaskLevel
<1>15. ASSUME NEW w \in Workers, getTaskNext(w) PROVE TypeOK'
  BY <1>15 DEF TypeOK, getTaskNext, OwnerPC, WorkerPC, TaskLevel
<1>16. ASSUME NEW w \in Workers, getTaskNone(w) PROVE TypeOK'
  BY <1>16 DEF TypeOK, getTaskNone, OwnerPC, WorkerPC, TaskLevel
<1>17. ASSUME NEW w \in Workers, RunReturns(w) PROVE TypeOK'
  <2>1. task[w] \in Tasks
    BY <1>17 DEF TypeOK, TaskHeld, RunReturns
  <2> QED
    BY <1>17, <2>1 DEF TypeOK, RunReturns, WorkerPC, TaskLevel
<1>18. ASSUME NEW w \in Workers, RunThrows(w) PROVE TypeOK'
  BY <1>18 DEF TypeOK, RunThrows, OwnerPC, WorkerPC, TaskLevel
<1>19. ASSUME NEW w \in Workers, RunLeft(w) PROVE TypeOK'
  <2>1. w \in Counted
    BY <1>19 DEF RunLeft, Counted
  <2>2. lIndex # 0
    BY <2>1, NoneCounted
  <2> QED
    BY <1>19, <2>2 DEF TypeOK, RunLeft, WorkerPC
<1>20. ASSUME NEW w \in Workers, SignalLeft(w) PROVE TypeOK'
  BY <1>20 DEF TypeOK, SignalLeft, OwnerPC, WorkerPC, TaskLevel
<1>21. ASSUME NEW w \in Workers, UsesDeleted(w) PROVE TypeOK'
  BY <1>21 DEF TypeOK, UsesDeleted, OwnerPC, WorkerPC, TaskLevel
<1>22. ASSUME NEW t \in Tasks, NEW l \in TaskLevel, AppendTask(t, l) PROVE TypeOK'
  BY <1>22 DEF TypeOK, AppendTask, OwnerPC, WorkerPC, TaskLevel
<1>23. ASSUME UNCHANGED vars PROVE TypeOK'
  BY <1>23 DEF TypeOK, vars, OwnerPC, WorkerPC, TaskLevel
<1> QED
  BY <1>1, <1>2, <1>3, <1>4, <1>5, <1>6, <1>7, <1>8, <1>9, <1>10, <1>11, <1>12, <1>13,
     <1>14, <1>15, <1>16, <1>17, <1>18, <1>19, <1>20, <1>21, <1>22, <1>23
     DEF Next, InitSteps, DestroySteps, Run

\* Every step keeps lIndex equal to the number of counted workers.
LEMMA CountStep ==
  ASSUME TypeOK, IndexCounts, [Next]_vars
  PROVE  IndexCounts'
<1>1. ASSUME InitWaited PROVE IndexCounts'
  BY <1>1 DEF TypeOK, IndexCounts, Counted, InitWaited
<1>2. ASSUME ExecuteThrows PROVE IndexCounts'
  BY <1>2 DEF TypeOK, IndexCounts, Counted, ExecuteThrows
<1>3. ASSUME InitNoMemory PROVE IndexCounts'
  BY <1>3 DEF TypeOK, IndexCounts, Counted, InitNoMemory
<1>4. ASSUME Destroy PROVE IndexCounts'
  BY <1>4 DEF TypeOK, IndexCounts, Counted, Destroy
<1>5. ASSUME DestroyDrained PROVE IndexCounts'
  BY <1>5 DEF TypeOK, IndexCounts, Counted, DestroyDrained
<1>6. ASSUME DestroyStop PROVE IndexCounts'
  BY <1>6 DEF TypeOK, IndexCounts, Counted, DestroyStop
<1>7. ASSUME DestroyBlocked PROVE IndexCounts'
  BY <1>7 DEF TypeOK, IndexCounts, Counted, DestroyBlocked
<1>8. ASSUME DestroyDelete PROVE IndexCounts'
  BY <1>8 DEF TypeOK, IndexCounts, Counted, DestroyDelete
<1>9. ASSUME NEW w \in Workers, Execute(w) PROVE IndexCounts'
  BY Zenon, <1>9 DEF TypeOK, IndexCounts, Counted, Execute
<1>10. ASSUME NEW w \in Workers, RunBegin(w) PROVE IndexCounts'
  BY Zenon, <1>10, CountedAdd DEF IndexCounts, RunBegin
<1>11. ASSUME NEW w \in Workers, SignalStarted(w) PROVE IndexCounts'
  BY Zenon, <1>11 DEF TypeOK, IndexCounts, Counted, SignalStarted
<1>12. ASSUME NEW w \in Workers, TestRun(w) PROVE IndexCounts'
  BY Zenon, <1>12 DEF TypeOK, IndexCounts, Counted, TestRun
<1>13. ASSUME NEW w \in Workers, Waited(w) PROVE IndexCounts'
  BY Zenon, <1>13 DEF TypeOK, IndexCounts, Counted, Waited
<1>14. ASSUME NEW w \in Workers, getTask(w) PROVE IndexCounts'
  BY Zenon, <1>14 DEF TypeOK, IndexCounts, Counted, getTask
<1>15. ASSUME NEW w \in Workers, getTaskNext(w) PROVE IndexCounts'
  BY <1>15 DEF TypeOK, IndexCounts, Counted, getTaskNext
<1>16. ASSUME NEW w \in Workers, getTaskNone(w) PROVE IndexCounts'
  BY Zenon, <1>16 DEF TypeOK, IndexCounts, Counted, getTaskNone
<1>17. ASSUME NEW w \in Workers, RunReturns(w) PROVE IndexCounts'
  BY Zenon, <1>17 DEF TypeOK, IndexCounts, Counted, RunReturns
<1>18. ASSUME NEW w \in Workers, RunThrows(w) PROVE IndexCounts'
  BY Zenon, <1>18 DEF TypeOK, IndexCounts, Counted, RunThrows
<1>19. ASSUME NEW w \in Workers, RunLeft(w) PROVE IndexCounts'
  BY Zenon, <1>19, CountedSub DEF IndexCounts, RunLeft
<1>20. ASSUME NEW w \in Workers, SignalLeft(w) PROVE IndexCounts'
  BY Zenon, <1>20 DEF TypeOK, IndexCounts, Counted, SignalLeft
<1>21. ASSUME NEW w \in Workers, UsesDeleted(w) PROVE IndexCounts'
  BY Zenon, <1>21 DEF TypeOK, IndexCounts, Counted, UsesDeleted
<1>22. ASSUME NEW t \in Tasks, NEW l \in TaskLevel, AppendTask(t, l) PROVE IndexCounts'
  BY <1>22 DEF TypeOK, IndexCounts, Counted, AppendTask
<1>23. ASSUME UNCHANGED vars PROVE IndexCounts'
  BY <1>23 DEF TypeOK, IndexCounts, Counted, vars
<1> QED
  BY <1>1, <1>2, <1>3, <1>4, <1>5, <1>6, <1>7, <1>8, <1>9, <1>10, <1>11, <1>12, <1>13,
     <1>14, <1>15, <1>16, <1>17, <1>18, <1>19, <1>20, <1>21, <1>22, <1>23
     DEF Next, InitSteps, DestroySteps, Run

\* A worker has a task only from getTask until the task returns.
LEMMA HeldStep ==
  ASSUME TypeOK, TaskHeld, [Next]_vars
  PROVE  TaskHeld'
<1>1. ASSUME InitWaited PROVE TaskHeld'
  BY <1>1 DEF TypeOK, TaskHeld, InitWaited
<1>2. ASSUME ExecuteThrows PROVE TaskHeld'
  BY <1>2 DEF TypeOK, TaskHeld, ExecuteThrows
<1>3. ASSUME InitNoMemory PROVE TaskHeld'
  BY <1>3 DEF TypeOK, TaskHeld, InitNoMemory
<1>4. ASSUME Destroy PROVE TaskHeld'
  BY <1>4 DEF TypeOK, TaskHeld, Destroy
<1>5. ASSUME DestroyDrained PROVE TaskHeld'
  BY <1>5 DEF TypeOK, TaskHeld, DestroyDrained
<1>6. ASSUME DestroyStop PROVE TaskHeld'
  BY <1>6 DEF TypeOK, TaskHeld, DestroyStop
<1>7. ASSUME DestroyBlocked PROVE TaskHeld'
  BY <1>7 DEF TypeOK, TaskHeld, DestroyBlocked
<1>8. ASSUME DestroyDelete PROVE TaskHeld'
  BY <1>8 DEF TypeOK, TaskHeld, DestroyDelete
<1>9. ASSUME NEW w \in Workers, Execute(w) PROVE TaskHeld'
  BY <1>9 DEF TypeOK, TaskHeld, Execute
<1>10. ASSUME NEW w \in Workers, RunBegin(w) PROVE TaskHeld'
  BY <1>10 DEF TypeOK, TaskHeld, RunBegin
<1>11. ASSUME NEW w \in Workers, SignalStarted(w) PROVE TaskHeld'
  BY <1>11 DEF TypeOK, TaskHeld, SignalStarted
<1>12. ASSUME NEW w \in Workers, TestRun(w) PROVE TaskHeld'
  BY <1>12 DEF TypeOK, TaskHeld, TestRun
<1>13. ASSUME NEW w \in Workers, Waited(w) PROVE TaskHeld'
  BY <1>13 DEF TypeOK, TaskHeld, Waited
<1>14. ASSUME NEW w \in Workers, getTask(w) PROVE TaskHeld'
  <2>1. Head(queue[level[w]]) \in Tasks
    BY <1>14 DEF TypeOK, getTask
  <2> QED
    BY <1>14, <2>1, NoTaskAssumption DEF TypeOK, TaskHeld, getTask
<1>15. ASSUME NEW w \in Workers, getTaskNext(w) PROVE TaskHeld'
  BY <1>15 DEF TypeOK, TaskHeld, getTaskNext
<1>16. ASSUME NEW w \in Workers, getTaskNone(w) PROVE TaskHeld'
  BY <1>16 DEF TypeOK, TaskHeld, getTaskNone
<1>17. ASSUME NEW w \in Workers, RunReturns(w) PROVE TaskHeld'
  BY <1>17 DEF TypeOK, TaskHeld, RunReturns
<1>18. ASSUME NEW w \in Workers, RunThrows(w) PROVE TaskHeld'
  BY <1>18 DEF TypeOK, TaskHeld, RunThrows
<1>19. ASSUME NEW w \in Workers, RunLeft(w) PROVE TaskHeld'
  BY <1>19 DEF TypeOK, TaskHeld, RunLeft
<1>20. ASSUME NEW w \in Workers, SignalLeft(w) PROVE TaskHeld'
  BY <1>20 DEF TypeOK, TaskHeld, SignalLeft
<1>21. ASSUME NEW w \in Workers, UsesDeleted(w) PROVE TaskHeld'
  BY <1>21 DEF TypeOK, TaskHeld, UsesDeleted
<1>22. ASSUME NEW t \in Tasks, NEW l \in TaskLevel, AppendTask(t, l) PROVE TaskHeld'
  BY <1>22 DEF TypeOK, TaskHeld, AppendTask
<1>23. ASSUME UNCHANGED vars PROVE TaskHeld'
  BY <1>23 DEF TypeOK, TaskHeld, vars
<1> QED
  BY <1>1, <1>2, <1>3, <1>4, <1>5, <1>6, <1>7, <1>8, <1>9, <1>10, <1>11, <1>12, <1>13,
     <1>14, <1>15, <1>16, <1>17, <1>18, <1>19, <1>20, <1>21, <1>22, <1>23
     DEF Next, InitSteps, DestroySteps, Run

\* A worker turns its back on a queue only when it found it empty, and a task is
\* appended after Destroy's look at the queues only by a task that runs.
LEMMA QueueStep ==
  ASSUME TypeOK, QueueWatched, [Next]_vars
  PROVE  QueueWatched'
<1>1. ASSUME InitWaited PROVE QueueWatched'
  BY <1>1 DEF TypeOK, QueueWatched, Drained, WillLook, InitWaited
<1>2. ASSUME ExecuteThrows PROVE QueueWatched'
  BY <1>2 DEF TypeOK, QueueWatched, Drained, WillLook, ExecuteThrows
<1>3. ASSUME InitNoMemory PROVE QueueWatched'
  BY <1>3 DEF TypeOK, QueueWatched, Drained, WillLook, InitNoMemory
<1>4. ASSUME Destroy PROVE QueueWatched'
  BY <1>4 DEF TypeOK, QueueWatched, Drained, WillLook, Destroy
<1>5. ASSUME DestroyDrained PROVE QueueWatched'
  BY <1>5 DEF TypeOK, QueueWatched, Drained, WillLook, DestroyDrained
<1>6. ASSUME DestroyStop PROVE QueueWatched'
  BY <1>6 DEF TypeOK, QueueWatched, Drained, WillLook, DestroyStop
<1>7. ASSUME DestroyBlocked PROVE QueueWatched'
  BY <1>7 DEF TypeOK, QueueWatched, Drained, WillLook, DestroyBlocked
<1>8. ASSUME DestroyDelete PROVE QueueWatched'
  BY <1>8 DEF TypeOK, QueueWatched, Drained, WillLook, DestroyDelete
<1>9. ASSUME NEW w \in Workers, Execute(w) PROVE QueueWatched'
  BY <1>9 DEF TypeOK, QueueWatched, Drained, WillLook, Execute
<1>10. ASSUME NEW w \in Workers, RunBegin(w) PROVE QueueWatched'
  BY <1>10 DEF TypeOK, QueueWatched, Drained, WillLook, RunBegin
<1>11. ASSUME NEW w \in Workers, SignalStarted(w) PROVE QueueWatched'
  BY <1>11 DEF TypeOK, QueueWatched, Drained, WillLook, SignalStarted
<1>12. ASSUME NEW w \in Workers, TestRun(w) PROVE QueueWatched'
  BY <1>12 DEF TypeOK, QueueWatched, Drained, WillLook, TestRun
<1>13. ASSUME NEW w \in Workers, Waited(w) PROVE QueueWatched'
  BY Zenon, <1>13 DEF TypeOK, QueueWatched, Drained, WillLook, Waited
<1>14. ASSUME NEW w \in Workers, getTask(w) PROVE QueueWatched'
  BY <1>14 DEF TypeOK, QueueWatched, Drained, WillLook, getTask
<1>15. ASSUME NEW w \in Workers, getTaskNext(w) PROVE QueueWatched'
  <2> SUFFICES ASSUME Drained', NEW l \in TaskLevel, queue'[l] # << >>
               PROVE  \E v \in Workers : WillLook(v, l)'
    BY DEF QueueWatched
  <2>1. PICK v \in Workers : WillLook(v, l)
    BY <1>15 DEF QueueWatched, Drained, getTaskNext
  <2>2. CASE v = w
    BY <1>15, <2>1, <2>2 DEF TypeOK, TaskLevel, WillLook, getTaskNext
  <2>3. CASE v # w
    BY <1>15, <2>1, <2>3 DEF TypeOK, WillLook, getTaskNext
  <2> QED
    BY <2>2, <2>3
<1>16. ASSUME NEW w \in Workers, getTaskNone(w) PROVE QueueWatched'
  <2> SUFFICES ASSUME Drained', NEW l \in TaskLevel, queue'[l] # << >>
               PROVE  \E v \in Workers : WillLook(v, l)'
    BY DEF QueueWatched
  <2>1. PICK v \in Workers : WillLook(v, l)
    BY <1>16 DEF QueueWatched, Drained, getTaskNone
  <2>2. CASE v = w
    BY <1>16, <2>1, <2>2 DEF TypeOK, TaskLevel, WillLook, getTaskNone
  <2>3. CASE v # w
    BY <1>16, <2>1, <2>3 DEF TypeOK, WillLook, getTaskNone
  <2> QED
    BY <2>2, <2>3
<1>17. ASSUME NEW w \in Workers, RunReturns(w) PROVE QueueWatched'
  <2> SUFFICES ASSUME Drained', NEW l \in TaskLevel, queue'[l] # << >>
               PROVE  \E v \in Workers : WillLook(v, l)'
    BY DEF QueueWatched
  <2>1. PICK v \in Workers : WillLook(v, l)
    BY <1>17 DEF QueueWatched, Drained, RunReturns
  <2>2. CASE v = w
    BY <1>17, <2>1, <2>2 DEF TypeOK, TaskLevel, WillLook, RunReturns
  <2>3. CASE v # w
    BY <1>17, <2>1, <2>3 DEF TypeOK, WillLook, RunReturns
  <2> QED
    BY <2>2, <2>3
<1>18. ASSUME NEW w \in Workers, RunThrows(w) PROVE QueueWatched'
  BY <1>18 DEF TypeOK, QueueWatched, Drained, WillLook, RunThrows
<1>19. ASSUME NEW w \in Workers, RunLeft(w) PROVE QueueWatched'
  BY <1>19 DEF TypeOK, QueueWatched, Drained, WillLook, RunLeft
<1>20. ASSUME NEW w \in Workers, SignalLeft(w) PROVE QueueWatched'
  BY <1>20 DEF TypeOK, QueueWatched, Drained, WillLook, SignalLeft
<1>21. ASSUME NEW w \in Workers, UsesDeleted(w) PROVE QueueWatched'
  BY <1>21 DEF TypeOK, QueueWatched, Drained, WillLook, UsesDeleted
<1>22. ASSUME NEW t \in Tasks, NEW l \in TaskLevel, AppendTask(t, l) PROVE QueueWatched'
  BY <1>22 DEF TypeOK, QueueWatched, Drained, WillLook, AppendTask
<1>23. ASSUME UNCHANGED vars PROVE QueueWatched'
  BY <1>23 DEF TypeOK, QueueWatched, Drained, WillLook, vars
<1> QED
  BY <1>1, <1>2, <1>3, <1>4, <1>5, <1>6, <1>7, <1>8, <1>9, <1>10, <1>11, <1>12, <1>13,
     <1>14, <1>15, <1>16, <1>17, <1>18, <1>19, <1>20, <1>21, <1>22, <1>23
     DEF Next, InitSteps, DestroySteps, Run

\* DestroyDelete finds no worker counted, so nobody has a task and nobody is left
\* to look at a queue: the queues are empty.  Nothing is appended afterwards.
LEMMA LostStep ==
  ASSUME IInv, [Next]_vars
  PROVE  NoTaskLost'
<1>1. CASE DestroyDelete
  <2>1. Counted = {}
    BY <1>1, NoneCounted DEF IInv, DestroyDelete
  <2>2. \A w \in Workers : worker[w] \notin {"run", "dead", "get"}
    BY <2>1 DEF Counted
  <2>3. \A w \in Workers : task[w] = NoTask
    BY <2>2 DEF IInv, TaskHeld
  <2>4. QueueWatched'
    BY <1>1, QueueStep DEF IInv
  <2>5. \A l \in TaskLevel : queue[l] = << >>
    BY <1>1, <2>2, <2>4 DEF QueueWatched, Drained, WillLook, DestroyDelete
  <2>6. Counted' = Counted
    BY <1>1 DEF Counted, DestroyDelete
  <2> QED
    BY <1>1, <2>1, <2>3, <2>5, <2>6 DEF NoTaskLost, DestroyDelete
<1>2. CASE ~DestroyDelete
  <2> SUFFICES ASSUME owner' = "deleted"
               PROVE  /\ Counted' = {}
                      /\ \A l \in TaskLevel : queue'[l] = << >>
                      /\ \A w \in Workers : task'[w] = NoTask
    BY DEF NoTaskLost
  <2>1. owner = "deleted"
    BY <1>2 DEF Next, InitSteps, DestroySteps, Run, vars, Execute, InitWaited,
       ExecuteThrows, InitNoMemory, AppendTask, Destroy, DestroyDrained,
       DestroyStop, DestroyBlocked, RunBegin, SignalStarted, TestRun, Waited,
       getTask, getTaskNext, getTaskNone, RunReturns, RunThrows, RunLeft,
       SignalLeft, UsesDeleted
  <2>2. \A w \in Workers : worker[w] # "run"
    BY <2>1 DEF IInv, NoTaskLost, Counted
  <2>3. UNCHANGED vars \/ \E w \in Workers : UsesDeleted(w)
    BY <2>1, <2>2 DEF Next, InitSteps, DestroySteps, Run, Execute, InitWaited,
       ExecuteThrows, InitNoMemory, AppendTask, Destroy, DestroyDrained,
       DestroyStop, DestroyBlocked, DestroyDelete, RunBegin, SignalStarted,
       TestRun, Waited, getTask, getTaskNext, getTaskNone, RunReturns,
       RunThrows, RunLeft, SignalLeft
  <2>4. CASE UNCHANGED vars
    BY <2>1, <2>4 DEF IInv, NoTaskLost, Counted, vars
  <2>5. ASSUME NEW w \in Workers, UsesDeleted(w)
        PROVE  Counted' = Counted /\ queue' = queue /\ task' = task
    BY <2>5 DEF IInv, TypeOK, Counted, UsesDeleted
  <2> QED
    BY <2>1, <2>3, <2>4, <2>5 DEF IInv, NoTaskLost
<1> QED
  BY <1>1, <1>2

\* The inductive invariant holds at the start ...
LEMMA InitInv == Init => IInv
<1> SUFFICES ASSUME Init PROVE IInv
  OBVIOUS
<1>1. TypeOK
  <2>1. << >> \in Seq(Tasks)
    OBVIOUS
  <2>2. queue \in [TaskLevel -> Seq(Tasks)]
    BY <2>1 DEF Init
  <2>3. level \in [Workers -> TaskLevel] /\ lIndex \in Nat
    BY DEF Init, TaskLevel
  <2>4. worker \in [Workers -> WorkerPC] /\ owner \in OwnerPC
    BY DEF Init, OwnerPC, WorkerPC
  <2> QED
    BY Zenon, <2>2, <2>3, <2>4 DEF Init, TypeOK
<1>2. QueueWatched /\ TaskHeld /\ NoTaskLost
  BY DEF Init, QueueWatched, Drained, TaskHeld, NoTaskLost
<1>3. Counted = {}
  BY DEF Init, Counted
<1>4. IndexCounts
  BY <1>3, FS_EmptySet DEF Init, IndexCounts
<1> QED
  BY <1>1, <1>2, <1>4 DEF IInv

\* ... and in every state that the pool reaches.
LEMMA Invariance == Spec => []IInv
<1>1. ASSUME IInv, [Next]_vars PROVE IInv'
  <2>1. TypeOK /\ QueueWatched /\ TaskHeld /\ IndexCounts
    BY <1>1 DEF IInv
  <2>2. TypeOK' /\ QueueWatched' /\ TaskHeld' /\ IndexCounts'
    BY <1>1, <2>1, TypeStep, QueueStep, HeldStep, CountStep
  <2>3. NoTaskLost'
    BY <1>1, LostStep
  <2> QED
    BY <2>2, <2>3 DEF IInv
<1> QED
  BY InitInv, <1>1, PTL DEF Spec

\* Every variable of the pool stays in its range; lIndex, which Destroy compares
\* with zero, never goes below it.
THEOREM TypeCorrect == Spec => []TypeOK
<1>1. IInv => TypeOK
  BY DEF IInv
<1> QED
  BY <1>1, Invariance, PTL

\* Destroy deletes the pool only when every task has been run, also the tasks that
\* were appended while it was waiting.
THEOREM TasksRun == Spec => []NoTaskLost
<1>1. IInv => NoTaskLost
  BY DEF IInv
<1> QED
  BY <1>1, Invariance, PTL

-----------------------------------------------------------------------------
(* Every task is in one place.                                             *)

\* A task is somewhere only after it was appended.
OnlyAppended ==
    /\ \A l \in TaskLevel : \A i \in 1..Len(queue[l]) : queue[l][i] \in appended
    /\ \A w \in Workers : task[w] # NoTask => task[w] \in appended
    /\ done \subseteq appended

\* Nothing is in two places of one kind ...
NoneTwice ==
    /\ \A l, k \in TaskLevel :
           \A i \in 1..Len(queue[l]), j \in 1..Len(queue[k]) :
               queue[l][i] = queue[k][j] => l = k /\ i = j
    /\ \A w, v \in Workers : task[w] = task[v] /\ task[w] # NoTask => w = v

\* ... or of two kinds ...
KindsApart ==
    /\ \A l \in TaskLevel : \A i \in 1..Len(queue[l]) :
           /\ queue[l][i] \notin done
           /\ \A w \in Workers : task[w] # queue[l][i]
    /\ \A w \in Workers : task[w] \notin done

\* ... and what was appended is somewhere.
Somewhere(t) ==
    \/ \E l \in TaskLevel : \E i \in 1..Len(queue[l]) : queue[l][i] = t
    \/ \E w \in Workers : task[w] = t
    \/ t \in done

OnePlace ==
    OnlyAppended /\ NoneTwice /\ KindsApart /\ \A t \in appended : Somewhere(t)

\* Append puts a task that is nowhere at the end of one queue.
LEMMA AppendPlaces ==
  ASSUME TypeOK, OnePlace, NEW t \in Tasks, NEW l \in TaskLevel, AppendTask(t, l)
  PROVE  OnePlace'
<1>1. /\ \A k \in TaskLevel : queue[k] \in Seq(Tasks) /\ Len(queue[k]) \in Nat
      /\ t # NoTask /\ t \notin appended
      /\ appended' = appended \cup {t}
      /\ task' = task /\ done' = done
  BY NoTaskAssumption DEF TypeOK, AppendTask
<1>2. /\ Len(queue'[l]) = Len(queue[l]) + 1
      /\ \A i \in 1..Len(queue[l]) : queue'[l][i] = queue[l][i]
      /\ queue'[l][Len(queue[l]) + 1] = t
  BY <1>1 DEF TypeOK, AppendTask
<1>3. \A k \in TaskLevel : k # l => queue'[k] = queue[k]
  BY DEF TypeOK, AppendTask
<1>4. \A k \in TaskLevel : \A i \in 1..Len(queue'[k]) :
          \/ i \in 1..Len(queue[k]) /\ queue'[k][i] = queue[k][i]
          \/ k = l /\ i = Len(queue[l]) + 1 /\ queue'[k][i] = t
  BY <1>1, <1>2, <1>3
<1>5. OnlyAppended'
  BY <1>1, <1>4 DEF OnePlace, OnlyAppended
<1>6. NoneTwice'
  <2>1. ASSUME NEW j \in TaskLevel, NEW k \in TaskLevel,
               NEW m \in 1..Len(queue'[j]), NEW n \in 1..Len(queue'[k]),
               queue'[j][m] = queue'[k][n]
        PROVE  j = k /\ m = n
    <3>1. \A h \in TaskLevel : \A i \in 1..Len(queue[h]) : queue[h][i] # t
      BY <1>1 DEF OnePlace, OnlyAppended
    <3>2. CASE queue'[j][m] = t
      <4>1. j = l /\ m = Len(queue[l]) + 1
        BY <1>4, <3>1, <3>2
      <4>2. k = l /\ n = Len(queue[l]) + 1
        BY Zenon, <1>4, <2>1, <3>1, <3>2
      <4> QED
        BY <4>1, <4>2
    <3>3. CASE queue'[j][m] # t
      <4>1. /\ m \in 1..Len(queue[j]) /\ queue'[j][m] = queue[j][m]
            /\ n \in 1..Len(queue[k]) /\ queue'[k][n] = queue[k][n]
        BY <1>4, <2>1, <3>3
      <4>2. queue[j][m] = queue[k][n]
        BY Zenon, <2>1, <4>1
      <4>3. NoneTwice
        BY DEF OnePlace
      <4> QED
        BY <4>1, <4>2, <4>3 DEF NoneTwice
    <3> QED
      BY <3>2, <3>3
  <2>2. \A u, v \in Workers : task'[u] = task'[v] /\ task'[u] # NoTask => u = v
    BY <1>1 DEF OnePlace, NoneTwice
  <2> QED
    BY <2>1, <2>2 DEF NoneTwice
<1>7. KindsApart'
  BY <1>1, <1>4 DEF OnePlace, OnlyAppended, KindsApart
<1>8. ASSUME NEW s \in appended' PROVE Somewhere(s)'
  <2>1. CASE s = t
    <3>1. Len(queue[l]) + 1 \in 1..Len(queue'[l])
      BY <1>1, <1>2
    <3> QED
      BY <1>2, <2>1, <3>1 DEF Somewhere
  <2>2. ASSUME NEW k \in TaskLevel, NEW i \in 1..Len(queue[k]), queue[k][i] = s
        PROVE  Somewhere(s)'
    <3>1. i \in 1..Len(queue'[k]) /\ queue'[k][i] = s
      BY <1>1, <1>2, <1>3, <2>2
    <3> QED
      BY <3>1 DEF Somewhere
  <2>3. CASE s # t
    <3>1. Somewhere(s)
      BY <1>1, <1>8, <2>3 DEF OnePlace
    <3> QED
      BY <1>1, <2>2, <3>1 DEF Somewhere
  <2> QED
    BY <2>1, <2>3
<1> QED
  BY <1>5, <1>6, <1>7, <1>8 DEF OnePlace

\* getTaskFromQueue moves the head of a queue to a worker that has no task.
LEMMA GetPlaces ==
  ASSUME TypeOK, TaskHeld, OnePlace, NEW w \in Workers, getTask(w)
  PROVE  OnePlace'
<1> DEFINE l == level[w]
           t == queue[l][1]
<1>1. /\ \A k \in TaskLevel : queue[k] \in Seq(Tasks) /\ Len(queue[k]) \in Nat
      /\ l \in TaskLevel /\ queue[l] # << >>
      /\ appended' = appended /\ done' = done
      /\ task[w] = NoTask
  BY DEF TypeOK, TaskHeld, getTask
<1>2. 1 \in 1..Len(queue[l]) /\ t \in Tasks /\ t # NoTask
  BY <1>1, NoTaskAssumption
<1>3. task'[w] = t /\ \A v \in Workers : v # w => task'[v] = task[v]
  BY <1>1 DEF TypeOK, getTask
<1>4. /\ Len(queue'[l]) = Len(queue[l]) - 1
      /\ \A i \in 1..Len(queue'[l]) : queue'[l][i] = queue[l][i + 1]
      /\ \A k \in TaskLevel : k # l => queue'[k] = queue[k]
  <2>1. queue'[l] = Tail(queue[l])
    BY <1>1 DEF TypeOK, getTask
  <2>2. /\ Len(Tail(queue[l])) = Len(queue[l]) - 1
        /\ \A i \in 1..Len(queue[l]) - 1 : Tail(queue[l])[i] = queue[l][i + 1]
    BY <1>1
  <2>3. \A k \in TaskLevel : k # l => queue'[k] = queue[k]
    BY DEF TypeOK, getTask
  <2> QED
    BY <2>1, <2>2, <2>3
<1> HIDE DEF l, t
<1>5. \A k \in TaskLevel : \A i \in 1..Len(queue'[k]) :
          \/ k # l /\ i \in 1..Len(queue[k]) /\ queue'[k][i] = queue[k][i]
          \/ k = l /\ i + 1 \in 1..Len(queue[l]) /\ queue'[k][i] = queue[l][i + 1]
  BY <1>1, <1>4
<1>6. t = queue[l][1]
  BY DEF t
<1>7. \A k \in TaskLevel : \A i \in 1..Len(queue'[k]) :
          queue'[k][i] # t /\ \E j \in 1..Len(queue[k]) : queue'[k][i] = queue[k][j]
  <2> SUFFICES ASSUME NEW k \in TaskLevel, NEW i \in 1..Len(queue'[k])
               PROVE  /\ queue'[k][i] # t
                      /\ \E j \in 1..Len(queue[k]) : queue'[k][i] = queue[k][j]
    OBVIOUS
  <2>1. NoneTwice
    BY DEF OnePlace
  <2>2. i \in Nat /\ i + 1 # 1
    BY <1>1, <1>5
  <2>3. PICK j \in 1..Len(queue[k]) :
            queue'[k][i] = queue[k][j] /\ ~(k = l /\ j = 1)
    <3>1. CASE k # l
      BY <1>5, <3>1
    <3>2. CASE k = l
      BY <1>5, <2>2, <3>2
    <3> QED
      BY <3>1, <3>2
  <2>4. queue[k][j] # queue[l][1]
    BY <1>1, <1>2, <2>1, <2>3 DEF NoneTwice
  <2> QED
    BY <1>6, <2>3, <2>4
<1>8. OnlyAppended'
  <2>1. \A k \in TaskLevel : \A j \in 1..Len(queue[k]) : queue[k][j] \in appended
    BY DEF OnePlace, OnlyAppended
  <2>2. ASSUME NEW k \in TaskLevel, NEW i \in 1..Len(queue'[k])
        PROVE  queue'[k][i] \in appended'
    <3>1. PICK j \in 1..Len(queue[k]) : queue'[k][i] = queue[k][j]
      BY <1>7
    <3> QED
      BY <1>1, <2>1, <3>1
  <2>3. t \in appended
    BY <1>1, <1>2, <1>6, <2>1
  <2>4. \A v \in Workers : task'[v] # NoTask => task'[v] \in appended'
    BY <1>1, <1>3, <2>3 DEF OnePlace, OnlyAppended
  <2> QED
    BY <1>1, <2>2, <2>4 DEF OnePlace, OnlyAppended
<1>9. NoneTwice'
  <2>1. ASSUME NEW j \in TaskLevel, NEW k \in TaskLevel,
               NEW m \in 1..Len(queue'[j]), NEW n \in 1..Len(queue'[k]),
               queue'[j][m] = queue'[k][n]
        PROVE  j = k /\ m = n
    <3> DEFINE At(h, i) == IF h = l THEN i + 1 ELSE i
    <3>1. /\ m \in Nat /\ At(j, m) \in 1..Len(queue[j])
          /\ queue'[j][m] = queue[j][At(j, m)]
      BY <1>1, <1>5
    <3>2. /\ n \in Nat /\ At(k, n) \in 1..Len(queue[k])
          /\ queue'[k][n] = queue[k][At(k, n)]
      BY <1>1, <1>5
    <3>3. j = k => (At(j, m) = At(k, n) => m = n)
      BY <3>1, <3>2
    <3>4. NoneTwice
      BY DEF OnePlace
    <3> HIDE DEF At
    <3>5. queue[j][At(j, m)] = queue[k][At(k, n)]
      BY Zenon, <2>1, <3>1, <3>2
    <3>6. j = k /\ At(j, m) = At(k, n)
      BY <3>1, <3>2, <3>4, <3>5 DEF NoneTwice
    <3> QED
      BY <3>3, <3>6
  <2>2. \A u, v \in Workers : task'[u] = task'[v] /\ task'[u] # NoTask => u = v
    BY <1>1, <1>2, <1>3, <1>6 DEF OnePlace, NoneTwice, KindsApart
  <2> QED
    BY <2>1, <2>2 DEF NoneTwice
<1>10. KindsApart'
  <2>1. \A k \in TaskLevel : \A j \in 1..Len(queue[k]) :
            queue[k][j] \notin done /\ \A v \in Workers : task[v] # queue[k][j]
    BY DEF OnePlace, KindsApart
  <2>2. t \notin done
    BY <1>1, <1>2, <1>6, <2>1
  <2>3. ASSUME NEW k \in TaskLevel, NEW i \in 1..Len(queue'[k])
        PROVE  /\ queue'[k][i] \notin done'
               /\ \A v \in Workers : task'[v] # queue'[k][i]
    <3>1. PICK j \in 1..Len(queue[k]) : queue'[k][i] = queue[k][j]
      BY <1>7
    <3> QED
      BY <1>1, <1>3, <1>7, <2>1, <3>1
  <2>4. \A v \in Workers : task'[v] \notin done'
    BY <1>1, <1>3, <2>2 DEF OnePlace, KindsApart
  <2> QED
    BY <2>3, <2>4 DEF KindsApart
<1>11. ASSUME NEW s \in appended' PROVE Somewhere(s)'
  <2>1. Somewhere(s)
    BY <1>1, <1>11 DEF OnePlace
  <2>2. ASSUME NEW k \in TaskLevel, NEW i \in 1..Len(queue[k]), queue[k][i] = s
        PROVE  Somewhere(s)'
    <3>1. CASE k # l
      BY <1>4, <2>2, <3>1 DEF Somewhere
    <3>2. CASE k = l /\ i = 1
      BY <1>3, <1>6, <2>2, <3>2 DEF Somewhere
    <3>3. CASE k = l /\ i # 1
      <4>1. i - 1 \in 1..Len(queue'[l]) /\ (i - 1) + 1 = i
        BY <1>1, <1>4, <3>3
      <4>2. queue'[l][i - 1] = s
        BY <1>4, <2>2, <3>3, <4>1
      <4> QED
        BY <1>1, <4>1, <4>2 DEF Somewhere
    <3> QED
      BY <3>1, <3>2, <3>3
  <2>3. ASSUME NEW v \in Workers, task[v] = s PROVE Somewhere(s)'
    <3>1. s # NoTask
      BY <1>1, <1>11, NoTaskAssumption DEF TypeOK
    <3> QED
      BY <1>1, <1>3, <2>3, <3>1 DEF Somewhere
  <2> QED
    BY <1>1, <2>1, <2>2, <2>3 DEF Somewhere
<1> QED
  BY <1>8, <1>9, <1>10, <1>11 DEF OnePlace

\* A task that returns moves from its worker to done.
LEMMA ReturnPlaces ==
  ASSUME TypeOK, TaskHeld, OnePlace, NEW w \in Workers, RunReturns(w)
  PROVE  OnePlace'
<1>1. /\ queue' = queue /\ appended' = appended
      /\ task[w] # NoTask /\ done' = done \cup {task[w]}
      /\ task'[w] = NoTask /\ \A v \in Workers : v # w => task'[v] = task[v]
  BY DEF TypeOK, TaskHeld, RunReturns
<1>2. NoTask \notin appended /\ NoTask \notin done
      /\ \A l \in TaskLevel : \A i \in 1..Len(queue[l]) : queue[l][i] # NoTask
  BY NoTaskAssumption DEF TypeOK, OnePlace, OnlyAppended
<1>3. OnlyAppended'
  BY <1>1 DEF OnePlace, OnlyAppended
<1>4. NoneTwice'
  BY <1>1 DEF OnePlace, NoneTwice
<1>5. KindsApart'
  BY <1>1, <1>2 DEF OnePlace, NoneTwice, KindsApart
<1>6. \A s \in appended' : Somewhere(s)'
  BY <1>1 DEF OnePlace, Somewhere
<1> QED
  BY <1>3, <1>4, <1>5, <1>6 DEF OnePlace

\* No other step moves a task.
LEMMA PlaceStep ==
  ASSUME TypeOK, TaskHeld, OnePlace, [Next]_vars
  PROVE  OnePlace'
<1>1. CASE \E t \in Tasks, l \in TaskLevel : AppendTask(t, l)
  BY <1>1, AppendPlaces
<1>2. CASE \E w \in Workers : getTask(w)
  BY <1>2, GetPlaces
<1>3. CASE \E w \in Workers : RunReturns(w)
  BY <1>3, ReturnPlaces
<1>4. CASE UNCHANGED <<queue, task, appended, done>>
  <2>1. OnlyAppended'
    BY <1>4 DEF OnePlace, OnlyAppended
  <2>2. NoneTwice'
    <3>1. NoneTwice
      BY DEF OnePlace
    <3> QED
      BY <1>4, <3>1 DEF NoneTwice
  <2>3. KindsApart'
    BY <1>4 DEF OnePlace, KindsApart
  <2>4. \A t \in appended' : Somewhere(t)'
    BY <1>4 DEF OnePlace, Somewhere
  <2> QED
    BY <2>1, <2>2, <2>3, <2>4 DEF OnePlace
<1> QED
  BY <1>1, <1>2, <1>3, <1>4 DEF Next, InitSteps, DestroySteps, Run, vars, Execute,
     InitWaited, ExecuteThrows, InitNoMemory, Destroy, DestroyDrained,
     DestroyStop, DestroyBlocked, DestroyDelete, RunBegin, SignalStarted,
     TestRun, Waited, getTaskNext, getTaskNone, RunThrows, RunLeft, SignalLeft,
     UsesDeleted

\* The places of an appended task are a singleton.
LEMMA PlacesSingle ==
  ASSUME TypeOK, OnePlace, NEW t \in appended
  PROVE  Cardinality(Places(t)) = 1
<1> DEFINE Q == UNION {{<<l, i>> : i \in {j \in DOMAIN queue[l] : queue[l][j] = t}} :
                          l \in TaskLevel}
           W == {<<w, 0>> : w \in {v \in Workers : task[v] = t}}
           D == {<<0, 0>> : u \in done \cap {t}}
<1>1. Places(t) = Q \cup W \cup D
  BY DEF Places
<1>2. t # NoTask /\ \A l \in TaskLevel : DOMAIN queue[l] = 1..Len(queue[l])
  BY NoTaskAssumption DEF TypeOK
<1>3. ASSUME NEW l \in TaskLevel, NEW i \in 1..Len(queue[l]), queue[l][i] = t
      PROVE  Q = {<<l, i>>} /\ W = {} /\ D = {}
  <2>1. W = {} /\ D = {}
    BY <1>3 DEF OnePlace, KindsApart
  <2>2. \A k \in TaskLevel : \A j \in DOMAIN queue[k] :
            queue[k][j] = t <=> k = l /\ j = i
    BY <1>2, <1>3 DEF OnePlace, NoneTwice
  <2>3. i \in DOMAIN queue[l]
    BY <1>2
  <2> QED
    BY <2>1, <2>2, <2>3
<1>4. ASSUME NEW w \in Workers, task[w] = t
      PROVE  Q = {} /\ W = {<<w, 0>>} /\ D = {}
  BY <1>2, <1>4 DEF OnePlace, NoneTwice, KindsApart
<1>5. ASSUME t \in done
      PROVE  Q = {} /\ W = {} /\ D = {<<0, 0>>}
  BY <1>2, <1>5 DEF OnePlace, KindsApart
<1>6. Somewhere(t)
  BY DEF OnePlace
<1> HIDE DEF Q, W, D
<1>7. \E p : Places(t) = {p}
  BY Zenon, <1>1, <1>3, <1>4, <1>5, <1>6 DEF Somewhere
<1> QED
  BY Zenon, <1>7, FS_Singleton

\* Whatever the workers and the tasks are, a task that was appended waits in one
\* queue, is run by one worker or is done, and only one of these.
THEOREM RunOnce == Spec => []ExactlyOnce
<1>1. Init => OnePlace
  BY DEF Init, OnePlace, OnlyAppended, NoneTwice, KindsApart
<1>2. ASSUME IInv, OnePlace, [Next]_vars PROVE OnePlace'
  BY <1>2, PlaceStep DEF IInv
<1>3. IInv /\ OnePlace => ExactlyOnce
  BY PlacesSingle DEF IInv, ExactlyOnce
<1> QED
  BY <1>1, <1>2, <1>3, Invariance, PTL DEF Spec
=============================================================================
