--------------------------- MODULE ThreadPool_proofs ---------------------------
(***************************************************************************)
(* Proofs about ThreadPool for every set of workers and tasks.             *)
(***************************************************************************)
EXTENDS ThreadPool, FiniteSetTheorems, SequenceTheorems, TLAPS

\* A task that was added is in one place: at one position of the queue, with one
\* worker, or finished.
EachOnce ==
  /\ \A i, j \in 1..Len(tasks) : tasks[i] = tasks[j] => i = j
  /\ \A i \in 1..Len(tasks) :
       /\ tasks[i] \in added /\ tasks[i] \notin finished
       /\ \A w \in Workers : task[w] # tasks[i]
  /\ \A w \in Owned : task[w] \in added /\ task[w] \notin finished
  /\ \A u, w \in Owned : task[u] = task[w] => u = w
  /\ finished \subseteq added

LEMMA InitType == Init => TypeOK
<1>1. SUFFICES ASSUME Init PROVE TypeOK
  OBVIOUS
<1>2. tasks \in Seq(Task)
  BY <1>1 DEF Init
<1>3. /\ wpc \in [Workers -> {"lock", "sleep", "run", "exit"}]
      /\ task \in [Workers -> Task \cup {NoTask}]
      /\ \A w \in Workers : (task[w] # NoTask) <=> (wpc[w] = "run")
  BY <1>1 DEF Init
<1>. QED  BY <1>1, <1>2, <1>3 DEF Init, TypeOK

LEMMA TypeStep ==
  ASSUME TypeOK, [Next]_vars PROVE TypeOK'
<1>. USE PoolAssumption DEF TypeOK
<1>1. ASSUME NEW t \in Task, AddTask(t) PROVE TypeOK'
  BY <1>1 DEF AddTask
<1>2. CASE CloseBegin
  BY <1>2 DEF CloseBegin
<1>3. CASE OwnerEnds
  BY <1>3 DEF OwnerEnds, NotifyOne, NotifyAll, Join, Woken, Notified, Asleep
<1>4. ASSUME NEW w \in Workers, Sleep(w) \/ SpuriousWakeup(w) \/ Exit(w) PROVE TypeOK'
  BY <1>4 DEF Sleep, SpuriousWakeup, Exit
<1>5. ASSUME NEW w \in Workers, TakeTask(w) PROVE TypeOK'
  <2>1. Head(tasks) \in Task /\ Tail(tasks) \in Seq(Task)
    BY <1>5, HeadTailProperties DEF TakeTask
  <2>. QED  BY <1>5, <2>1 DEF TakeTask
<1>6. ASSUME NEW w \in Workers, RunTask(w) PROVE TypeOK'
  BY <1>6 DEF RunTask
<1>7. CASE UNCHANGED vars
  BY <1>7 DEF vars
<1>. QED
  BY <1>1, <1>2, <1>3, <1>4, <1>5, <1>6, <1>7 DEF Next, WorkerStep

\* Every variable keeps its type.
THEOREM TypeCorrect == Spec => []TypeOK
  BY InitType, TypeStep, PTL DEF Spec

\* A worker that leaves its loop leaves no task behind, and the pool is not left
\* while a worker may still use it.
NothingLeft ==
  /\ (\E w \in Workers : wpc[w] = "exit") => closed /\ tasks = <<>>
  /\ opc = "gone" => \A w \in Workers : wpc[w] = "exit"

\* A worker returns only from a closed and empty pool, and the destructor only
\* after every worker.
LEMMA NothingLeftStep ==
  ASSUME TypeOK, NothingLeft, [Next]_vars PROVE NothingLeft'
<1>. USE DEF NothingLeft, TypeOK
<1>1. ASSUME NEW t \in Task, AddTask(t) PROVE NothingLeft'
  BY <1>1 DEF AddTask
<1>2. CASE CloseBegin
  BY <1>2 DEF CloseBegin
<1>3. CASE OwnerEnds
  BY <1>3 DEF OwnerEnds, NotifyOne, NotifyAll, Join, Woken, Notified, Asleep, Joined
<1>4. ASSUME NEW w \in Workers, Sleep(w) \/ SpuriousWakeup(w) \/ Exit(w) \/ RunTask(w)
      PROVE NothingLeft'
  BY <1>4 DEF Sleep, SpuriousWakeup, Exit, RunTask, MayExit
<1>5. ASSUME NEW w \in Workers, TakeTask(w) PROVE NothingLeft'
  BY <1>5 DEF TakeTask
<1>6. CASE UNCHANGED vars
  BY <1>6 DEF vars
<1>. QED
  BY <1>1, <1>2, <1>3, <1>4, <1>5, <1>6 DEF Next, WorkerStep

\* No worker leaves a task behind, and the destructor waits for all of them.
THEOREM NothingLeftBehind == Spec => []NothingLeft
<1>1. Init => NothingLeft
  BY DEF Init, NothingLeft
<1>. QED
  BY <1>1, NothingLeftStep, TypeCorrect, PTL DEF Spec

LEMMA EachOnceStep ==
  ASSUME TypeOK, EachOnce, [Next]_vars PROVE EachOnce'
<1>. USE PoolAssumption DEF TypeOK, EachOnce, Owned
<1>1. ASSUME NEW t \in Task, AddTask(t) PROVE EachOnce'
  <2>1. /\ Len(tasks') = Len(tasks) + 1 /\ tasks'[Len(tasks) + 1] = t
        /\ \A i \in 1..Len(tasks) : tasks'[i] = tasks[i]
    BY <1>1 DEF AddTask
  <2>2. \A i \in 1..Len(tasks) : tasks[i] # t
    BY <1>1 DEF AddTask
  <2>3. /\ t \notin finished /\ \A w \in Workers : task[w] # t
    BY <1>1 DEF AddTask
  <2>4. UNCHANGED <<task, wpc, finished>> /\ added' = added \cup {t}
    BY <1>1 DEF AddTask
  <2>. QED  BY <2>1, <2>2, <2>3, <2>4
<1>2. ASSUME UNCHANGED <<tasks, task, added, finished>>,
             \A w \in Workers : wpc'[w] = "run" <=> wpc[w] = "run"
      PROVE EachOnce'
  BY <1>2
<1>3. CASE CloseBegin \/ OwnerEnds
  BY <1>2, <1>3 DEF CloseBegin, OwnerEnds, NotifyOne, NotifyAll, Join, Woken, Notified, Asleep
<1>4. ASSUME NEW w \in Workers, Sleep(w) \/ SpuriousWakeup(w) \/ Exit(w) PROVE EachOnce'
  BY <1>2, <1>4 DEF Sleep, SpuriousWakeup, Exit
<1>5. ASSUME NEW w \in Workers, TakeTask(w) PROVE EachOnce'
  <2>1. /\ Head(tasks) = tasks[1] /\ Len(tasks) >= 1
        /\ Len(tasks') = Len(tasks) - 1
        /\ \A i \in 1..Len(tasks') : tasks'[i] = tasks[i + 1]
    BY <1>5, HeadTailProperties DEF TakeTask
  <2>2. task' = [task EXCEPT ![w] = tasks[1]] /\ wpc' = [wpc EXCEPT ![w] = "run"]
        /\ UNCHANGED <<added, finished>>
    BY <1>5, <2>1 DEF TakeTask
  <2>3. \A i \in 1..Len(tasks') : i + 1 \in 1..Len(tasks) /\ tasks'[i] # tasks[1]
    BY <2>1
  <2>4. \A i \in 1..Len(tasks') :
          /\ tasks'[i] \in added' /\ tasks'[i] \notin finished'
          /\ \A u \in Workers : task'[u] # tasks'[i]
    <3>1. ASSUME NEW i \in 1..Len(tasks')
          PROVE  /\ tasks'[i] \in added /\ tasks'[i] \notin finished
                 /\ \A u \in Workers : task[u] # tasks'[i]
      <4>1. i + 1 \in 1..Len(tasks) /\ tasks'[i] = tasks[i + 1]
        BY <2>1, <2>3
      <4>. QED  BY <4>1
    <3>2. \A u \in Workers : task'[u] = task[u] \/ task'[u] = tasks[1]
      BY <2>2
    <3>. QED  BY <2>2, <2>3, <3>1, <3>2
  <2>5. \A i, j \in 1..Len(tasks') : tasks'[i] = tasks'[j] => i = j
    BY <2>1, <2>3
  <2>6. \A u \in Owned' : \/ u = w /\ task'[u] = tasks[1]
                          \/ u # w /\ u \in Owned /\ task'[u] = task[u]
    BY <2>2
  <2>7. tasks[1] \in added /\ tasks[1] \notin finished /\ \A u \in Workers : task[u] # tasks[1]
    BY <2>1
  <2>8. /\ \A u \in Owned' : task'[u] \in added' /\ task'[u] \notin finished'
        /\ \A u, v \in Owned' : task'[u] = task'[v] => u = v
    <3>1. ASSUME NEW u \in Owned', NEW v \in Owned', task'[u] = task'[v] PROVE u = v
      BY <2>6, <2>7, <3>1
    <3>2. ASSUME NEW u \in Owned' PROVE task'[u] \in added' /\ task'[u] \notin finished'
      BY <2>2, <2>6, <2>7
    <3>. QED  BY <3>1, <3>2
  <2>. QED  BY <2>2, <2>4, <2>5, <2>8
<1>6. ASSUME NEW w \in Workers, RunTask(w) PROVE EachOnce'
  <2>1. /\ task' = [task EXCEPT ![w] = NoTask] /\ wpc' = [wpc EXCEPT ![w] = "lock"]
        /\ finished' = finished \cup {task[w]} /\ UNCHANGED <<tasks, added>>
        /\ w \in Owned
    BY <1>6 DEF RunTask
  <2>2. \A i \in 1..Len(tasks) : tasks[i] # NoTask /\ tasks[i] # task[w]
    OBVIOUS
  <2>3. /\ \A i \in 1..Len(tasks') :
             /\ tasks'[i] \in added' /\ tasks'[i] \notin finished'
             /\ \A u \in Workers : task'[u] # tasks'[i]
    BY <2>1, <2>2
  <2>4. /\ \A u \in Owned' : task'[u] \in added' /\ task'[u] \notin finished'
        /\ \A u, v \in Owned' : task'[u] = task'[v] => u = v
    <3>1. \A u \in Owned' : u # w /\ u \in Owned /\ task'[u] = task[u] /\ task[u] # task[w]
      BY <2>1
    <3>. QED  BY <2>1, <3>1
  <2>5. finished' \subseteq added'
    BY <2>1
  <2>6. \A i, j \in 1..Len(tasks') : tasks'[i] = tasks'[j] => i = j
    BY <2>1
  <2>. QED  BY <2>3, <2>4, <2>5, <2>6
<1>7. CASE UNCHANGED vars
  BY <1>2, <1>7 DEF vars
<1>. QED
  BY <1>1, <1>3, <1>4, <1>5, <1>6, <1>7 DEF Next, WorkerStep

LEMMA EachOnceAlways == Spec => []EachOnce
<1>1. Init => EachOnce
  BY DEF Init, EachOnce, Owned
<1>. QED
  BY <1>1, EachOnceStep, TypeCorrect, PTL DEF Spec

-----------------------------------------------------------------------------
(* No queued task is left to sleeping workers.                             *)

LEMMA SetsFinite ==
  ASSUME TypeOK
  PROVE  /\ IsFiniteSet(Locking) /\ Cardinality(Locking) \in Nat
         /\ IsFiniteSet(Locking') /\ Cardinality(Locking') \in Nat
<1>1. Locking \subseteq Workers /\ Locking' \subseteq Workers
  BY DEF Locking
<1>. QED  BY <1>1, PoolAssumption, FS_Subset, FS_CardinalityType

LEMMA WorkConservingStep ==
  ASSUME TypeOK, NothingLeft, WorkConserving, [Next]_vars PROVE WorkConserving'
<1>. DEFINE due == IF opc = "notify" THEN 1 ELSE 0
<1>1. /\ IsFiniteSet(Locking) /\ Cardinality(Locking) \in Nat
      /\ IsFiniteSet(Locking') /\ Cardinality(Locking') \in Nat
      /\ Len(tasks) \in Nat
  BY SetsFinite DEF TypeOK
<1>3. ASSUME NEW t \in Task, AddTask(t) PROVE WorkConserving'
  <2>1. /\ Len(tasks') = Len(tasks) + 1 /\ due = 0 /\ due' = 1
        /\ Locking' = Locking /\ Asleep' = Asleep
    BY <1>3 DEF AddTask, TypeOK, Locking, Asleep
  <2>. QED  BY <1>1, <2>1 DEF WorkConserving
<1>4. CASE NotifyOne
  <2>1. CASE Woken = {} /\ UNCHANGED wpc
    <3>1. Asleep' = {}
      BY <2>1 DEF Woken, Asleep
    <3>. QED  BY <3>1 DEF WorkConserving
  <2>2. ASSUME NEW w \in Woken, wpc' = [wpc EXCEPT ![w] = "lock"] PROVE WorkConserving'
    <3>1. w \in Workers /\ w \notin Locking /\ Locking' = Locking \cup {w} /\ w \in Asleep
      BY <2>2 DEF Woken, Asleep, Locking, TypeOK
    <3>2. tasks' = tasks /\ due = 1 /\ due' = 0
      BY <1>4 DEF NotifyOne
    <3>3. Cardinality(Locking') = Cardinality(Locking) + 1
      BY <1>1, <3>1, FS_AddElement
    <3>4. Len(tasks) <= Cardinality(Locking) + 1
      BY <3>1, <3>2 DEF WorkConserving
    <3>. QED  BY <1>1, <3>2, <3>3, <3>4 DEF WorkConserving
  <2>. QED  BY <1>4, <2>1, <2>2 DEF NotifyOne
<1>5. CASE NotifyAll
  <2>1. Asleep' = {}
    BY <1>5 DEF NotifyAll, Notified, Asleep, TypeOK
  <2>. QED  BY <2>1 DEF WorkConserving
<1>6. CASE CloseBegin \/ Join
  <2>1. UNCHANGED <<tasks, wpc>> /\ due = 0 /\ due' = 0
    BY <1>6 DEF CloseBegin, Join
  <2>. QED  BY <2>1 DEF WorkConserving, Asleep, Locking
<1>7. ASSUME NEW w \in Workers, Sleep(w) PROVE WorkConserving'
  <2>1. tasks' = <<>> /\ due' \in {0, 1}
    BY <1>7 DEF Sleep
  <2>. QED  BY <1>1, <2>1 DEF WorkConserving
<1>8. ASSUME NEW w \in Workers, SpuriousWakeup(w) \/ RunTask(w) PROVE WorkConserving'
  <2>1. /\ w \notin Locking /\ Locking' = Locking \cup {w}
        /\ tasks' = tasks /\ opc' = opc /\ Asleep' \subseteq Asleep
    BY <1>8 DEF SpuriousWakeup, RunTask, Asleep, Locking, TypeOK
  <2>2. Cardinality(Locking') = Cardinality(Locking) + 1
    BY <1>1, <2>1, FS_AddElement
  <2>. QED  BY <1>1, <2>1, <2>2 DEF WorkConserving
<1>9. ASSUME NEW w \in Workers, Exit(w) PROVE WorkConserving'
  <2>1. tasks' = <<>> /\ due' \in {0, 1}
    BY <1>9 DEF Exit, MayExit
  <2>. QED  BY <1>1, <2>1 DEF WorkConserving
<1>10. ASSUME NEW w \in Workers, TakeTask(w) PROVE WorkConserving'
  <2>1. /\ w \in Locking /\ Locking' = Locking \ {w} /\ opc' = opc /\ Asleep' = Asleep
    BY <1>10 DEF TakeTask, Asleep, Locking, TypeOK
  <2>2. Len(tasks') = Len(tasks) - 1
    BY <1>10, HeadTailProperties DEF TakeTask, TypeOK
  <2>3. Cardinality(Locking') = Cardinality(Locking) - 1
    BY <1>1, <2>1, FS_RemoveElement
  <2>. QED  BY <1>1, <2>1, <2>2, <2>3 DEF WorkConserving
<1>11. CASE UNCHANGED vars
  BY <1>11 DEF vars, WorkConserving, Asleep, Locking
<1>. QED
  BY <1>3, <1>4, <1>5, <1>6, <1>7, <1>8, <1>9, <1>10, <1>11
  DEF Next, WorkerStep, OwnerEnds

\* While a worker sleeps there are no more queued tasks than workers about to fetch
\* one: the single notify_one of AddTask never strands a task.
THEOREM WorkIsConserved == Spec => []WorkConserving
<1>1. Init => WorkConserving
  BY DEF Init, WorkConserving, Asleep
<1>. QED
  BY <1>1, WorkConservingStep, TypeCorrect, NothingLeftBehind, PTL DEF Spec

-----------------------------------------------------------------------------
(* ThreadPool implements TaskPool.                                         *)

LEMMA PoolInit == Init => Pool!Init
  BY DEF Init, Pool!Init, Owned

LEMMA PoolStep ==
  ASSUME TypeOK, NothingLeft, EachOnce, [Next]_vars PROVE [Pool!Next]_(Pool!vars)
<1>. USE PoolAssumption DEF TypeOK
<1>. DEFINE running == {task[w] : w \in Owned}
<1>1. ASSUME UNCHANGED <<tasks, task, finished>>,
             \A w \in Workers : wpc'[w] = "run" <=> wpc[w] = "run",
             (opc' = "gone") <=> (opc = "gone")
      PROVE UNCHANGED Pool!vars
  BY <1>1 DEF Pool!vars, Owned
<1>2. ASSUME NEW t \in Task, AddTask(t) PROVE Pool!Add(t)
  BY <1>2 DEF AddTask, Pool!Add, Owned
<1>3. ASSUME CloseBegin \/ NotifyOne \/ NotifyAll PROVE UNCHANGED Pool!vars
  BY <1>1, <1>3 DEF CloseBegin, NotifyOne, NotifyAll, Woken, Notified, Asleep
<1>4. ASSUME Join PROVE Pool!Destroy
  <2>1. Owned = {} /\ Owned' = {}
    BY <1>4 DEF Join, Joined, Owned
  <2>2. tasks = <<>>
    BY <1>4 DEF Join, Joined, NothingLeft
  <2>3. Pool!Destroy
    BY <1>4, <2>1, <2>2 DEF Join, Pool!Destroy
  <2>. QED  BY <2>3
<1>5. ASSUME NEW w \in Workers, Sleep(w) \/ SpuriousWakeup(w) \/ Exit(w)
      PROVE UNCHANGED Pool!vars
  BY <1>1, <1>5 DEF Sleep, SpuriousWakeup, Exit
<1>6. ASSUME NEW w \in Workers, TakeTask(w) PROVE Pool!Start
  <2>1. Owned' = Owned \cup {w} /\ w \notin Owned
    BY <1>6 DEF TakeTask, Owned
  <2>2. running' = running \cup {Head(tasks)}
    BY <1>6, <2>1 DEF TakeTask, Owned
  <2>. QED  BY <1>6, <2>2 DEF TakeTask, Pool!Start
<1>7. ASSUME NEW w \in Workers, RunTask(w), NEW t \in Task, t = task[w]
      PROVE Pool!Finish(t)
  <2>1. Owned' = Owned \ {w} /\ w \in Owned
    BY <1>7 DEF RunTask, Owned
  <2>2. running' = running \ {t}
    BY <1>7, <2>1 DEF RunTask, EachOnce, Owned
  <2>. QED  BY <1>7, <2>1, <2>2 DEF RunTask, Pool!Finish, Owned
<1>8. ASSUME UNCHANGED vars PROVE UNCHANGED Pool!vars
  BY <1>1, <1>8 DEF vars
<1>. HIDE DEF TypeOK
<1>9. ASSUME NEW w \in Workers, WorkerStep(w) \/ SpuriousWakeup(w)
      PROVE Pool!Next \/ UNCHANGED Pool!vars
  <2>1. CASE Sleep(w) \/ SpuriousWakeup(w) \/ Exit(w)
    BY <1>5, <2>1
  <2>2. CASE TakeTask(w)
    BY <1>6, <2>2 DEF Pool!Next
  <2>3. CASE RunTask(w)
    <3>1. PICK t \in Task : t = task[w]
      BY <2>3 DEF RunTask, TypeOK
    <3>2. Pool!Finish(t)
      BY <1>7, <2>3, <3>1
    <3>. QED  BY <3>2 DEF Pool!Next
  <2>. QED  BY <1>9, <2>1, <2>2, <2>3 DEF WorkerStep
<1>10. ASSUME CloseBegin \/ OwnerEnds PROVE Pool!Next \/ UNCHANGED Pool!vars
  BY <1>3, <1>4, <1>10 DEF OwnerEnds, Pool!Next
<1>11. ASSUME NEW t \in Task, AddTask(t) PROVE Pool!Next
  BY <1>2, <1>11 DEF Pool!Next
<1>12. CASE Next
  BY <1>9, <1>10, <1>11, <1>12 DEF Next
<1>. QED  BY <1>8, <1>12

\* Every step of the pool is a step of TaskPool or none: tasks start in the order of
\* AddTask, each runs once, and none is left when the destructor returns.
THEOREM PoolImplemented == Spec => PoolSpec
  BY PoolInit, PoolStep, TypeCorrect, NothingLeftBehind, EachOnceAlways, PTL
  DEF Spec, PoolSpec, Pool!Spec
=============================================================================
