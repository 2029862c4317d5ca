------------------------------ MODULE ThreadPool ------------------------------
(***************************************************************************)
(* ThreadPool: a queue of tasks under a mutex, a condition variable, the   *)
(* worker threads, AddTask and the destructor.  One step is one locked     *)
(* section or one call of notify_one, notify_all, join or a task.          *)
(***************************************************************************)
EXTENDS Integers, Sequences, FiniteSets

CONSTANTS
  Workers,  \* the threads of workers_
  Task,     \* the function objects the owner may add, each at most once
  NoTask    \* an empty std::function

\* A pool of no threads would run no task.
ASSUME PoolAssumption == IsFiniteSet(Workers) /\ Workers # {} /\ NoTask \notin Task

VARIABLES
  closed,   \* pool_->closed
  tasks,    \* pool_->tasks
  wpc,      \* per worker: lock (about to test the predicate under the mutex),
            \* sleep (blocked in cv.wait), run (in task()), exit (has returned)
  task,     \* per worker: the local task
  opc,      \* the owner: ready, notify (in AddTask, after the unlock), notifyAll and
            \* join (in the destructor), gone
  added,    \* tasks that AddTask has been called with
  finished  \* tasks whose function has returned

vars == <<closed, tasks, wpc, task, opc, added, finished>>

Init ==
  /\ closed = FALSE /\ tasks = <<>>
  /\ wpc = [w \in Workers |-> "lock"]
  /\ task = [w \in Workers |-> NoTask]
  /\ opc = "ready" /\ added = {} /\ finished = {}

Asleep == {w \in Workers : wpc[w] = "sleep"}
Locking == {w \in Workers : wpc[w] = "lock"}

-----------------------------------------------------------------------------
(* The owner.  AddTask is only called by the thread that also destroys the *)
(* pool, so that its unlocked test of closed always passes.                *)

AddTask(t) ==
  /\ opc = "ready" /\ ~closed
  /\ t \notin added
  /\ tasks' = Append(tasks, t)
  /\ added' = added \cup {t}
  /\ opc' = "notify"
  /\ UNCHANGED <<closed, wpc, task, finished>>

\* Mutant: AddTask does not notify.
MutWoken == {}

\* The sleepers that notify_one may wake.
Woken == Asleep

NotifyOne ==
  /\ opc = "notify"
  /\ \/ \E w \in Woken : wpc' = [wpc EXCEPT ![w] = "lock"]
     \/ Woken = {} /\ UNCHANGED wpc
  /\ opc' = "ready"
  /\ UNCHANGED <<closed, tasks, task, added, finished>>

CloseBegin ==
  /\ opc = "ready"
  /\ closed' = TRUE
  /\ opc' = "notifyAll"
  /\ UNCHANGED <<tasks, wpc, task, added, finished>>

\* Mutant: the destructor wakes one worker only.
MutNotified == IF Asleep = {} THEN {} ELSE {CHOOSE w \in Asleep : TRUE}

Notified == Asleep

NotifyAll ==
  /\ opc = "notifyAll"
  /\ wpc' = [w \in Workers |-> IF w \in Notified THEN "lock" ELSE wpc[w]]
  /\ opc' = "join"
  /\ UNCHANGED <<closed, tasks, task, added, finished>>

\* Mutant: the destructor does not join.
MutJoined == TRUE

Joined == \A w \in Workers : wpc[w] = "exit"

Join ==
  /\ opc = "join" /\ Joined
  /\ opc' = "gone"
  /\ UNCHANGED <<closed, tasks, wpc, task, added, finished>>

-----------------------------------------------------------------------------
(* The workers.                                                            *)

MayExit == closed /\ tasks = <<>>

\* The predicate does not hold: cv.wait releases the mutex and blocks.
Sleep(w) ==
  /\ wpc[w] = "lock" /\ ~closed /\ tasks = <<>>
  /\ wpc' = [wpc EXCEPT ![w] = "sleep"]
  /\ UNCHANGED <<closed, tasks, task, opc, added, finished>>

\* cv.wait may return without a notification.
SpuriousWakeup(w) ==
  /\ wpc[w] = "sleep"
  /\ wpc' = [wpc EXCEPT ![w] = "lock"]
  /\ UNCHANGED <<closed, tasks, task, opc, added, finished>>

Exit(w) ==
  /\ wpc[w] = "lock" /\ MayExit
  /\ wpc' = [wpc EXCEPT ![w] = "exit"]
  /\ UNCHANGED <<closed, tasks, task, opc, added, finished>>

TakeTask(w) ==
  /\ wpc[w] = "lock" /\ ~MayExit /\ tasks # <<>>
  /\ task' = [task EXCEPT ![w] = Head(tasks)]
  /\ tasks' = Tail(tasks)
  /\ wpc' = [wpc EXCEPT ![w] = "run"]
  /\ UNCHANGED <<closed, opc, added, finished>>

RunTask(w) ==
  /\ wpc[w] = "run"
  /\ finished' = finished \cup {task[w]}
  /\ task' = [task EXCEPT ![w] = NoTask]
  /\ wpc' = [wpc EXCEPT ![w] = "lock"]
  /\ UNCHANGED <<closed, tasks, opc, added>>

WorkerStep(w) == Sleep(w) \/ Exit(w) \/ TakeTask(w) \/ RunTask(w)

OwnerEnds == NotifyOne \/ NotifyAll \/ Join

Next ==
  \/ \E t \in Task : AddTask(t)
  \/ CloseBegin \/ OwnerEnds
  \/ \E w \in Workers : WorkerStep(w) \/ SpuriousWakeup(w)

Spec == Init /\ [][Next]_vars

\* Every worker keeps running, every task returns, and the owner finishes the
\* call it is in; it need not make another.
FairSpec ==
  /\ Spec
  /\ WF_vars(OwnerEnds)
  /\ \A w \in Workers : WF_vars(WorkerStep(w))

-----------------------------------------------------------------------------
(* What the pool promises.                                                 *)

Owned == {w \in Workers : wpc[w] = "run"}

\* The variables keep their types; a worker holds a task exactly while it runs it.
TypeOK ==
  /\ closed \in BOOLEAN
  /\ tasks \in Seq(Task)
  /\ wpc \in [Workers -> {"lock", "sleep", "run", "exit"}]
  /\ task \in [Workers -> Task \cup {NoTask}]
  /\ \A w \in Workers : (task[w] # NoTask) <=> (wpc[w] = "run")
  /\ opc \in {"ready", "notify", "notifyAll", "join", "gone"}
  /\ closed <=> (opc \in {"notifyAll", "join", "gone"})
  /\ added \subseteq Task /\ finished \subseteq Task

\* One notify_one per task is enough: while a worker sleeps in cv.wait, there are
\* no more queued tasks than workers on their way to the queue, counting the one
\* that AddTask is about to notify.
WorkConserving ==
  Asleep # {} => Len(tasks) <= Cardinality(Locking) + (IF opc = "notify" THEN 1 ELSE 0)

\* The pool implements TaskPool: tasks start in the order of AddTask, each runs
\* once, and none is queued or running when the destructor returns.
Pool == INSTANCE TaskPool WITH
          queue <- tasks, running <- {task[w] : w \in Owned},
          done <- finished, gone <- (opc = "gone")
PoolSpec == Pool!Spec

\* Every task that was added is run in the end, whether or not the pool is
\* destroyed meanwhile.
EveryTaskRuns == \A t \in Task : t \in added ~> t \in finished

\* The destructor returns: no worker sleeps through notify_all.
DestructorReturns == (opc = "notifyAll") ~> (opc = "gone")
=============================================================================
