----------------------------- MODULE TaskSchedule -----------------------------
(***************************************************************************)
(* TaskSchedule and its ScheduleUnits: one graph of tasks per unit, every  *)
(* task a child process, at most max_parallel_ at a time.  Run is a single *)
(* thread that reaps children with waitpid, offers its free places to the  *)
(* units and forks; the children end at any time.                          *)
(***************************************************************************)
EXTENDS TaskGraph

CONSTANTS
  Units,         \* the graphs that AddGraph may be called with; numbers, in the order of
                 \* the pointers in all_units_
  max_parallel_,
  Pids,          \* bound: the numbers that fork may give to a child
  PidsFresh,     \* fork gives no number that schedule_infos_ still has
  MaxTasks,      \* bound: tasks of all graphs together
  MaxAttempts    \* bound: max_attempts of a task

ASSUME ScheduleAssumption ==
  /\ Units \subseteq Nat \ {0} /\ IsFiniteSet(Units)
  /\ max_parallel_ \in Nat \ {0} /\ IsFiniteSet(Pids) /\ PidsFresh \in BOOLEAN
  /\ MaxTasks \in Nat /\ MaxAttempts \in Nat

VARIABLES
  graph_,         \* per unit: its graph
  max_attempts,   \* per unit and task
  all_, todo_, doing_, done_, final_fail_, fail_times_,  \* per unit, as in the code
  all_units_,
  left_offer_,
  schedule_infos_, \* <<unit, task>> for the number of every child that is accounted for
  child,          \* per number of a process: its unit, task and state (runs, ok, bad, killed)
  succeeded,      \* per unit: the tasks whose command has ended with status 0
  pc,             \* Run: reap, offer, fork, gone; crashed
  iter,           \* the unit that has been visited last
  to_schedule     \* the tasks of that unit that are still to be forked, in their order

unitVars == <<graph_, all_, todo_, doing_, done_, final_fail_, fail_times_>>
vars == <<unitVars, max_attempts, all_units_, left_offer_, schedule_infos_, child,
          succeeded, pc, iter, to_schedule>>

Names == 1..MaxTasks
Absent == -1   \* no entry in fail_times_

\* The graphs of n tasks that InitGraph accepts, as AddTask builds them.
GraphsOf(n) ==
  {g \in {[deps |-> d, out_degree |-> [t \in 1..n |-> Cardinality(d[t])], todo_tasks_ |-> {}] :
           d \in [1..n -> SUBSET (1..n)]} : InitGraphOK(g)}

\* InitGraph and then AddGraph have been called for some of the graphs.
Init ==
  /\ all_units_ \in SUBSET Units
  /\ \E G \in [Units -> UNION {GraphsOf(n) : n \in 0..MaxTasks}] :
       /\ \A u \in Units \ all_units_ : G[u] = EmptyGraph
       /\ Cardinality(UNION {{u} \X Tasks(G[u]) : u \in Units}) <= MaxTasks
       /\ graph_ = [u \in Units |-> InitGraph(G[u])]
  /\ \E limit \in [Units -> [Names -> 0..MaxAttempts]] :
       max_attempts = [u \in Units |-> [t \in Tasks(graph_[u]) |-> limit[u][t]]]
  /\ all_ = [u \in Units |-> graph_[u].todo_tasks_] /\ todo_ = all_
  /\ doing_ = [u \in Units |-> {}] /\ done_ = doing_
  /\ final_fail_ = [u \in Units |-> FALSE]
  /\ fail_times_ = [u \in Units |-> [t \in Names |-> Absent]]
  /\ left_offer_ = max_parallel_
  /\ schedule_infos_ = <<>> /\ child = <<>>
  /\ succeeded = done_
  /\ pc = "reap" /\ iter = 0 /\ to_schedule = {}

-----------------------------------------------------------------------------
(* ScheduleUnit.                                                           *)

\* Mutant: a task that runs is taken for a new one.
MutNewTasks(u, g) == g.todo_tasks_

NewTasks(u, g) == g.todo_tasks_ \ all_[u]

Success(u, t) ==
  LET g   == MarkTaskDone(graph_[u], t)
      new == NewTasks(u, g)
  IN /\ graph_' = [graph_ EXCEPT ![u] = g]
     /\ doing_' = [doing_ EXCEPT ![u] = @ \ {t}]
     /\ done_' = [done_ EXCEPT ![u] = @ \cup {t}]
     /\ all_' = [all_ EXCEPT ![u] = @ \cup new]
     /\ todo_' = [todo_ EXCEPT ![u] = @ \cup new]
     /\ UNCHANGED <<final_fail_, fail_times_>>

\* The first failure is recorded as 0; later ones are compared before they are counted.
FailCnt(u, t) == IF fail_times_[u][t] = Absent THEN 0 ELSE fail_times_[u][t]

TooMany(u, t) == FailCnt(u, t) >= max_attempts[u][t]

Fail(u, t) ==
  /\ doing_' = [doing_ EXCEPT ![u] = @ \ {t}]
  /\ todo_' = [todo_ EXCEPT ![u] = @ \cup {t}]
  /\ fail_times_' = [fail_times_ EXCEPT ![u][t] = @ + 1]
  /\ final_fail_' = [final_fail_ EXCEPT ![u] = @ \/ TooMany(u, t)]
  /\ UNCHANGED <<graph_, all_, done_>>

\* What Offer returns and takes from todo_: the first left_offer_ tasks.
Offered(u) ==
  IF final_fail_[u] THEN {}
  ELSE {t \in todo_[u] : Cardinality({s \in todo_[u] : s < t}) < left_offer_}

\* Mutants: a unit that has failed for good is kept; it does not wait for its children.
MutDoneKept(todo, doing, failed) == doing = {} /\ todo = {}
MutDone(todo, doing, failed) == (todo = {} /\ doing = {}) \/ failed

Done(todo, doing, failed) == doing = {} /\ (todo = {} \/ failed)

\* After Success or Fail.
CheckUnitStatus(u) ==
  all_units_' = IF Done(todo_'[u], doing_'[u], final_fail_'[u]) THEN all_units_ \ {u}
                ELSE all_units_

-----------------------------------------------------------------------------
(* The children.                                                           *)

ChildEnds(p) ==
  /\ p \in DOMAIN child /\ child[p].state = "runs"
  /\ \E how \in {"ok", "bad", "killed"} :
       /\ child' = [child EXCEPT ![p].state = how]
       /\ succeeded' = IF how # "ok" THEN succeeded
                       ELSE [succeeded EXCEPT ![child[p].unit] = @ \cup {child[p].task}]
  /\ UNCHANGED <<unitVars, max_attempts, all_units_, left_offer_, schedule_infos_, pc,
                 iter, to_schedule>>

-----------------------------------------------------------------------------
(* TaskSchedule::Run.                                                      *)

\* Mutant: the place of a child is not given back.
MutReturned == left_offer_

Returned == left_offer_ + 1

Reaped(p) == pc = "reap" /\ p \in DOMAIN child /\ child' = Restrict(child, DOMAIN child \ {p})

\* waitpid returns a child that has exited.
Reap(p) ==
  LET u == schedule_infos_[p][1]
      t == schedule_infos_[p][2]
  IN /\ Reaped(p) /\ child[p].state \in {"ok", "bad"}
     /\ IF child[p].state = "ok" THEN Success(u, t) ELSE Fail(u, t)
     /\ left_offer_' = Returned
     /\ schedule_infos_' = Restrict(schedule_infos_, DOMAIN schedule_infos_ \ {p})
     /\ CheckUnitStatus(u)
     /\ UNCHANGED <<max_attempts, succeeded, pc, iter, to_schedule>>

\* waitpid returns a child that a signal has ended: nothing is done.
ReapKilled(p) ==
  /\ Reaped(p) /\ child[p].state = "killed"
  /\ UNCHANGED <<unitVars, max_attempts, all_units_, left_offer_, schedule_infos_, succeeded,
                 pc, iter, to_schedule>>

\* waitpid returns 0 or ECHILD.
NoneEnded ==
  /\ pc = "reap"
  /\ \A p \in DOMAIN child : child[p].state = "runs"
  /\ pc' = "offer" /\ iter' = 0
  /\ UNCHANGED <<unitVars, max_attempts, all_units_, left_offer_, schedule_infos_, child,
                 succeeded, to_schedule>>

Unvisited == {u \in all_units_ : u > iter}

Offer(u) ==
  /\ pc = "offer" /\ left_offer_ # 0
  /\ u \in Unvisited /\ \A v \in Unvisited : u <= v
  /\ iter' = u
  /\ to_schedule' = Offered(u)
  /\ todo_' = [todo_ EXCEPT ![u] = @ \ Offered(u)]
  /\ doing_' = [doing_ EXCEPT ![u] = @ \cup Offered(u)]
  /\ left_offer_' = left_offer_ - Cardinality(Offered(u))
  /\ pc' = IF Offered(u) = {} THEN "offer" ELSE "fork"
  /\ UNCHANGED <<graph_, all_, done_, final_fail_, fail_times_, max_attempts, all_units_,
                 schedule_infos_, child, succeeded>>

\* The task that is forked for next, and what is left of to_schedule.
Forks(t) ==
  /\ pc = "fork"
  /\ t \in to_schedule /\ \A s \in to_schedule : t <= s
  /\ to_schedule' = to_schedule \ {t}
  /\ UNCHANGED <<max_attempts, iter, succeeded>>

AfterFork == IF to_schedule' = {} THEN "offer" ELSE "fork"

\* map::insert: an entry that is there stays as it is.
Inserted(f, p, x) == [q \in DOMAIN f \cup {p} |-> IF q \in DOMAIN f THEN f[q] ELSE x]

ForkChild(t) ==
  /\ Forks(t)
  /\ \E p \in Pids \ DOMAIN child :
       /\ PidsFresh => p \notin DOMAIN schedule_infos_
       /\ child' = Inserted(child, p, [unit |-> iter, task |-> t, state |-> "runs"])
       /\ schedule_infos_' = Inserted(schedule_infos_, p, <<iter, t>>)
  /\ pc' = AfterFork
  /\ UNCHANGED <<unitVars, all_units_, left_offer_>>

\* The unit that the loop's iterator stands on may be erased: ++iter is then undefined.
ForkFailure(t) ==
  /\ Forks(t)
  /\ left_offer_' = Returned
  /\ Fail(iter, t)
  /\ CheckUnitStatus(iter)
  /\ pc' = IF iter \notin all_units_' THEN "crashed" ELSE AfterFork
  /\ UNCHANGED <<schedule_infos_, child>>

EndOfRound ==
  /\ pc = "offer" /\ (left_offer_ = 0 \/ Unvisited = {})
  /\ pc' = IF all_units_ = {} THEN "gone" ELSE "reap"
  /\ UNCHANGED <<unitVars, max_attempts, all_units_, left_offer_, schedule_infos_, child,
                 succeeded, iter, to_schedule>>

Run ==
  \/ \E p \in Pids : Reap(p) \/ ReapKilled(p)
  \/ \E u \in Units : Offer(u)
  \/ \E t \in Names : ForkChild(t) \/ ForkFailure(t)
  \/ NoneEnded \/ EndOfRound

Next == Run \/ \E p \in Pids : ChildEnds(p)

Spec == Init /\ [][Next]_vars

\* The scheduler runs and every command ends, by itself or by a signal.
FairSpec ==
  Spec /\ WF_vars(Run) /\ \A p \in Pids : WF_vars(ChildEnds(p))

-----------------------------------------------------------------------------
(* What the scheduler promises.                                            *)

\* all_ = todo_ + doing_ + done_, disjointly: no task of a unit is forgotten, and none
\* runs, or waits, twice.
AllAccounted ==
  \A u \in Units :
    /\ all_[u] = todo_[u] \cup doing_[u] \cup done_[u]
    /\ todo_[u] \cap doing_[u] = {} /\ (todo_[u] \cup doing_[u]) \cap done_[u] = {}

\* todo_tasks_ and out_degree of every graph are in step with the tasks its unit holds for
\* done, in whatever order the children end, fail and are started again; and a graph that
\* InitGraph has accepted is never left with tasks of which none may start.
TodoInStep ==
  \A u \in Units :
    LET g    == graph_[u]
        left == Tasks(g) \ done_[u]
    IN /\ g.todo_tasks_ = {t \in left : g.deps[t] \subseteq done_[u]}
       /\ \A t \in left : g.out_degree[t] = Cardinality(g.deps[t] \ done_[u])
       /\ left # {} => g.todo_tasks_ # {}

\* No more than max_parallel_ places are given out, and every place that is not free
\* belongs to a child that is accounted for or to a task that is about to be forked,
\* through failures of tasks and of fork.
OfferBalanced ==
  /\ left_offer_ >= 0
  /\ left_offer_ + Cardinality(DOMAIN schedule_infos_) + Cardinality(to_schedule) = max_parallel_

\* A task runs only when the commands of all its dependencies have succeeded, only once
\* at a time, and only as part of a unit that still exists.
DepsFirst ==
  /\ \A p \in DOMAIN child :
       LET u == child[p].unit
           t == child[p].task
       IN /\ t \in doing_[u] /\ u \in all_units_
          /\ graph_[u].deps[t] \subseteq succeeded[u]
  /\ \A p, q \in DOMAIN child :
       child[p].unit = child[q].unit /\ child[p].task = child[q].task => p = q

\* A unit is given up only when nothing of it runs, and then all of its tasks have
\* succeeded or one of them has failed for good.
EndsComplete ==
  \A u \in Units \ all_units_ :
    doing_[u] = {} /\ (done_[u] = Tasks(graph_[u]) \/ final_fail_[u])

\* A child that a signal has ended, and that is accounted for as if it still ran.
Lost(p) == p \notin DOMAIN child \/ child[p].state = "killed"

\* Run returns, whichever commands fail, except when a signal has ended a child, a graph
\* has no task, or a failure of fork has removed the unit under the iterator.
RunReturns ==
  <>(\/ pc \in {"gone", "crashed"}
     \/ \E p \in DOMAIN schedule_infos_ : Lost(p)
     \/ \E u \in all_units_ : Tasks(graph_[u]) = {})
=============================================================================
