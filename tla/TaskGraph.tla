------------------------------ MODULE TaskGraph ------------------------------
(***************************************************************************)
(* TaskGraph: tasks with dependencies, as operators on a record that holds *)
(* what graph_ and todo_tasks_ hold.  A graph maps each task it contains   *)
(* to the set of its dependencies (out_edges); in_edges is its converse.   *)
(* Task names are numbers, in the order of the std::map.                   *)
(***************************************************************************)
EXTENDS Integers, FiniteSets, Sequences, SequencesExt

EmptyGraph == [deps |-> <<>>, out_degree |-> <<>>, todo_tasks_ |-> {}]

Tasks(g) == DOMAIN g.deps

\* A task that exists is not replaced.
AddTask(g, name, deps) ==
  IF name \in Tasks(g) THEN g
  ELSE [g EXCEPT
          !.deps = [t \in Tasks(g) \cup {name} |-> IF t = name THEN deps ELSE g.deps[t]],
          !.out_degree = [t \in Tasks(g) \cup {name} |->
                            IF t = name THEN Cardinality(deps) ELSE g.out_degree[t]]]

InEdges(g, name) == {t \in Tasks(g) : name \in g.deps[t]}

\* out_degree after name has been taken away from the dependencies.
Decremented(g, out_degree, name) ==
  [t \in Tasks(g) |-> IF t \in InEdges(g, name) THEN out_degree[t] - 1 ELSE out_degree[t]]

\* The tasks whose out_degree becomes 0 by that.
Freed(g, out_degree, name) == {t \in InEdges(g, name) : out_degree[t] = 1}

DepsExist(g) == \A t \in Tasks(g) : g.deps[t] \subseteq Tasks(g)

WithoutDeps(g) == {t \in Tasks(g) : g.out_degree[t] = 0}

\* The names in their order: before the i-th there are i - 1.
Ascending(S) ==
  [i \in 1..Cardinality(S) |-> CHOOSE t \in S : Cardinality({s \in S : s < t}) = i - 1]

\* The loop that looks for a cycle: top_stack (its top is the last element),
\* tmp_out_degrees and top_cnt, before the loop and after one more turn.
Sorting(g) == [stack |-> Ascending(WithoutDeps(g)), tmp |-> g.out_degree, cnt |-> 0]

Turn(g, s) ==
  IF s.stack = <<>> THEN s
  ELSE LET name == Last(s.stack) IN
       [stack |-> Front(s.stack) \o Ascending(Freed(g, s.tmp, name)),
        tmp   |-> Decremented(g, s.tmp, name),
        cnt   |-> s.cnt + 1]

Turns(g) ==
  LET turn[n \in Nat] == IF n = 0 THEN Sorting(g) ELSE Turn(g, turn[n - 1]) IN turn

\* There are at most as many turns as tasks.
TopologicalSort(g) == Turns(g)[Cardinality(Tasks(g)) + 1]

InitGraphOK(g) == DepsExist(g) /\ TopologicalSort(g).cnt = Cardinality(Tasks(g))

InitGraph(g) == [g EXCEPT !.todo_tasks_ = WithoutDeps(g)]

\* Mutant: a task may be executed with the first of its dependencies done.
MutMarkTaskDone(g, name) ==
  IF name \notin g.todo_tasks_ THEN g
  ELSE [g EXCEPT !.todo_tasks_ = (@ \ {name}) \cup InEdges(g, name),
                 !.out_degree = Decremented(g, @, name)]

\* Only a task that may be executed can be marked.
MarkTaskDone(g, name) ==
  IF name \notin g.todo_tasks_ THEN g
  ELSE [g EXCEPT !.todo_tasks_ = (@ \ {name}) \cup Freed(g, g.out_degree, name),
                 !.out_degree = Decremented(g, @, name)]
=============================================================================
