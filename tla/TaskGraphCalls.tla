---------------------------- MODULE TaskGraphCalls ----------------------------
(***************************************************************************)
(* The calls that a user of TaskGraph makes: AddTask any number of times,  *)
(* InitGraph once, then MarkTaskDone in any order.                         *)
(***************************************************************************)
EXTENDS TaskGraph

CONSTANT MaxNames  \* bound: names of tasks, and of dependencies, which may not exist

VARIABLES
  graph,
  initialized,  \* what InitGraph has returned: no (not called), true, false
  marked        \* the tasks that MarkTaskDone has returned true for

callVars == <<graph, initialized, marked>>

TaskNames == 1..MaxNames

CallInit == graph = EmptyGraph /\ initialized = "no" /\ marked = {}

CallAddTask(name, deps) ==
  /\ initialized = "no"
  /\ graph' = AddTask(graph, name, deps)
  /\ UNCHANGED <<initialized, marked>>

CallInitGraph ==
  /\ initialized = "no"
  /\ IF InitGraphOK(graph)
     THEN initialized' = "true" /\ graph' = InitGraph(graph)
     ELSE initialized' = "false" /\ UNCHANGED graph
  /\ UNCHANGED marked

CallMarkTaskDone(name) ==
  /\ initialized = "true" /\ name \in Tasks(graph)
  /\ graph' = MarkTaskDone(graph, name)
  /\ marked' = IF name \in graph.todo_tasks_ THEN marked \cup {name} ELSE marked
  /\ UNCHANGED initialized

CallNext ==
  \/ \E name \in TaskNames, deps \in SUBSET TaskNames : CallAddTask(name, deps)
  \/ CallInitGraph
  \/ \E name \in TaskNames : CallMarkTaskDone(name)

CallSpec == CallInit /\ [][CallNext]_callVars

-----------------------------------------------------------------------------
\* The tasks can be put in an order in which every task follows its dependencies.
Schedulable ==
  \E rank \in [Tasks(graph) -> TaskNames] :
    \A t \in Tasks(graph) : \A d \in graph.deps[t] : d \in Tasks(graph) /\ rank[d] < rank[t]

\* InitGraph accepts a graph if and only if its tasks can be ordered.
InitGraphExact == initialized # "no" => (initialized = "true" <=> Schedulable)

\* The tasks to do are those that are not done and whose dependencies are, and the
\* remaining out_degree counts the dependencies that are not: whatever MarkTaskDone
\* is called with, in whatever order, a task starts neither too early nor twice.
TodoExact ==
  initialized = "true" =>
    /\ graph.todo_tasks_ = {t \in Tasks(graph) \ marked : graph.deps[t] \subseteq marked}
    /\ \A t \in Tasks(graph) : graph.out_degree[t] = Cardinality(graph.deps[t] \ marked)
=============================================================================
