------------------------------- MODULE TaskPool -------------------------------
(***************************************************************************)
(* What ThreadPool promises to the thread that owns it: every task that is *)
(* added is run once, tasks start in the order in which they were added,   *)
(* and when the destructor returns no task is left.                        *)
(***************************************************************************)
EXTENDS Sequences

CONSTANT Task

VARIABLES
  queue,    \* tasks added and not yet started
  running,  \* tasks started and not yet finished
  done,     \* tasks that have finished
  gone      \* the destructor has returned

vars == <<queue, running, done, gone>>

Init == queue = <<>> /\ running = {} /\ done = {} /\ gone = FALSE

Add(t) ==
  /\ ~gone
  /\ queue' = Append(queue, t)
  /\ UNCHANGED <<running, done, gone>>

Start ==
  /\ queue # <<>>
  /\ running' = running \cup {Head(queue)}
  /\ queue' = Tail(queue)
  /\ UNCHANGED <<done, gone>>

Finish(t) ==
  /\ t \in running
  /\ running' = running \ {t}
  /\ done' = done \cup {t}
  /\ UNCHANGED <<queue, gone>>

Destroy ==
  /\ queue = <<>> /\ running = {}
  /\ gone' = TRUE
  /\ UNCHANGED <<queue, running, done>>

Next ==
  \/ \E t \in Task : Add(t) \/ Finish(t)
  \/ Start \/ Destroy

Spec == Init /\ [][Next]_vars
=============================================================================
