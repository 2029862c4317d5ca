------------------------------ MODULE IdleTimer ------------------------------
(***************************************************************************)
(* What the event loop counts on of a timer: an entry per descriptor with  *)
(* a point in time, ended when that point has come and not before.         *)
(* MinHeapTimer implements it.                                             *)
(***************************************************************************)
EXTENDS Integers

CONSTANTS
  Fds,
  Timeout,   \* timeout_ms_, in units of the clock
  Msec       \* units of the clock per millisecond

VARIABLES
  now,       \* the clock
  steady,    \* the clock has never been set back
  due,       \* the descriptors with an entry, and when each is due
  phase,     \* rest, sweep (entries that are due are being ended), measure
  timeMS     \* the last result of GetNextTick

vars == <<now, steady, due, phase, timeMS>>

Init ==
  /\ now = 0 /\ steady = TRUE /\ due = <<>>
  /\ phase = "rest" /\ timeMS = -1

\* Durations are cut to whole milliseconds, toward zero.
InMsec(d) == IF d >= 0 THEN d \div Msec ELSE -((-d) \div Msec)

\* Due as far as a clock in milliseconds can tell.
Stale(f) == InMsec(due[f] - now) <= 0

First(f) == \A g \in DOMAIN due : due[f] <= due[g]

Clock ==
  /\ now' # now
  /\ steady' = (steady /\ now' > now)
  /\ UNCHANGED <<due, phase, timeMS>>

\* A new entry, or a new time for an old one.
Set(f) ==
  /\ phase = "rest"
  /\ due' = [g \in DOMAIN due \cup {f} |-> IF g = f THEN now + Timeout ELSE due[g]]
  /\ UNCHANGED <<now, steady, phase, timeMS>>

Without(f) == [g \in DOMAIN due \ {f} |-> due[g]]

\* An entry is ended on request,
Drop(f) ==
  /\ phase = "rest" /\ f \in DOMAIN due
  /\ due' = Without(f)
  /\ UNCHANGED <<now, steady, phase, timeMS>>

DropAll ==
  /\ phase = "rest" /\ due' = <<>>
  /\ UNCHANGED <<now, steady, phase, timeMS>>

\* or because it is due, the first one first.
End(f) ==
  /\ phase = "sweep" /\ f \in DOMAIN due
  /\ Stale(f) /\ (steady => First(f))
  /\ due' = Without(f)
  /\ UNCHANGED <<now, steady, phase, timeMS>>

Sweep ==
  /\ phase = "rest" /\ phase' = "sweep"
  /\ UNCHANGED <<now, steady, due, timeMS>>

\* No entry that is due is passed over.
Swept ==
  /\ phase = "sweep" /\ phase' = "measure"
  /\ steady => \A f \in DOMAIN due : ~Stale(f)
  /\ UNCHANGED <<now, steady, due, timeMS>>

\* How long the caller may sleep: until the first entry is due.
Measure ==
  /\ phase = "measure" /\ phase' = "rest"
  /\ \/ due = <<>> /\ timeMS' = -1
     \/ \E f \in DOMAIN due : (steady => First(f)) /\ timeMS' = InMsec(due[f] - now)
  /\ UNCHANGED <<now, steady, due>>

Next ==
  \/ Clock \/ Sweep \/ Swept \/ Measure \/ DropAll
  \/ \E f \in Fds : Set(f) \/ Drop(f) \/ End(f)

Spec == Init /\ [][Next]_vars
=============================================================================
