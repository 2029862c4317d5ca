----------------------------- MODULE MinHeapTimer -----------------------------
(***************************************************************************)
(* MinHeapTimer: a binary heap of entries and a map from descriptors to    *)
(* positions.  Only the thread of the event loop calls it; what moves      *)
(* between its steps is the clock, which an administrator or NTP may also  *)
(* set back (high_resolution_clock is the system clock).                   *)
(***************************************************************************)
EXTENDS Integers, Sequences

CONSTANTS
  Fds,
  Timeout,     \* the one timeout of every call, timeout_ms_, in units of the clock
  Msec,        \* units of the clock per millisecond
  MaxTime,     \* bound: the clock stops here
  MaxSetBacks  \* bound: how often the clock is set back

ASSUME TimerAssumption ==
  /\ Timeout \in Nat \ {0} /\ Msec \in Nat \ {0}
  /\ MaxTime \in Nat /\ MaxSetBacks \in Nat

VARIABLES
  now,       \* the clock
  setBacks,
  heap_,     \* index i of the vector is position i + 1 of the sequence
  refs_,     \* from descriptors to indices
  sane,      \* memory is intact: SwapItem_ has not been called out of range
  pc,        \* rest (between calls), sweep (ManageStaleItem_), measure (GetNextTick)
  timeMS     \* what GetNextTick returned last

timerVars == <<heap_, refs_, sane>>
vars == <<now, setBacks, timerVars, pc, timeMS>>

Init ==
  /\ now = 0 /\ setBacks = 0
  /\ heap_ = <<>> /\ refs_ = <<>> /\ sane = TRUE
  /\ pc = "rest" /\ timeMS = -1

(***************************************************************************)
(* The heap.  A timer is a record of heap_, refs_ and sane.                *)
(***************************************************************************)
Here == [heap |-> heap_, refs |-> refs_, sane |-> sane]

Size(t)      == Len(t.heap)
Item(t, i)   == t.heap[i + 1]
Less(t, i, j) == Item(t, i).ts_remaining < Item(t, j).ts_remaining

Moved(t, i, j) ==
  [t.heap EXCEPT ![i + 1] = Item(t, j), ![j + 1] = Item(t, i)]

\* Mutant: the map is updated for one of the two.
MutSwapItem_(t, i, j) ==
  [t EXCEPT !.heap = Moved(t, i, j), !.refs = [@ EXCEPT ![Item(t, j).item_id] = i]]

SwapItem_(t, i, j) ==
  [t EXCEPT !.heap = Moved(t, i, j),
            !.refs = [@ EXCEPT ![Item(t, j).item_id] = i, ![Item(t, i).item_id] = j]]

\* The loop of SiftDown_: the timer and the index of the entry that sinks, and what one
\* more turn makes of them.
Child(t, parent, end) ==
  LET c == 2 * parent + 1 IN
  IF c + 1 < end /\ Less(t, c + 1, c) THEN c + 1 ELSE c

Sink(x, end) ==
  LET child == Child(x.timer, x.at, end) IN
  IF child >= end \/ Less(x.timer, x.at, child) THEN x
  ELSE [timer |-> SwapItem_(x.timer, x.at, child), at |-> child]

\* The index grows, so that end turns are enough.
SiftDown_(t, idx, end) ==
  LET turn[n \in 0..end] ==
        IF n = 0 THEN [timer |-> t, at |-> idx] ELSE Sink(turn[n - 1], end)
  IN turn[end]

\* The loop of SiftUp_.
Parent(i) == (i - 1) \div 2

Rise(x) ==
  IF x.at = 0 \/ Less(x.timer, Parent(x.at), x.at) THEN x
  ELSE [timer |-> SwapItem_(x.timer, Parent(x.at), x.at), at |-> Parent(x.at)]

Risen(t, idx) ==
  LET turn[n \in 0..idx] == IF n = 0 THEN [timer |-> t, at |-> idx] ELSE Rise(turn[n - 1])
  IN turn[idx]

\* At index 0 the parent is (size_t)(0 - 1) / 2, and heap_[parent] lies in front of
\* the array.  What is there compares as earlier, which ends the loop, or does not,
\* and SwapItem_ then exchanges the root with it.
SiftUp_(t, idx, earlier) ==
  LET x == Risen(t, idx) IN
  IF x.at = 0 THEN [x.timer EXCEPT !.sane = earlier] ELSE x.timer

\* if (!SiftDown_(idx, end)) SiftUp_(idx)
Settle(t, idx, end, earlier) ==
  LET x == SiftDown_(t, idx, end) IN
  IF x.at > idx THEN x.timer ELSE SiftUp_(x.timer, idx, earlier)

PopBack(t) ==
  LET last == Item(t, Size(t) - 1).item_id IN
  [t EXCEPT !.heap = SubSeq(@, 1, Size(t) - 1),
            !.refs = [f \in DOMAIN @ \ {last} |-> @[f]]]

RemoveItem_(t, i, earlier) ==
  LET end == Size(t) - 1 IN
  IF i < end THEN PopBack(Settle(SwapItem_(t, i, end), i, end, earlier)) ELSE PopBack(t)

\* The entry of a descriptor that has one, with a new time.
Retimed(t, fd) ==
  [t EXCEPT !.heap[t.refs[fd] + 1].ts_remaining = now + Timeout]

\* The entry of a descriptor that has none, at the end of the vector.
Pushed(t, fd) ==
  [t EXCEPT !.heap = Append(@, [item_id |-> fd, ts_remaining |-> now + Timeout]),
            !.refs = [f \in DOMAIN @ \cup {fd} |-> IF f = fd THEN Size(t) ELSE @[f]]]

Becomes(t) == heap_' = t.heap /\ refs_' = t.refs /\ sane' = t.sane

-----------------------------------------------------------------------------
(* The calls.                                                              *)

\* AddClient_: a descriptor may still have the entry of an earlier client.
AddItem(fd, earlier) ==
  /\ pc = "rest"
  /\ IF fd \notin DOMAIN refs_
       THEN Becomes(SiftUp_(Pushed(Here, fd), Len(heap_), earlier))
       ELSE Becomes(Settle(Retimed(Here, fd), refs_[fd], Len(heap_), earlier))
  /\ UNCHANGED <<now, setBacks, pc, timeMS>>

\* Mutant: UpdateItem does not restore the order.
MutResettled(t, fd) == t

Resettled(t, fd) == SiftDown_(t, t.refs[fd], Size(t)).timer

\* ExtentTime_.  The entry is only ever moved down.
UpdateItem(fd) ==
  /\ pc = "rest"
  /\ fd \in DOMAIN refs_
  /\ Becomes(Resettled(Retimed(Here, fd), fd))
  /\ UNCHANGED <<now, setBacks, pc, timeMS>>

DoWork(fd, earlier) ==
  /\ pc = "rest"
  /\ fd \in DOMAIN refs_
  /\ Becomes(RemoveItem_(Here, refs_[fd], earlier))
  /\ UNCHANGED <<now, setBacks, pc, timeMS>>

Clear ==
  /\ pc = "rest"
  /\ heap_' = <<>> /\ refs_' = <<>>
  /\ UNCHANGED <<now, setBacks, sane, pc, timeMS>>

\* duration_cast to milliseconds.
InMsec(d) == IF d >= 0 THEN d \div Msec ELSE -((-d) \div Msec)
FrontMsec == InMsec(Item(Here, 0).ts_remaining - now)

FrontStale == FrontMsec <= 0

GetNextTick ==
  /\ pc = "rest" /\ pc' = "sweep"
  /\ UNCHANGED <<now, setBacks, timerVars, timeMS>>

\* One turn of the loop: the clock is read, the callback is called, the entry removed.
ManageStaleItem_(earlier) ==
  /\ pc = "sweep"
  /\ heap_ # <<>> /\ FrontStale
  /\ Becomes(RemoveItem_(Here, 0, earlier))
  /\ UNCHANGED <<now, setBacks, pc, timeMS>>

StaleItemsDone ==
  /\ pc = "sweep" /\ pc' = "measure"
  /\ heap_ # <<>> => ~FrontStale
  /\ UNCHANGED <<now, setBacks, timerVars, timeMS>>

\* The clock is read once more; res < 0 on a size_t never holds, so that the result
\* is negative when an entry has come due meanwhile.
Measure ==
  /\ pc = "measure" /\ pc' = "rest"
  /\ timeMS' = IF heap_ = <<>> THEN -1 ELSE FrontMsec
  /\ UNCHANGED <<now, setBacks, timerVars>>

Tick ==
  /\ now < MaxTime /\ now' = now + 1
  /\ UNCHANGED <<setBacks, timerVars, pc, timeMS>>

SetBack ==
  /\ setBacks < MaxSetBacks /\ setBacks' = setBacks + 1
  /\ now' \in 0..(now - 1)
  /\ UNCHANGED <<timerVars, pc, timeMS>>

Next ==
  /\ sane
  /\ \/ \E fd \in Fds, earlier \in BOOLEAN : AddItem(fd, earlier) \/ DoWork(fd, earlier)
     \/ \E fd \in Fds : UpdateItem(fd)
     \/ \E earlier \in BOOLEAN : ManageStaleItem_(earlier)
     \/ Clear \/ GetNextTick \/ StaleItemsDone \/ Measure
     \/ Tick \/ SetBack

Spec == Init /\ [][Next]_vars

-----------------------------------------------------------------------------
(* What the timer promises.                                                *)

\* refs_ finds every entry, and every entry once.
RefsExact ==
  /\ \A i \in 0..(Len(heap_) - 1) :
       LET fd == Item(Here, i).item_id IN fd \in DOMAIN refs_ /\ refs_[fd] = i
  /\ \A fd \in DOMAIN refs_ :
       refs_[fd] \in 0..(Len(heap_) - 1) /\ Item(Here, refs_[fd]).item_id = fd

\* No entry is due before its parent, unless the clock was set back.
HeapOrder ==
  setBacks = 0 =>
    \A i \in 1..(Len(heap_) - 1) : ~Less(Here, i, Parent(i))

\* After every call the two structures agree, and the front is the entry that is due
\* first: what SiftUp_, SiftDown_ and SwapItem_ of timer.cpp are for.
WellFormed == sane => RefsExact /\ HeapOrder

Abstract == INSTANCE IdleTimer WITH
  steady <- (setBacks = 0),
  due    <- [fd \in DOMAIN refs_ |-> Item(Here, refs_[fd]).ts_remaining],
  phase  <- pc

\* The heap is an idle timer to its caller: every call touches the entry of its own
\* descriptor, callbacks run when their time has come (to the millisecond) and in the
\* order of their times, none is passed over, and GetNextTick reports the first - up to
\* the moment when memory in front of the vector is exchanged with the root.
TimerSpec == Abstract!Init /\ [][sane' => Abstract!Next]_(Abstract!vars)
=============================================================================
