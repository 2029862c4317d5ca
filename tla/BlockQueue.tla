------------------------------ MODULE BlockQueue ------------------------------
(***************************************************************************)
(* BlockQueue: a bounded queue under a mutex with two condition variables, *)
(* and DestroyQueue.  A step is one locked section or one notify_all.  The *)
(* actions are also those of the queue inside Logger.                      *)
(***************************************************************************)
EXTENDS Integers, Sequences, FiniteSets

CONSTANTS
  Threads,    \* the threads that push and pop
  Items,      \* what they push
  capacity_,
  MaxPushes   \* bound: calls of Push

ASSUME QueueAssumption ==
  IsFiniteSet(Threads) /\ Items # {} /\ capacity_ \in Nat \ {0} /\ MaxPushes \in Nat

VARIABLES
  que_,
  closed_,
  call,       \* per thread: out, or in Push or Pop: pushAsleep and popAsleep (in wait),
              \* pushAwake and popAwake (woken, about to go on)
  item,       \* per thread: the argument of the Push it waits in
  destroying, \* DestroyQueue: no, producers and consumers (unlocked, about to notify
              \* them all), done
  pushes      \* calls of Push so far

vars == <<que_, closed_, call, item, destroying, pushes>>

Init ==
  /\ que_ = <<>> /\ closed_ = FALSE
  /\ call = [t \in Threads |-> "out"]
  /\ item = [t \in Threads |-> CHOOSE x \in Items : TRUE]
  /\ destroying = "no" /\ pushes = 0

Waiting(label) == {t \in Threads : call[t] = label}

Full == Len(que_) >= capacity_

\* notify_one on a condition variable, after the caller's own state has become c.
NotifyOne(c, asleep, awake) ==
  \/ \E u \in Waiting(asleep) : call' = [c EXCEPT ![u] = awake]
  \/ Waiting(asleep) = {} /\ call' = c

\* Mutants: notify_one is forgotten.
MutConsumerNotified(c) == call' = c
MutProducerNotified(c) == call' = c

ConsumerNotified(c) == NotifyOne(c, "popAsleep", "popAwake")
ProducerNotified(c) == NotifyOne(c, "pushAsleep", "pushAwake")

-----------------------------------------------------------------------------

\* The call of Push(x) that t makes or goes on with.
Pushing(t, x) ==
  \/ call[t] = "out" /\ pushes < MaxPushes
  \/ call[t] = "pushAwake" /\ x = item[t]

\* Push tests only the capacity, not closed_.
Push(t, x) ==
  /\ Pushing(t, x)
  /\ pushes' = IF call[t] = "out" THEN pushes + 1 ELSE pushes
  /\ IF Full THEN /\ call' = [call EXCEPT ![t] = "pushAsleep"]
                  /\ item' = [item EXCEPT ![t] = x]
                  /\ UNCHANGED que_
             ELSE /\ que_' = Append(que_, x)
                  /\ ConsumerNotified([call EXCEPT ![t] = "out"])
                  /\ UNCHANGED item
  /\ UNCHANGED <<closed_, destroying>>

\* Mutant: Pop does not look at closed_ when it is woken.
MutPopEnds(t) == FALSE

\* Pop looks at closed_ only after a wait.
PopEnds(t) == call[t] = "popAwake" /\ closed_

Pop(t) ==
  /\ call[t] \in {"out", "popAwake"} /\ ~PopEnds(t)
  /\ que_ # <<>>
  /\ que_' = Tail(que_)
  /\ ProducerNotified([call EXCEPT ![t] = "out"])
  /\ UNCHANGED <<closed_, item, destroying, pushes>>

PopWait(t) ==
  /\ call[t] \in {"out", "popAwake"} /\ ~PopEnds(t)
  /\ que_ = <<>>
  /\ call' = [call EXCEPT ![t] = "popAsleep"]
  /\ UNCHANGED <<que_, closed_, item, destroying, pushes>>

PopFalse(t) ==
  /\ PopEnds(t)
  /\ call' = [call EXCEPT ![t] = "out"]
  /\ UNCHANGED <<que_, closed_, item, destroying, pushes>>

SpuriousWakeup(t) ==
  /\ \/ call[t] = "popAsleep" /\ call' = [call EXCEPT ![t] = "popAwake"]
     \/ call[t] = "pushAsleep" /\ call' = [call EXCEPT ![t] = "pushAwake"]
  /\ UNCHANGED <<que_, closed_, item, destroying, pushes>>

Flush ==
  /\ ConsumerNotified(call)
  /\ UNCHANGED <<que_, closed_, item, destroying, pushes>>

DestroyQueue ==
  /\ destroying = "no"
  /\ que_' = <<>> /\ closed_' = TRUE
  /\ destroying' = "producers"
  /\ UNCHANGED <<call, item, pushes>>

WakeAll(asleep, awake) ==
  call' = [t \in Threads |-> IF call[t] = asleep THEN awake ELSE call[t]]

\* notify_all on producer_cv_, then on consumer_cv_.
NotifyProducers ==
  /\ destroying = "producers" /\ destroying' = "consumers"
  /\ WakeAll("pushAsleep", "pushAwake")
  /\ UNCHANGED <<que_, closed_, item, pushes>>

NotifyConsumers ==
  /\ destroying = "consumers" /\ destroying' = "done"
  /\ WakeAll("popAsleep", "popAwake")
  /\ UNCHANGED <<que_, closed_, item, pushes>>

ThreadStep(t) ==
  \/ \E x \in Items : Push(t, x)
  \/ Pop(t) \/ PopWait(t) \/ PopFalse(t)

Next ==
  \/ \E t \in Threads : ThreadStep(t) \/ SpuriousWakeup(t)
  \/ Flush \/ DestroyQueue \/ NotifyProducers \/ NotifyConsumers

Spec == Init /\ [][Next]_vars

\* A woken thread goes on, and DestroyQueue is finished once it has begun; nobody
\* has to make another call.
Resume(t) == call[t] \in {"pushAwake", "popAwake"} /\ ThreadStep(t)
FairSpec ==
  /\ Spec
  /\ WF_vars(NotifyProducers \/ NotifyConsumers)
  /\ \A t \in Threads : WF_vars(Resume(t))

-----------------------------------------------------------------------------
(* What the queue promises.                                                *)

\* One notify_one per Push is enough: while a consumer sleeps, every item has a woken
\* consumer that is about to take it (one that finds the queue closed takes none).
NoStrandedItem ==
  Waiting("popAsleep") # {} /\ ~closed_ => Len(que_) <= Cardinality(Waiting("popAwake"))

\* The queue never holds more than its capacity, and one notify_one per Pop is enough:
\* while a producer sleeps, every free place has a woken producer (DestroyQueue empties
\* the queue before it notifies).
NoStrandedSlot ==
  /\ Len(que_) <= capacity_
  /\ Waiting("pushAsleep") # {} /\ destroying # "producers"
       => capacity_ - Len(que_) <= Cardinality(Waiting("pushAwake"))

\* DestroyQueue releases the consumers that wait while it runs.
WaitersReleased ==
  \A t \in Threads :
    destroying \in {"producers", "consumers"} /\ call[t] \in {"popAsleep", "popAwake"} ~> call[t] = "out"
=============================================================================
