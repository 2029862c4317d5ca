--------------------------- MODULE BlockQueue_proofs ---------------------------
(***************************************************************************)
(* Proofs about BlockQueue for every set of threads and items and every    *)
(* capacity.                                                               *)
(***************************************************************************)
EXTENDS BlockQueue, FiniteSetTheorems, TLAPS

TypeOK ==
  /\ que_ \in Seq(Items) /\ closed_ \in BOOLEAN
  /\ call \in [Threads -> {"out", "pushAsleep", "pushAwake", "popAsleep", "popAwake"}]
  /\ item \in [Threads -> Items]
  /\ destroying \in {"no", "producers", "consumers", "done"}
  /\ pushes \in Nat

LEMMA WaitingFinite ==
  ASSUME NEW label
  PROVE  /\ IsFiniteSet(Waiting(label)) /\ Cardinality(Waiting(label)) \in Nat
         /\ IsFiniteSet(Waiting(label)') /\ Cardinality(Waiting(label)') \in Nat
<1>1. Waiting(label) \subseteq Threads /\ Waiting(label)' \subseteq Threads
  BY DEF Waiting
<1>. QED  BY <1>1, QueueAssumption, FS_Subset, FS_CardinalityType

LEMMA InitType == Init => TypeOK
<1>. DEFINE first == CHOOSE x \in Items : TRUE
<1>1. first \in Items
  BY QueueAssumption
<1>2. ASSUME Init PROVE item \in [Threads -> Items]
  <2>1. item = [t \in Threads |-> first]
    BY <1>2 DEF Init
  <2>. HIDE DEF first
  <2>. QED  BY <1>1, <2>1
<1>3. ASSUME Init PROVE TypeOK
  <2>1. que_ \in Seq(Items)
    BY <1>3 DEF Init
  <2>2. call \in [Threads -> {"out", "pushAsleep", "pushAwake", "popAsleep", "popAwake"}]
    BY <1>3 DEF Init
  <2>. QED  BY <1>2, <1>3, <2>1, <2>2 DEF Init, TypeOK
<1>. QED  BY <1>3

LEMMA TypeStep ==
  ASSUME TypeOK, [Next]_vars PROVE TypeOK'
<1>. USE DEF TypeOK
<1>1. ASSUME NEW t \in Threads, NEW x \in Items, Push(t, x) PROVE TypeOK'
  <2>1. que_' \in Seq(Items) /\ closed_' \in BOOLEAN /\ pushes' \in Nat
    BY <1>1 DEF Push
  <2>2. item' \in [Threads -> Items]
    BY <1>1 DEF Push
  <2>3. call' \in [Threads -> {"out", "pushAsleep", "pushAwake", "popAsleep", "popAwake"}]
    BY <1>1 DEF Push, ConsumerNotified, NotifyOne, Waiting
  <2>. QED  BY <1>1, <2>1, <2>2, <2>3 DEF Push
<1>2. ASSUME NEW t \in Threads, Pop(t) PROVE TypeOK'
  <2>1. que_' \in Seq(Items)
    BY <1>2 DEF Pop
  <2>. QED  BY <1>2, <2>1 DEF Pop, ProducerNotified, NotifyOne, Waiting
<1>3. ASSUME NEW t \in Threads, PopWait(t) \/ PopFalse(t) \/ SpuriousWakeup(t) PROVE TypeOK'
  BY <1>3 DEF PopWait, PopFalse, SpuriousWakeup
<1>4. CASE Flush
  BY <1>4 DEF Flush, ConsumerNotified, NotifyOne, Waiting
<1>5. CASE DestroyQueue
  <2>1. que_' \in Seq(Items)
    BY <1>5 DEF DestroyQueue
  <2>. QED  BY <1>5, <2>1 DEF DestroyQueue
<1>6. CASE NotifyProducers \/ NotifyConsumers
  BY <1>6 DEF NotifyProducers, NotifyConsumers, WakeAll
<1>7. CASE UNCHANGED vars
  BY <1>7 DEF vars
<1>. QED
  BY <1>1, <1>2, <1>3, <1>4, <1>5, <1>6, <1>7 DEF Next, ThreadStep

\* Every variable keeps its type.
THEOREM TypeCorrect == Spec => []TypeOK
  BY InitType, TypeStep, PTL DEF Spec

-----------------------------------------------------------------------------
(* One notify_one per Push is enough for the consumers.                    *)

LEMMA NoStrandedItemStep ==
  ASSUME TypeOK, NoStrandedItem, [Next]_vars PROVE NoStrandedItem'
<1>. DEFINE asleep == Waiting("popAsleep")
            awake == Waiting("popAwake")
<1>1. /\ IsFiniteSet(awake) /\ Cardinality(awake) \in Nat
      /\ IsFiniteSet(awake') /\ Cardinality(awake') \in Nat
      /\ Len(que_) \in Nat
  BY WaitingFinite DEF TypeOK
\* Nothing is lost when the queue does not grow and the woken consumers stay.
<1>2. ASSUME Len(que_') <= Len(que_), asleep' \subseteq asleep, awake \subseteq awake',
             closed_' = closed_, Len(que_') \in Nat
      PROVE  NoStrandedItem'
  <2>1. Cardinality(awake) <= Cardinality(awake')
    BY <1>1, <1>2, FS_Subset
  <2>. QED  BY <1>1, <1>2, <2>1 DEF NoStrandedItem
<1>3. ASSUME NEW t \in Threads, NEW x \in Items, Push(t, x) PROVE NoStrandedItem'
  <2>1. CASE Full
    <3>1. que_' = que_ /\ closed_' = closed_ /\ call' = [call EXCEPT ![t] = "pushAsleep"]
          /\ call[t] \in {"out", "pushAwake"}
      BY <1>3, <2>1 DEF Push, Pushing
    <3>2. asleep' \subseteq asleep /\ awake \subseteq awake'
      BY <3>1 DEF Waiting, TypeOK
    <3>. QED  BY <1>1, <1>2, <3>1, <3>2
  <2>2. CASE ~Full
    <3>1. /\ que_' = Append(que_, x) /\ closed_' = closed_ /\ call[t] \in {"out", "pushAwake"}
          /\ ConsumerNotified([call EXCEPT ![t] = "out"])
      BY <1>3, <2>2 DEF Push, Pushing
    <3>2. Len(que_') = Len(que_) + 1
      BY <3>1 DEF TypeOK
    <3>3. CASE asleep = {}
      <4>1. call' = [call EXCEPT ![t] = "out"]
        BY <3>1, <3>3 DEF ConsumerNotified, NotifyOne
      <4>2. asleep' = {}
        BY <3>3, <4>1 DEF Waiting, TypeOK
      <4>. QED  BY <4>2 DEF NoStrandedItem
    <3>4. CASE asleep # {}
      <4>1. PICK u \in asleep : call' = [[call EXCEPT ![t] = "out"] EXCEPT ![u] = "popAwake"]
        BY <3>1, <3>4 DEF ConsumerNotified, NotifyOne
      <4>2. awake' = awake \cup {u} /\ u \notin awake
        BY <3>1, <4>1 DEF Waiting, TypeOK
      <4>3. Cardinality(awake') = Cardinality(awake) + 1
        BY <1>1, <4>2, FS_AddElement
      <4>. QED  BY <1>1, <3>1, <3>2, <3>4, <4>3 DEF NoStrandedItem
    <3>. QED  BY <3>3, <3>4
  <2>. QED  BY <2>1, <2>2
<1>4. ASSUME NEW t \in Threads, Pop(t) PROVE NoStrandedItem'
  <2>1. /\ Len(que_') = Len(que_) - 1 /\ closed_' = closed_
        /\ call[t] \in {"out", "popAwake"}
    BY <1>4 DEF Pop, TypeOK
  <2>2. asleep' = asleep /\ awake' = awake \ {t}
    BY <1>4, <2>1 DEF Pop, ProducerNotified, NotifyOne, Waiting, TypeOK
  <2>3. Cardinality(awake') >= Cardinality(awake) - 1
    BY <1>1, <2>2, FS_RemoveElement
  <2>. QED  BY <1>1, <2>1, <2>2, <2>3 DEF NoStrandedItem
<1>5. ASSUME NEW t \in Threads, PopWait(t) PROVE NoStrandedItem'
  BY <1>1, <1>5 DEF PopWait, NoStrandedItem
<1>6. ASSUME NEW t \in Threads, PopFalse(t) PROVE NoStrandedItem'
  BY <1>6 DEF PopFalse, PopEnds, NoStrandedItem
<1>7. ASSUME NEW t \in Threads, SpuriousWakeup(t) PROVE NoStrandedItem'
  <2>1. que_' = que_ /\ closed_' = closed_
    BY <1>7 DEF SpuriousWakeup
  <2>2. asleep' \subseteq asleep /\ awake \subseteq awake'
    BY <1>7 DEF SpuriousWakeup, Waiting, TypeOK
  <2>. QED  BY <1>1, <1>2, <2>1, <2>2
<1>8. CASE Flush
  <2>1. que_' = que_ /\ closed_' = closed_
    BY <1>8 DEF Flush
  <2>2. asleep' \subseteq asleep /\ awake \subseteq awake'
    BY <1>8 DEF Flush, ConsumerNotified, NotifyOne, Waiting, TypeOK
  <2>. QED  BY <1>1, <1>2, <2>1, <2>2
<1>9. CASE DestroyQueue
  BY <1>9 DEF DestroyQueue, NoStrandedItem
<1>10. CASE NotifyProducers
  <2>1. que_' = que_ /\ closed_' = closed_
    BY <1>10 DEF NotifyProducers
  <2>2. asleep' \subseteq asleep /\ awake \subseteq awake'
    BY <1>10 DEF NotifyProducers, WakeAll, Waiting, TypeOK
  <2>. QED  BY <1>1, <1>2, <2>1, <2>2
<1>11. CASE NotifyConsumers
  <2>1. que_' = que_ /\ closed_' = closed_
    BY <1>11 DEF NotifyConsumers
  <2>2. asleep' \subseteq asleep /\ awake \subseteq awake'
    BY <1>11 DEF NotifyConsumers, WakeAll, Waiting, TypeOK
  <2>. QED  BY <1>1, <1>2, <2>1, <2>2
<1>12. CASE UNCHANGED vars
  BY <1>12 DEF vars, NoStrandedItem, Waiting
<1>. QED
  BY <1>3, <1>4, <1>5, <1>6, <1>7, <1>8, <1>9, <1>10, <1>11, <1>12 DEF Next, ThreadStep

\* While a consumer sleeps, every item has a woken consumer: however many producers push
\* and whichever consumer a notify_one chooses.
THEOREM ItemsHaveConsumers == Spec => []NoStrandedItem
<1>1. Init => NoStrandedItem
  BY DEF Init, NoStrandedItem, Waiting
<1>. QED
  BY <1>1, NoStrandedItemStep, TypeCorrect, PTL DEF Spec

-----------------------------------------------------------------------------
(* One notify_one per Pop is enough for the producers.                     *)

LEMMA NoStrandedSlotStep ==
  ASSUME TypeOK, NoStrandedSlot, [Next]_vars PROVE NoStrandedSlot'
<1>. DEFINE asleep == Waiting("pushAsleep")
            awake == Waiting("pushAwake")
<1>1. /\ IsFiniteSet(awake) /\ Cardinality(awake) \in Nat
      /\ IsFiniteSet(awake') /\ Cardinality(awake') \in Nat
      /\ Len(que_) \in Nat /\ capacity_ \in Nat
  BY WaitingFinite, QueueAssumption DEF TypeOK
\* Nothing is lost when the queue stays and so do the woken producers.
<1>2. ASSUME que_' = que_, asleep' \subseteq asleep, awake \subseteq awake',
             destroying' = destroying
      PROVE  NoStrandedSlot'
  <2>1. Cardinality(awake) <= Cardinality(awake')
    BY <1>1, <1>2, FS_Subset
  <2>. QED  BY <1>1, <1>2, <2>1 DEF NoStrandedSlot
<1>3. ASSUME NEW t \in Threads, NEW x \in Items, Push(t, x) PROVE NoStrandedSlot'
  <2>1. CASE Full
    <3>1. que_' = que_
      BY <1>3, <2>1 DEF Push
    <3>. QED  BY <1>1, <2>1, <3>1 DEF Full, NoStrandedSlot
  <2>2. CASE ~Full
    <3>1. /\ que_' = Append(que_, x) /\ destroying' = destroying
          /\ call[t] \in {"out", "pushAwake"}
          /\ ConsumerNotified([call EXCEPT ![t] = "out"])
      BY <1>3, <2>2 DEF Push, Pushing
    <3>2. Len(que_') = Len(que_) + 1 /\ Len(que_') <= capacity_
      BY <1>1, <2>2, <3>1 DEF Full, TypeOK
    <3>3. asleep' = asleep /\ awake' = awake \ {t}
      BY <3>1 DEF ConsumerNotified, NotifyOne, Waiting, TypeOK
    <3>4. Cardinality(awake') >= Cardinality(awake) - 1
      <4>. HIDE DEF awake
      <4>. QED  BY <1>1, <3>3, FS_RemoveElement
    <3>. QED  BY <1>1, <3>1, <3>2, <3>3, <3>4 DEF NoStrandedSlot
  <2>. QED  BY <2>1, <2>2
<1>4. ASSUME NEW t \in Threads, Pop(t) PROVE NoStrandedSlot'
  <2>1. /\ Len(que_') = Len(que_) - 1 /\ destroying' = destroying
        /\ call[t] \in {"out", "popAwake"}
        /\ ProducerNotified([call EXCEPT ![t] = "out"])
    BY <1>4 DEF Pop, TypeOK
  <2>2. CASE asleep = {}
    <3>1. call' = [call EXCEPT ![t] = "out"]
      BY <2>1, <2>2 DEF ProducerNotified, NotifyOne
    <3>2. asleep' = {}
      BY <2>1, <2>2, <3>1 DEF Waiting, TypeOK
    <3>. QED  BY <1>1, <2>1, <3>2 DEF NoStrandedSlot
  <2>3. CASE asleep # {}
    <3>1. PICK u \in asleep : call' = [[call EXCEPT ![t] = "out"] EXCEPT ![u] = "pushAwake"]
      BY <2>1, <2>3 DEF ProducerNotified, NotifyOne
    <3>2. awake' = awake \cup {u} /\ u \notin awake
      BY <2>1, <3>1 DEF Waiting, TypeOK
    <3>3. Cardinality(awake') = Cardinality(awake) + 1
      BY <1>1, <3>2, FS_AddElement
    <3>. QED  BY <1>1, <2>1, <2>3, <3>3 DEF NoStrandedSlot
  <2>. QED  BY <2>2, <2>3
<1>5. ASSUME NEW t \in Threads, PopWait(t) \/ PopFalse(t) PROVE NoStrandedSlot'
  <2>1. que_' = que_ /\ destroying' = destroying
    BY <1>5 DEF PopWait, PopFalse
  <2>2. asleep' \subseteq asleep /\ awake \subseteq awake'
    BY <1>5 DEF PopWait, PopFalse, PopEnds, Waiting, TypeOK
  <2>. QED  BY <1>2, <2>1, <2>2
<1>6. ASSUME NEW t \in Threads, SpuriousWakeup(t) PROVE NoStrandedSlot'
  <2>1. que_' = que_ /\ destroying' = destroying
    BY <1>6 DEF SpuriousWakeup
  <2>2. asleep' \subseteq asleep /\ awake \subseteq awake'
    BY <1>6 DEF SpuriousWakeup, Waiting, TypeOK
  <2>. QED  BY <1>2, <2>1, <2>2
<1>7. CASE Flush
  <2>1. que_' = que_ /\ destroying' = destroying
    BY <1>7 DEF Flush
  <2>2. asleep' \subseteq asleep /\ awake \subseteq awake'
    BY <1>7 DEF Flush, ConsumerNotified, NotifyOne, Waiting, TypeOK
  <2>. QED  BY <1>2, <2>1, <2>2
\* The queue is emptied before the producers are notified: until then no place is owed.
<1>8. CASE DestroyQueue
  BY <1>1, <1>8 DEF DestroyQueue, NoStrandedSlot
<1>9. CASE NotifyProducers
  <2>1. asleep' = {} /\ que_' = que_
    BY <1>9 DEF NotifyProducers, WakeAll, Waiting, TypeOK
  <2>. QED  BY <2>1 DEF NoStrandedSlot
<1>10. CASE NotifyConsumers
  <2>1. que_' = que_ /\ destroying = "consumers"
    BY <1>10 DEF NotifyConsumers
  <2>2. asleep' = asleep /\ awake' = awake
    BY <1>10 DEF NotifyConsumers, WakeAll, Waiting, TypeOK
  <2>. QED  BY <2>1, <2>2 DEF NoStrandedSlot
<1>11. CASE UNCHANGED vars
  BY <1>11 DEF vars, NoStrandedSlot, Waiting
<1>. QED
  BY <1>3, <1>4, <1>5, <1>6, <1>7, <1>8, <1>9, <1>10, <1>11 DEF Next, ThreadStep

\* The queue never holds more than capacity_, and while a producer sleeps every free place
\* has a woken producer.
THEOREM PlacesHaveProducers == Spec => []NoStrandedSlot
<1>1. Init => NoStrandedSlot
  BY QueueAssumption DEF Init, NoStrandedSlot, Waiting
<1>. QED
  BY <1>1, NoStrandedSlotStep, TypeCorrect, PTL DEF Spec
=============================================================================
