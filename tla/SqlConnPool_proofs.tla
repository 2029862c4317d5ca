--------------------------- MODULE SqlConnPool_proofs ---------------------------
(***************************************************************************)
(* Proofs about SqlConnPool, for both forms of its use and for every       *)
(* number of threads and connections.                                      *)
(***************************************************************************)
EXTENDS SqlConnPool, FiniteSetTheorems, SequenceTheorems, TLAPS

(***************************************************************************)
(* The semaphore, as a specification of its own.                           *)
(***************************************************************************)
LEMMA SemTypeStep ==
  ASSUME SemTypeOK, [SemNext]_semVars PROVE SemTypeOK'
<1>. USE DEF SemTypeOK, MayTake
<1>1. ASSUME NEW t \in Threads, Acquire(t) \/ Wait(t) \/ SpuriousWakeup(t) PROVE SemTypeOK'
  BY <1>1 DEF Acquire, Wait, SpuriousWakeup
<1>2. ASSUME NEW t \in Threads, TryAcquire(t) PROVE SemTypeOK'
  BY <1>2 DEF TryAcquire
<1>3. ASSUME NEW t \in Threads, Release(t) PROVE SemTypeOK'
  BY <1>3 DEF Release, Woken, Asleep
<1>4. CASE UNCHANGED semVars
  BY <1>4 DEF semVars
<1>. QED  BY <1>1, <1>2, <1>3, <1>4 DEF SemNext

\* The count is a natural number in every reachable state.
THEOREM SemTypeCorrect == SemSpec => []SemTypeOK
<1>1. SemInit => SemTypeOK
  BY SemaphoreAssumption DEF SemInit, SemTypeOK
<1>. QED  BY <1>1, SemTypeStep, PTL DEF SemSpec

LEMMA AwakeFinite ==
        /\ IsFiniteSet(Awake) /\ Cardinality(Awake) \in Nat
        /\ IsFiniteSet(Awake') /\ Cardinality(Awake') \in Nat
<1>1. Awake \subseteq Threads /\ Awake' \subseteq Threads
  BY DEF Awake
<1>. QED  BY <1>1, SemaphoreAssumption, FS_Subset, FS_CardinalityType

LEMMA NoStrandedUnitStep ==
  ASSUME SemTypeOK, NoStrandedUnit, [SemNext]_semVars PROVE NoStrandedUnit'
<1>. USE DEF SemTypeOK, MayTake
<1>1. /\ IsFiniteSet(Awake) /\ Cardinality(Awake) \in Nat
      /\ Cardinality(Awake') \in Nat
  BY AwakeFinite
<1>2. ASSUME NEW t \in Threads, Acquire(t) PROVE NoStrandedUnit'
  <2>1. Asleep' = Asleep /\ count_' = count_ - 1
    BY <1>2 DEF Acquire, Asleep
  <2>2. CASE acquiring[t] = "no"
    <3>1. Awake' = Awake
      BY <1>2, <2>2 DEF Acquire, Awake
    <3>. QED  BY <1>1, <2>1, <3>1 DEF NoStrandedUnit
  <2>3. CASE acquiring[t] = "awake"
    <3>1. t \in Awake /\ Awake' = Awake \ {t}
      BY <1>2, <2>3 DEF Acquire, Awake
    <3>2. Cardinality(Awake') = Cardinality(Awake) - 1
      BY <1>1, <3>1, FS_RemoveElement
    <3>. QED  BY <1>1, <2>1, <3>2 DEF NoStrandedUnit
  <2>. QED  BY <1>2, <2>2, <2>3 DEF Acquire
<1>3. ASSUME NEW t \in Threads, Wait(t) PROVE NoStrandedUnit'
  <2>1. count_' = 0
    BY <1>3 DEF Wait
  <2>. QED  BY <1>1, <2>1 DEF NoStrandedUnit
<1>4. ASSUME NEW t \in Asleep, acquiring' = [acquiring EXCEPT ![t] = "awake"]
      PROVE  Cardinality(Awake') = Cardinality(Awake) + 1 /\ Asleep' \subseteq Asleep
  <2>1. t \notin Awake /\ Awake' = Awake \cup {t} /\ Asleep' \subseteq Asleep
    BY <1>4 DEF Awake, Asleep
  <2>. QED  BY <1>1, <2>1, FS_AddElement
<1>5. ASSUME NEW t \in Threads, SpuriousWakeup(t) PROVE NoStrandedUnit'
  <2>1. /\ t \in Asleep /\ acquiring' = [acquiring EXCEPT ![t] = "awake"]
        /\ count_' = count_
    BY <1>5 DEF SpuriousWakeup, Asleep
  <2>2. Cardinality(Awake') = Cardinality(Awake) + 1
    BY <1>4, <2>1
  <2>3. count_ <= Cardinality(Awake)
    BY <2>1 DEF NoStrandedUnit
  <2>. QED  BY <1>1, <2>1, <2>2, <2>3 DEF NoStrandedUnit
<1>6. ASSUME NEW t \in Threads, TryAcquire(t) PROVE NoStrandedUnit'
  <2>1. Asleep' = Asleep /\ Awake' = Awake /\ count_' <= count_
    BY <1>6 DEF TryAcquire, Asleep, Awake
  <2>2. count_' \in Nat
    BY <1>6 DEF TryAcquire
  <2>3. Cardinality(Awake') = Cardinality(Awake)
    BY <2>1
  <2>. QED  BY <1>1, <2>1, <2>2, <2>3 DEF NoStrandedUnit
<1>7. ASSUME NEW t \in Threads, Release(t) PROVE NoStrandedUnit'
  <2>1. CASE Woken = {} /\ UNCHANGED acquiring
    BY <2>1 DEF Woken, NoStrandedUnit, Asleep
  <2>2. ASSUME NEW u \in Woken, acquiring' = [acquiring EXCEPT ![u] = "awake"]
        PROVE NoStrandedUnit'
    <3>1. u \in Asleep /\ count_' = count_ + 1
      BY <1>7, <2>2 DEF Release, Woken
    <3>2. Cardinality(Awake') = Cardinality(Awake) + 1
      BY <1>4, <2>2, <3>1
    <3>. QED  BY <1>1, <3>1, <3>2 DEF NoStrandedUnit
  <2>. QED  BY <1>7, <2>1, <2>2 DEF Release
<1>8. CASE UNCHANGED semVars
  BY <1>8 DEF semVars, NoStrandedUnit, Asleep, Awake
<1>. QED  BY <1>2, <1>3, <1>5, <1>6, <1>7, <1>8 DEF SemNext

\* While a thread sleeps in Acquire, no unit is without a woken thread that is about
\* to take it: Release never loses a wakeup.
THEOREM NoUnitStranded == SemSpec => []NoStrandedUnit
<1>1. SemInit => NoStrandedUnit
  BY DEF SemInit, NoStrandedUnit, Asleep
<1>. QED  BY <1>1, NoStrandedUnitStep, SemTypeCorrect, PTL DEF SemSpec

-----------------------------------------------------------------------------
(***************************************************************************)
(* The pool.                                                               *)
(***************************************************************************)

LEMMA MaxConnType == MAX_CONN_ \in Nat
  BY SemaphoreAssumption DEF MAX_CONN_

LEMMA InitType == Init => TypeOK /\ QueueMatchesSem
<1>1. SUFFICES ASSUME Init PROVE TypeOK /\ QueueMatchesSem
  OBVIOUS
<1>2. opened \subseteq Conns /\ scoped \in BOOLEAN
  BY <1>1, PoolAssumption DEF Init
<1>3. SemTypeOK
  BY <1>1, SemaphoreAssumption DEF Init, SemInit, SemTypeOK
<1>4. conn_que_ \in Seq(Conns \cup {NullConn}) /\ Len(conn_que_) = MAX_CONN_
  <2>1. PICK order \in [1..MAX_CONN_ -> opened \cup {NullConn}] : conn_que_ = order
    BY <1>1 DEF Init
  <2>. QED  BY <1>2, <2>1, MaxConnType
<1>5. TypeOK
  BY <1>2, <1>1, <1>3, <1>4 DEF Init, TypeOK
<1>6. Poppers = {} /\ Posters = {} /\ count_ = MAX_CONN_
  BY <1>1 DEF Init, SemInit, MAX_CONN_, Poppers, Posters
<1>. QED
  BY <1>4, <1>5, <1>6, MaxConnType, FS_EmptySet DEF QueueMatchesSem

\* What a step of the semaphore does to its two variables.
LEMMA SemTypeKept ==
  ASSUME SemTypeOK, NEW t \in Threads,
         Acquire(t) \/ Wait(t) \/ SpuriousWakeup(t) \/ Release(t)
  PROVE  SemTypeOK'
  BY DEF SemTypeOK, Acquire, Wait, SpuriousWakeup, Release,
         MayTake, Woken, Asleep

LEMMA TypeStep ==
  ASSUME TypeOK, [Next]_vars PROVE TypeOK'
<1>. USE DEF TypeOK
<1>1. ASSUME NEW t \in Threads, Begin(t) PROVE TypeOK'
  BY <1>1 DEF Begin, At, Go, semVars, SemTypeOK
<1>2. ASSUME NEW t \in Threads, TestEmpty(t) \/ Verify(t) \/ Query(t) PROVE TypeOK'
  <2>1. SemTypeOK'
    BY <1>2 DEF TestEmpty, Verify, Query, semVars, SemTypeOK
  <2>2. /\ conn_que_' \in Seq(Conns \cup {NullConn}) /\ calls' \in Nat
        /\ aborted' \in BOOLEAN
    BY <1>2 DEF TestEmpty, Verify, Query
  <2>3. sql' \in [Threads -> Conns \cup {NullConn}]
    BY <1>2 DEF TestEmpty, Verify, Query
  <2>4. pc' \in [Threads -> {"out", "test", "acquire", "pop", "verify", "giveBack",
                             "posted", "use", "release", "posting"}]
    BY <1>2 DEF TestEmpty, Verify, Query, AfterQuery, Go
  <2>5. opened' = opened /\ scoped' = scoped
    BY <1>2 DEF TestEmpty, Verify, Query
  <2>. QED  BY <2>1, <2>2, <2>3, <2>4, <2>5
<1>3. ASSUME NEW t \in Threads, AcquireSem(t) PROVE TypeOK'
  <2>1. SemTypeOK'
    BY <1>3, SemTypeKept DEF AcquireSem
  <2>. QED  BY <1>3, <2>1 DEF AcquireSem, Go
<1>4. ASSUME NEW t \in Threads, PopConn(t) PROVE TypeOK'
  <2>1. Head(conn_que_) \in Conns \cup {NullConn} /\ Tail(conn_que_) \in Seq(Conns \cup {NullConn})
    BY <1>4, HeadTailProperties DEF PopConn
  <2>. QED  BY <1>4, <2>1 DEF PopConn, Rest, Go, semVars, SemTypeOK
<1>5. ASSUME NEW t \in Threads, ReleaseConn(t) PROVE TypeOK'
  <2>1. ASSUME NEW from, NEW to \in {"posted", "posting"}, Push(t, from, to) PROVE TypeOK'
    BY <2>1 DEF Push, Go, semVars, SemTypeOK
  <2>2. ASSUME NEW from, NEW to \in {"use", "out"}, PostSem(t, from, to) PROVE TypeOK'
    <3>1. SemTypeOK'
      BY <2>2, SemTypeKept DEF PostSem, Post
    <3>. QED  BY <2>2, <3>1 DEF PostSem, Go
  <2>. QED  BY <1>5, <2>1, <2>2 DEF ReleaseConn
<1>6. CASE UNCHANGED vars
  BY <1>6 DEF vars, semVars, SemTypeOK
<1>. QED
  BY <1>1, <1>2, <1>3, <1>4, <1>5, <1>6 DEF Next, UserVerify

\* The count of the semaphore stays a natural number, and the queue and the locals
\* hold connections.
THEOREM TypeCorrect == Spec => []TypeOK
  BY InitType, TypeStep, PTL DEF Spec

-----------------------------------------------------------------------------
(* The pool is a user of the semaphore.                                    *)

LEMMA SemStep ==
  ASSUME [Next]_vars PROVE [SemNext]_semVars
<1>1. ASSUME NEW t \in Threads, AcquireSem(t) PROVE SemNext
  BY <1>1 DEF AcquireSem, SemNext
<1>2. ASSUME NEW t \in Threads, ReleaseConn(t) PROVE [SemNext]_semVars
  <2>1. ASSUME NEW from, NEW to, Push(t, from, to) PROVE UNCHANGED semVars
    BY <2>1 DEF Push
  <2>2. ASSUME NEW from, NEW to, PostSem(t, from, to) PROVE SemNext
    BY <2>2 DEF PostSem, Post, SemNext
  <2>. QED  BY <1>2, <2>1, <2>2 DEF ReleaseConn
<1>3. ASSUME NEW t \in Threads,
             Begin(t) \/ TestEmpty(t) \/ PopConn(t) \/ Verify(t) \/ Query(t)
      PROVE UNCHANGED semVars
  BY <1>3 DEF Begin, TestEmpty, PopConn, Verify, Query
<1>4. CASE UNCHANGED vars
  BY <1>4 DEF vars
<1>. QED  BY <1>1, <1>2, <1>3, <1>4 DEF Next, UserVerify

\* AcquireConn and ReleaseConn use the semaphore as its specification allows.
LEMMA SemaphoreImplemented == Spec => SemSpec
<1>1. Init => SemInit
  BY DEF Init
<1>. QED  BY <1>1, SemStep, PTL DEF Spec, SemSpec

\* So the pool inherits what is proved of the semaphore: no connection that is given
\* back is left beside a thread that sleeps in AcquireConn.
THEOREM NoConnStranded == Spec => []NoStrandedUnit
  BY SemaphoreImplemented, NoUnitStranded, PTL

-----------------------------------------------------------------------------
(* The semaphore counts the queue.                                         *)

LEMMA SetsFinite ==
  /\ IsFiniteSet(Poppers) /\ Cardinality(Poppers) \in Nat
  /\ IsFiniteSet(Posters) /\ Cardinality(Posters) \in Nat
<1>1. Poppers \subseteq Threads /\ Posters \subseteq Threads
  BY DEF Poppers, Posters
<1>. QED  BY <1>1, SemaphoreAssumption, FS_Subset, FS_CardinalityType

\* What a move of one thread does to the number of threads in each set.
LEMMA PopperMoves ==
  ASSUME TypeOK, NEW t \in Threads, NEW to, Go(t, to)
  PROVE  Cardinality(Poppers') = Cardinality(Poppers)
           + (IF to = "pop" THEN 1 ELSE 0) - (IF pc[t] = "pop" THEN 1 ELSE 0)
<1>. USE DEF TypeOK, Go
<1>1. \A u \in Threads : u # t => pc'[u] = pc[u]
  OBVIOUS
<1>2. pc'[t] = to
  OBVIOUS
<1>3. CASE pc[t] # "pop" /\ to = "pop"
  <2>1. t \notin Poppers /\ Poppers' = Poppers \cup {t}
    BY <1>1, <1>2, <1>3 DEF Poppers
  <2>2. Cardinality(Poppers') = Cardinality(Poppers) + 1
    BY <2>1, SetsFinite, FS_AddElement
  <2>. QED  BY <1>3, <2>2, SetsFinite
<1>4. CASE pc[t] = "pop" /\ to # "pop"
  <2>1. t \in Poppers /\ Poppers' = Poppers \ {t}
    BY <1>1, <1>2, <1>4 DEF Poppers
  <2>2. Cardinality(Poppers') = Cardinality(Poppers) - 1
    BY <2>1, SetsFinite, FS_RemoveElement
  <2>. QED  BY <1>4, <2>2, SetsFinite
<1>5. CASE (pc[t] = "pop") <=> (to = "pop")
  <2>1. Poppers' = Poppers
    BY <1>1, <1>2, <1>5 DEF Poppers
  <2>. QED  BY <1>5, <2>1, SetsFinite
<1>. QED  BY <1>3, <1>4, <1>5

LEMMA PosterMoves ==
  ASSUME TypeOK, NEW t \in Threads, NEW to, Go(t, to)
  PROVE  Cardinality(Posters') = Cardinality(Posters)
           + (IF to \in {"posted", "posting"} THEN 1 ELSE 0)
           - (IF pc[t] \in {"posted", "posting"} THEN 1 ELSE 0)
<1>. DEFINE Held(label) == label \in {"posted", "posting"}
<1>. USE DEF TypeOK, Go
<1>1. \A u \in Threads : u # t => pc'[u] = pc[u]
  OBVIOUS
<1>2. pc'[t] = to
  OBVIOUS
<1>3. CASE ~Held(pc[t]) /\ Held(to)
  <2>1. t \notin Posters /\ Posters' = Posters \cup {t}
    BY <1>1, <1>2, <1>3 DEF Posters
  <2>2. Cardinality(Posters') = Cardinality(Posters) + 1
    BY <2>1, SetsFinite, FS_AddElement
  <2>. QED  BY <1>3, <2>2, SetsFinite
<1>4. CASE Held(pc[t]) /\ ~Held(to)
  <2>1. t \in Posters /\ Posters' = Posters \ {t}
    BY <1>1, <1>2, <1>4 DEF Posters
  <2>2. Cardinality(Posters') = Cardinality(Posters) - 1
    BY <2>1, SetsFinite, FS_RemoveElement
  <2>. QED  BY <1>4, <2>2, SetsFinite
<1>5. CASE Held(pc[t]) <=> Held(to)
  <2>1. Posters' = Posters
    BY <1>1, <1>2, <1>5 DEF Posters
  <2>. QED  BY <1>5, <2>1, SetsFinite
<1>. QED  BY <1>3, <1>4, <1>5

LEMMA QueueStep ==
  ASSUME TypeOK, QueueMatchesSem, [Next]_vars PROVE QueueMatchesSem'
<1>. DEFINE p == Cardinality(Poppers)  q == Cardinality(Posters)  n == Len(conn_que_)
<1>1. p \in Nat /\ q \in Nat /\ n \in Nat /\ count_ \in Nat /\ n = count_ + p + q
  BY SetsFinite DEF TypeOK, SemTypeOK, QueueMatchesSem
<1>2. ASSUME UNCHANGED <<conn_que_, count_, pc>> PROVE QueueMatchesSem'
  BY <1>2 DEF QueueMatchesSem, Poppers, Posters
<1>3. ASSUME NEW t \in Threads, NEW to, Go(t, to),
             UNCHANGED <<conn_que_, count_>>, ~(to \in {"pop", "posted", "posting"}),
             ~(pc[t] \in {"pop", "posted", "posting"})
      PROVE QueueMatchesSem'
  <2>1. p' = p /\ q' = q
    BY <1>1, <1>3, PopperMoves, PosterMoves
  <2>. QED  BY <1>1, <1>3, <2>1 DEF QueueMatchesSem
<1>4. ASSUME NEW t \in Threads, Begin(t) PROVE QueueMatchesSem'
  BY <1>3, <1>4 DEF Begin, At, semVars
<1>5. ASSUME NEW t \in Threads, TestEmpty(t) PROVE QueueMatchesSem'
  BY <1>3, <1>5 DEF TestEmpty, At, semVars
<1>6. ASSUME NEW t \in Threads, Verify(t) PROVE QueueMatchesSem'
  BY <1>2, <1>3, <1>6 DEF Verify, At, semVars
<1>7. ASSUME NEW t \in Threads, Query(t) PROVE QueueMatchesSem'
  BY <1>3, <1>7 DEF Query, AfterQuery, At, semVars
<1>8. ASSUME NEW t \in Threads, AcquireSem(t) PROVE QueueMatchesSem'
  <2>1. CASE Acquire(t) /\ Go(t, "pop")
    <3>1. p' = p + 1 /\ q' = q
      BY <1>1, <1>8, <2>1, PopperMoves, PosterMoves DEF AcquireSem, At
    <3>2. count_' = count_ - 1 /\ conn_que_' = conn_que_
      BY <1>8, <2>1 DEF AcquireSem, Acquire
    <3>. QED  BY <1>1, <3>1, <3>2 DEF QueueMatchesSem
  <2>2. CASE (Wait(t) \/ SpuriousWakeup(t)) /\ UNCHANGED pc
    BY <1>2, <1>8, <2>2 DEF AcquireSem, Wait, SpuriousWakeup
  <2>. QED  BY <1>8, <2>1, <2>2 DEF AcquireSem
<1>9. ASSUME NEW t \in Threads, PopConn(t) PROVE QueueMatchesSem'
  <2>1. Go(t, "verify") /\ pc[t] = "pop" /\ count_' = count_ /\ conn_que_' = Tail(conn_que_)
    BY <1>9 DEF PopConn, At, Rest, semVars
  <2>2. p' = p - 1 /\ q' = q
    <3>1. p' = p + 0 - 1
      BY <2>1, PopperMoves
    <3>2. q' = q + 0 - 0
      BY <2>1, PosterMoves
    <3>. QED  BY <1>1, <3>1, <3>2
  <2>3. n' = n - 1
    BY <1>9, <2>1, HeadTailProperties DEF PopConn, TypeOK
  <2>. QED  BY <1>1, <2>1, <2>2, <2>3 DEF QueueMatchesSem
<1>10. ASSUME NEW t \in Threads, NEW from, NEW to, Push(t, from, to),
              from \in {"giveBack", "release"}, to \in {"posted", "posting"}
       PROVE QueueMatchesSem'
  <2>0. Go(t, to) /\ pc[t] = from
    BY <1>10 DEF Push, At
  <2>1. p' = p /\ q' = q + 1
    <3>1. p' = p + 0 - 0
      BY <1>10, <2>0, PopperMoves
    <3>2. q' = q + 1 - 0
      BY <1>10, <2>0, PosterMoves
    <3>. QED  BY <1>1, <3>1, <3>2
  <2>2. n' = n + 1 /\ count_' = count_
    BY <1>10 DEF Push, TypeOK, semVars
  <2>. QED  BY <1>1, <2>1, <2>2 DEF QueueMatchesSem
<1>11. ASSUME NEW t \in Threads, NEW from, NEW to, PostSem(t, from, to),
              from \in {"posted", "posting"}, to \in {"use", "out"}
       PROVE QueueMatchesSem'
  <2>0. Go(t, to) /\ pc[t] = from
    BY <1>11 DEF PostSem, At
  <2>1. p' = p /\ q' = q - 1
    <3>1. p' = p + 0 - 0
      BY <1>11, <2>0, PopperMoves
    <3>2. q' = q + 0 - 1
      BY <1>11, <2>0, PosterMoves
    <3>. QED  BY <1>1, <3>1, <3>2
  <2>2. conn_que_' = conn_que_ /\ count_' = count_ + 1
    BY <1>11 DEF PostSem, Post, Release
  <2>. QED  BY <1>1, <2>1, <2>2 DEF QueueMatchesSem
<1>12. ASSUME NEW t \in Threads, ReleaseConn(t) PROVE QueueMatchesSem'
  BY <1>10, <1>11, <1>12 DEF ReleaseConn
<1>13. CASE UNCHANGED vars
  BY <1>2, <1>13 DEF vars, semVars
<1>. QED
  BY <1>4, <1>5, <1>6, <1>7, <1>8, <1>9, <1>12, <1>13 DEF Next, UserVerify

\* In both forms of use the semaphore counts the queue: what it grants is there.
THEOREM SemCountsQueue == Spec => []QueueMatchesSem
  BY InitType, TypeCorrect, QueueStep, PTL DEF Spec

LEMMA PopperFindsOne ==
  ASSUME TypeOK, QueueMatchesSem PROVE NeverPopsEmpty
<1>1. SUFFICES ASSUME NEW t \in Threads, pc[t] = "pop" PROVE conn_que_ # <<>>
  BY DEF NeverPopsEmpty
<1>2. Poppers # {}
  BY <1>1 DEF Poppers
<1>3. Cardinality(Poppers) # 0
  BY <1>2, SetsFinite, FS_EmptySet
<1>4. Len(conn_que_) > 0
  BY <1>3, SetsFinite DEF QueueMatchesSem, TypeOK, SemTypeOK
<1>. QED  BY <1>4

\* AcquireConn never takes the front of an empty queue, for any number of threads and
\* connections and even when connections are given back twice.
THEOREM PopsAreSafe == Spec => []NeverPopsEmpty
  BY TypeCorrect, SemCountsQueue, PopperFindsOne, PTL
-----------------------------------------------------------------------------
(* No connection is lost.                                                  *)

\* Where a connection is kept: in the queue, or with a thread that is certain to give
\* it back.  A thread that has already given it back may still use it, but keeps it no
\* longer: without this distinction a failed query would seem to lose a connection.
Keepers ==
  {t \in Threads : pc[t] \in {"verify", "giveBack"} \/ (scoped /\ pc[t] \in {"use", "release"})}

InQueue(c) == \E i \in DOMAIN conn_que_ : conn_que_[i] = c

Kept == \A c \in opened : InQueue(c) \/ \E t \in Keepers : sql[t] = c

LEMMA KeptStep ==
  ASSUME TypeOK, Kept, [Next]_vars PROVE Kept'
<1>. USE DEF TypeOK
\* The queue stays, and so do the keepers and what they keep.
<1>1. ASSUME UNCHANGED <<opened, conn_que_>>,
             \A t \in Keepers : t \in Keepers' /\ sql'[t] = sql[t]
      PROVE  Kept'
  BY <1>1 DEF Kept, InQueue
<1>2. ASSUME NEW t \in Threads, Begin(t) \/ TestEmpty(t) PROVE Kept'
  <2>1. UNCHANGED <<opened, conn_que_, scoped>>
    BY <1>2 DEF Begin, TestEmpty
  <2>2. t \notin Keepers
    BY <1>2 DEF Begin, TestEmpty, At, Keepers
  <2>3. \A u \in Threads : u # t => pc'[u] = pc[u] /\ sql'[u] = sql[u]
    BY <1>2 DEF Begin, TestEmpty, Go
  <2>4. \A u \in Keepers : u \in Keepers' /\ sql'[u] = sql[u]
    BY <2>1, <2>2, <2>3 DEF Keepers
  <2>. QED  BY <1>1, <2>1, <2>4
<1>3. ASSUME NEW t \in Threads, AcquireSem(t) PROVE Kept'
  <2>1. UNCHANGED <<opened, conn_que_, scoped, sql>>
    BY <1>3 DEF AcquireSem
  <2>2. t \notin Keepers /\ \A u \in Threads : u # t => pc'[u] = pc[u]
    BY <1>3 DEF AcquireSem, At, Go, Keepers
  <2>3. \A u \in Keepers : u \in Keepers' /\ sql'[u] = sql[u]
    BY <2>1, <2>2 DEF Keepers
  <2>. QED  BY <1>1, <2>1, <2>3
<1>4. ASSUME NEW t \in Threads, Verify(t) \/ Query(t) PROVE Kept'
  <2>1. UNCHANGED <<opened, conn_que_, scoped, sql>>
    BY <1>4 DEF Verify, Query
  <2>2. \A u \in Threads : u # t => pc'[u] = pc[u]
    BY <1>4 DEF Verify, Query, Go
  <2>3. t \in Keepers => t \in Keepers'
    BY <1>4, <2>1 DEF Verify, Query, AfterQuery, At, Go, Keepers
  <2>4. \A u \in Keepers : u \in Keepers' /\ sql'[u] = sql[u]
    BY <2>1, <2>2, <2>3 DEF Keepers
  <2>. QED  BY <1>1, <2>1, <2>4
\* The front of the queue is now with t.
<1>5. ASSUME NEW t \in Threads, PopConn(t) PROVE Kept'
  <2>1. /\ sql' = [sql EXCEPT ![t] = conn_que_[1]] /\ conn_que_' = Tail(conn_que_)
        /\ pc' = [pc EXCEPT ![t] = "verify"] /\ UNCHANGED <<opened, scoped>>
        /\ pc[t] = "pop"
    BY <1>5 DEF PopConn, Rest, Go, At
  <2>2. /\ Len(conn_que_') = Len(conn_que_) - 1 /\ Len(conn_que_) \in Nat
        /\ \A i \in 1..Len(conn_que_') : conn_que_'[i] = conn_que_[i + 1]
    BY <1>5, <2>1, HeadTailProperties DEF PopConn
  <2>3. t \in Keepers' /\ sql'[t] = conn_que_[1]
    BY <2>1 DEF Keepers
  <2>4. \A u \in Keepers : u \in Keepers' /\ sql'[u] = sql[u]
    BY <2>1 DEF Keepers
  <2>5. ASSUME NEW c \in opened, InQueue(c) PROVE InQueue(c)' \/ \E u \in Keepers' : sql'[u] = c
    <3>1. PICK i \in 1..Len(conn_que_) : conn_que_[i] = c
      BY <2>5 DEF InQueue
    <3>2. CASE i = 1
      BY <2>3, <3>1, <3>2
    <3>3. CASE i # 1
      <4>1. i - 1 \in 1..Len(conn_que_') /\ conn_que_'[i - 1] = c
        BY <2>2, <3>1, <3>3
      <4>2. DOMAIN conn_que_' = 1..Len(conn_que_')
        BY <2>1, HeadTailProperties, <1>5 DEF PopConn
      <4>. QED  BY <4>1, <4>2 DEF InQueue
    <3>. QED  BY <3>2, <3>3
  <2>. QED  BY <2>1, <2>4, <2>5 DEF Kept
\* What t gives back is in the queue.
<1>6. ASSUME NEW t \in Threads, NEW from, NEW to, Push(t, from, to) PROVE Kept'
  <2>1. /\ conn_que_' = Append(conn_que_, sql[t]) /\ pc' = [pc EXCEPT ![t] = to]
        /\ UNCHANGED <<opened, scoped, sql>>
    BY <1>6 DEF Push, Go
  <2>2. /\ DOMAIN conn_que_' = 1..(Len(conn_que_) + 1) /\ Len(conn_que_) \in Nat
        /\ DOMAIN conn_que_ = 1..Len(conn_que_)
        /\ conn_que_'[Len(conn_que_) + 1] = sql[t]
        /\ \A i \in 1..Len(conn_que_) : conn_que_'[i] = conn_que_[i]
    BY <2>1
  <2>3. InQueue(sql[t])' /\ \A c \in opened : InQueue(c) => InQueue(c)'
    BY <2>1, <2>2 DEF InQueue
  <2>4. \A u \in Keepers : u # t => u \in Keepers'
    BY <2>1 DEF Keepers
  <2>. QED  BY <2>1, <2>3, <2>4 DEF Kept
<1>7. ASSUME NEW t \in Threads, NEW from \in {"posted", "posting"}, NEW to,
             PostSem(t, from, to)
      PROVE Kept'
  <2>1. UNCHANGED <<opened, conn_que_, scoped, sql>>
    BY <1>7 DEF PostSem
  <2>2. t \notin Keepers /\ \A u \in Threads : u # t => pc'[u] = pc[u]
    BY <1>7 DEF PostSem, At, Go, Keepers
  <2>3. \A u \in Keepers : u \in Keepers' /\ sql'[u] = sql[u]
    BY <2>1, <2>2 DEF Keepers
  <2>. QED  BY <1>1, <2>1, <2>3
<1>8. CASE UNCHANGED vars
  BY <1>1, <1>8 DEF vars, Keepers
<1>. QED
  BY <1>2, <1>3, <1>4, <1>5, <1>6, <1>7, <1>8 DEF Next, UserVerify, ReleaseConn

\* In both forms of use, and although a failed query leaves UserVerify early, every
\* connection that was opened stays in circulation.
THEOREM NoConnLost == Spec => []NoneLost
<1>1. Init => Kept
  <2>1. ASSUME Init PROVE Kept
    <3>1. PICK order \in [1..MAX_CONN_ -> opened \cup {NullConn}] :
            /\ \A c \in opened : \E i \in 1..MAX_CONN_ : order[i] = c
            /\ conn_que_ = order
      BY <2>1 DEF Init
    <3>. QED  BY <3>1 DEF Kept, InQueue
  <2>. QED  BY <2>1
<1>2. Kept => NoneLost
  BY DEF Kept, InQueue, Keepers, NoneLost
<1>. QED
  BY <1>1, <1>2, KeptStep, TypeCorrect, PTL DEF Spec
-----------------------------------------------------------------------------
(* With a named SqlConnRAII object a connection has one user.              *)

Holds(t) == pc[t] \in {"verify", "use", "release"} /\ sql[t] # NullConn

\* With the named object every connection is at one place: at one position of the queue
\* or with one thread.  The temporary's two points are never reached.
OnePlace ==
  scoped =>
    /\ \A t \in Threads : pc[t] \notin {"giveBack", "posted"}
    /\ \A t \in Threads : pc[t] \in {"use", "release"} => sql[t] # NullConn
    /\ \A i, j \in DOMAIN conn_que_ :
         conn_que_[i] = conn_que_[j] => i = j \/ conn_que_[i] = NullConn
    /\ \A t, u \in Threads : Holds(t) /\ Holds(u) /\ sql[t] = sql[u] => t = u
    /\ \A t \in Threads : Holds(t) => \A i \in DOMAIN conn_que_ : conn_que_[i] # sql[t]

LEMMA OnePlaceStep ==
  ASSUME TypeOK, OnePlace, [Next]_vars PROVE OnePlace'
<1>. USE DEF TypeOK
<1>1. CASE ~scoped
  BY <1>1 DEF Next, UserVerify, Begin, TestEmpty, AcquireSem, PopConn, Verify, Query,
              ReleaseConn, Push, PostSem, vars, OnePlace
<1>. SUFFICES ASSUME scoped PROVE OnePlace'
  BY <1>1
\* A move that leaves the queue alone and gives nobody a connection.
<1>2. ASSUME NEW t \in Threads, UNCHANGED <<conn_que_, scoped>>,
             \A u \in Threads : u # t => pc'[u] = pc[u] /\ sql'[u] = sql[u],
             pc'[t] \notin {"giveBack", "posted"},
             pc'[t] \in {"use", "release"} => sql'[t] # NullConn,
             Holds(t)' => Holds(t) /\ sql'[t] = sql[t]
      PROVE  OnePlace'
  <2>1. \A u \in Threads : Holds(u)' => Holds(u) /\ sql'[u] = sql[u]
    BY <1>2 DEF Holds
  <2>. QED  BY <1>2, <2>1 DEF OnePlace
<1>3. ASSUME NEW t \in Threads, Begin(t) \/ TestEmpty(t) PROVE OnePlace'
  <2>1. UNCHANGED <<conn_que_, scoped>>
    BY <1>3 DEF Begin, TestEmpty
  <2>2. \A u \in Threads : u # t => pc'[u] = pc[u] /\ sql'[u] = sql[u]
    BY <1>3 DEF Begin, TestEmpty, Go
  <2>3. pc'[t] \in {"test", "acquire"} \/ (pc'[t] = "verify" /\ sql'[t] = NullConn)
    BY <1>3 DEF Begin, TestEmpty, Go
  <2>. QED  BY <1>2, <2>1, <2>2, <2>3 DEF Holds
<1>4. ASSUME NEW t \in Threads, AcquireSem(t) PROVE OnePlace'
  <2>1. UNCHANGED <<conn_que_, scoped, sql>>
    BY <1>4 DEF AcquireSem
  <2>2. \A u \in Threads : u # t => pc'[u] = pc[u]
    BY <1>4 DEF AcquireSem, Go
  <2>3. pc'[t] \in {"acquire", "pop"}
    BY <1>4 DEF AcquireSem, At, Go
  <2>. QED  BY <1>2, <2>1, <2>2, <2>3 DEF Holds
<1>5. ASSUME NEW t \in Threads, Verify(t) \/ Query(t) PROVE OnePlace'
  <2>1. UNCHANGED <<conn_que_, scoped, sql>>
    BY <1>5 DEF Verify, Query
  <2>2. \A u \in Threads : u # t => pc'[u] = pc[u]
    BY <1>5 DEF Verify, Query, Go
  <2>3. /\ pc'[t] \in {"verify", "use", "release"}
        /\ pc'[t] \in {"use", "release"} => sql[t] # NullConn
        /\ pc[t] \in {"verify", "use"}
    BY <1>5 DEF Verify, Query, AfterQuery, At, Go, OnePlace
  <2>. QED  BY <1>2, <2>1, <2>2, <2>3 DEF Holds
<1>6. ASSUME NEW t \in Threads, PopConn(t) PROVE OnePlace'
  <2>1. /\ sql' = [sql EXCEPT ![t] = conn_que_[1]] /\ conn_que_' = Tail(conn_que_)
        /\ pc' = [pc EXCEPT ![t] = "verify"] /\ scoped' = scoped
        /\ pc[t] = "pop"
    BY <1>6 DEF PopConn, Rest, Go, At
  <2>2. /\ DOMAIN conn_que_ = 1..Len(conn_que_) /\ Len(conn_que_) \in Nat \ {0}
        /\ DOMAIN conn_que_' = 1..(Len(conn_que_) - 1)
        /\ \A i \in 1..(Len(conn_que_) - 1) : conn_que_'[i] = conn_que_[i + 1]
    BY <1>6, <2>1, HeadTailProperties DEF PopConn
  <2>3. \A u \in Threads : u # t => (Holds(u)' <=> Holds(u)) /\ sql'[u] = sql[u]
    BY <2>1 DEF Holds
  <2>4. sql'[t] = conn_que_[1] /\ pc'[t] = "verify" /\ (Holds(t)' <=> conn_que_[1] # NullConn)
    BY <2>1 DEF Holds
  <2>5. \A u \in Threads : pc'[u] \notin {"giveBack", "posted"}
                           /\ (pc'[u] \in {"use", "release"} => sql'[u] # NullConn)
    BY <2>1 DEF OnePlace
  <2>6. \A i, j \in DOMAIN conn_que_' :
          conn_que_'[i] = conn_que_'[j] => i = j \/ conn_que_'[i] = NullConn
    <3>1. ASSUME NEW i \in 1..(Len(conn_que_) - 1), NEW j \in 1..(Len(conn_que_) - 1),
                 conn_que_[i + 1] = conn_que_[j + 1]
          PROVE  i = j \/ conn_que_[i + 1] = NullConn
      <4>1. i + 1 \in DOMAIN conn_que_ /\ j + 1 \in DOMAIN conn_que_
        BY <2>2
      <4>2. i + 1 = j + 1 \/ conn_que_[i + 1] = NullConn
        BY <3>1, <4>1 DEF OnePlace
      <4>. QED  BY <4>2
    <3>. QED  BY <2>2, <3>1
  <2>7. \A i \in DOMAIN conn_que_' :
          /\ conn_que_'[i] # conn_que_[1] \/ conn_que_[1] = NullConn
          /\ \E j \in DOMAIN conn_que_ : conn_que_'[i] = conn_que_[j]
    <3>1. ASSUME NEW i \in 1..(Len(conn_que_) - 1)
          PROVE  /\ i + 1 \in DOMAIN conn_que_ /\ 1 \in DOMAIN conn_que_
                 /\ conn_que_[i + 1] # conn_que_[1] \/ conn_que_[1] = NullConn
      <4>1. i + 1 \in DOMAIN conn_que_ /\ 1 \in DOMAIN conn_que_ /\ i + 1 # 1
        BY <2>2
      <4>. QED  BY <4>1 DEF OnePlace
    <3>. QED  BY <2>2, <3>1
  <2>8. \A u, v \in Threads : Holds(u)' /\ Holds(v)' /\ sql'[u] = sql'[v] => u = v
    <3>1. \A u \in Threads : u # t /\ Holds(u) => sql[u] # conn_que_[1]
      BY <2>2 DEF OnePlace
    <3>. QED  BY <2>3, <2>4, <3>1 DEF OnePlace
  <2>9. \A u \in Threads : Holds(u)' => \A i \in DOMAIN conn_que_' : conn_que_'[i] # sql'[u]
    <3>1. ASSUME NEW u \in Threads, u # t, Holds(u)'
          PROVE  \A i \in DOMAIN conn_que_' : conn_que_'[i] # sql'[u]
      BY <2>3, <2>7, <3>1 DEF OnePlace
    <3>2. ASSUME Holds(t)' PROVE \A i \in DOMAIN conn_que_' : conn_que_'[i] # sql'[t]
      BY <2>4, <2>7, <3>2
    <3>. QED  BY <3>1, <3>2
  <2>. QED  BY <2>5, <2>6, <2>8, <2>9 DEF OnePlace
\* With the named object only UserVerify's end gives a connection back.
<1>7. ASSUME NEW t \in Threads, Push(t, "release", "posting") PROVE OnePlace'
  <2>1. /\ conn_que_' = Append(conn_que_, sql[t]) /\ pc' = [pc EXCEPT ![t] = "posting"]
        /\ UNCHANGED <<scoped, sql>> /\ pc[t] = "release"
    BY <1>7 DEF Push, Go, At
  <2>2. /\ DOMAIN conn_que_ = 1..Len(conn_que_) /\ Len(conn_que_) \in Nat
        /\ DOMAIN conn_que_' = 1..(Len(conn_que_) + 1)
        /\ conn_que_'[Len(conn_que_) + 1] = sql[t]
        /\ \A i \in 1..Len(conn_que_) : conn_que_'[i] = conn_que_[i]
    BY <2>1
  <2>3. Holds(t) /\ ~Holds(t)' /\ \A u \in Threads : u # t => (Holds(u)' <=> Holds(u))
    BY <2>1 DEF Holds, OnePlace
  <2>4. \A u \in Threads : pc'[u] \notin {"giveBack", "posted"}
                           /\ (pc'[u] \in {"use", "release"} => sql'[u] # NullConn)
    BY <2>1 DEF OnePlace
  <2>5. \A i \in 1..Len(conn_que_) : conn_que_[i] # sql[t]
    BY <2>2, <2>3 DEF OnePlace
  <2>6. \A i, j \in DOMAIN conn_que_' :
          conn_que_'[i] = conn_que_'[j] => i = j \/ conn_que_'[i] = NullConn
    BY <2>2, <2>5 DEF OnePlace
  <2>7. \A u, v \in Threads : Holds(u)' /\ Holds(v)' /\ sql'[u] = sql'[v] => u = v
    BY <2>1, <2>3 DEF OnePlace
  <2>8. \A u \in Threads : Holds(u)' => \A i \in DOMAIN conn_que_' : conn_que_'[i] # sql'[u]
    BY <2>1, <2>2, <2>3 DEF OnePlace
  <2>. QED  BY <2>4, <2>6, <2>7, <2>8 DEF OnePlace
<1>8. ASSUME NEW t \in Threads, PostSem(t, "posting", "out") PROVE OnePlace'
  <2>1. UNCHANGED <<conn_que_, scoped, sql>> /\ pc' = [pc EXCEPT ![t] = "out"]
    BY <1>8 DEF PostSem, Go
  <2>2. \A u \in Threads : u # t => pc'[u] = pc[u] /\ sql'[u] = sql[u]
    BY <2>1
  <2>3. pc'[t] = "out"
    BY <2>1
  <2>. QED  BY <1>2, <2>1, <2>2, <2>3 DEF Holds
<1>9. ASSUME NEW t \in Threads, ReleaseConn(t) PROVE OnePlace'
  <2>1. pc[t] \notin {"giveBack", "posted"}
    BY DEF OnePlace
  <2>. QED  BY <1>7, <1>8, <1>9, <2>1 DEF ReleaseConn, Push, PostSem, At
<1>10. CASE UNCHANGED vars
  BY <1>10 DEF vars, OnePlace, Holds
<1>. QED
  BY <1>3, <1>4, <1>5, <1>6, <1>9, <1>10 DEF Next, UserVerify

\* With a named SqlConnRAII object, for every number of threads and connections, no two
\* threads use one connection and none is used while it is in the queue; that is what
\* the temporary of UserVerify breaks.
THEOREM GuardIsExclusive == Spec => []NamedGuardExclusive
<1>1. Init => OnePlace
  BY DEF Init, OnePlace, Holds
<1>2. TypeOK /\ OnePlace => NamedGuardExclusive
  BY DEF OnePlace, Holds, NamedGuardExclusive, ExclusiveUse, Users
<1>. QED
  BY <1>1, <1>2, OnePlaceStep, TypeCorrect, PTL DEF Spec
=============================================================================
