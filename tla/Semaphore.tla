------------------------------- MODULE Semaphore -------------------------------
(***************************************************************************)
(* Semaphore: a count under a mutex and a condition variable.  A step is   *)
(* one locked section; cv_.wait splits Acquire in two.  SqlConnPool        *)
(* composes these actions with its own.                                   *)
(***************************************************************************)
EXTENDS Integers, FiniteSets

CONSTANTS
  Threads,   \* the threads that use the semaphore
  Count      \* the initial count

ASSUME SemaphoreAssumption == IsFiniteSet(Threads) /\ Count \in Nat

VARIABLES
  count_,
  acquiring  \* per thread: no (outside Acquire), asleep (in cv_.wait), awake (woken,
             \* about to test count_ again)

semVars == <<count_, acquiring>>

SemInit == count_ = Count /\ acquiring = [t \in Threads |-> "no"]

Asleep == {t \in Threads : acquiring[t] = "asleep"}
Awake  == {t \in Threads : acquiring[t] = "awake"}

MayTake(t) == count_ > 0

\* Acquire returns, at once or after a wait.
Acquire(t) ==
  /\ acquiring[t] # "asleep"
  /\ MayTake(t)
  /\ count_' = count_ - 1
  /\ acquiring' = [acquiring EXCEPT ![t] = "no"]

\* Acquire finds nothing and waits, or waits again.
Wait(t) ==
  /\ acquiring[t] # "asleep"
  /\ ~MayTake(t)
  /\ acquiring' = [acquiring EXCEPT ![t] = "asleep"]
  /\ UNCHANGED count_

\* cv_.wait may return without a notification.
SpuriousWakeup(t) ==
  /\ acquiring[t] = "asleep"
  /\ acquiring' = [acquiring EXCEPT ![t] = "awake"]
  /\ UNCHANGED count_

\* A failed TryAcquire changes nothing.
TryAcquire(t) ==
  /\ acquiring[t] = "no"
  /\ IF count_ > 0 THEN count_' = count_ - 1 ELSE UNCHANGED count_
  /\ UNCHANGED acquiring

\* Mutant: Release does not notify.
MutWoken == {}

\* The sleepers that notify_one may wake.
Woken == Asleep

Release(t) ==
  /\ acquiring[t] = "no"
  /\ count_' = count_ + 1
  /\ \/ \E u \in Woken : acquiring' = [acquiring EXCEPT ![u] = "awake"]
     \/ Woken = {} /\ UNCHANGED acquiring

SemNext ==
  \E t \in Threads :
    Acquire(t) \/ Wait(t) \/ SpuriousWakeup(t) \/ TryAcquire(t) \/ Release(t)

SemSpec == SemInit /\ [][SemNext]_semVars

-----------------------------------------------------------------------------
(* What the semaphore promises.                                            *)

\* The count never wraps below zero; a thread is in Acquire or not.
SemTypeOK ==
  /\ count_ \in Nat
  /\ acquiring \in [Threads -> {"no", "asleep", "awake"}]

\* One notify_one per Release is enough, in spite of the threads that take a unit
\* without waiting: while a thread sleeps in Acquire, every unit of the count has
\* a woken thread that is about to look at it.
NoStrandedUnit == Asleep # {} => count_ <= Cardinality(Awake)
=============================================================================
