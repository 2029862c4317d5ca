------------------------------ MODULE SqlConnPool ------------------------------
(***************************************************************************)
(* SqlConnPool, its Semaphore and SqlConnRAII, as HttpRequest::UserVerify  *)
(* uses them.  A step is one call of the semaphore, one access to          *)
(* conn_que_, or one call of the MySQL library.                            *)
(*                                                                         *)
(* UserVerify writes SqlConnRAII(&sql, ...): a temporary, which gives the  *)
(* connection back at the end of that very statement; UserVerify then uses *)
(* it and gives it back once more.  With scoped it takes the form of       *)
(* test/test_sqlconnpool instead, a named object that lives as long as the *)
(* connection is used.                                                     *)
(***************************************************************************)
EXTENDS Semaphore, Sequences

CONSTANTS
  Conns,     \* the connections that Initialize is asked to open
  NullConn,  \* nullptr: what Initialize pushes for one it cannot open, and what
             \* AcquireConn returns when the queue is empty
  Forms,     \* the values of scoped
  MaxCalls   \* bound: calls of UserVerify

ASSUME PoolAssumption ==
  /\ IsFiniteSet(Conns) /\ Conns # {} /\ NullConn \notin Conns
  /\ Forms \subseteq BOOLEAN /\ MaxCalls \in Nat
  /\ Count = Cardinality(Conns)

\* The semaphore starts with one unit per connection asked for.
MAX_CONN_ == Count

VARIABLES
  opened,  \* the connections that Initialize has opened
  conn_que_,
  scoped,  \* the SqlConnRAII object is named
  pc,      \* per thread: out, test, acquire, pop, verify (the assert), giveBack, posted
           \* (pushed by the temporary, mtx_ still held), use, release, posting
           \* (pushed by UserVerify or the named object, mtx_ still held)
  sql,     \* per thread: the local sql
  calls,   \* calls made
  aborted  \* an assertion has failed, the process is gone

vars == <<semVars, opened, conn_que_, scoped, pc, sql, calls, aborted>>

\* Initialize has pushed a connection, or nullptr, for each one asked for.
Init ==
  /\ SemInit
  /\ opened \in SUBSET Conns
  /\ \E order \in [1..MAX_CONN_ -> opened \cup {NullConn}] :
       /\ \A c \in opened : \E i \in 1..MAX_CONN_ : order[i] = c
       /\ \A i, j \in 1..MAX_CONN_ : order[i] = order[j] /\ i # j => order[i] = NullConn
       /\ conn_que_ = order
  /\ scoped \in Forms
  /\ pc = [t \in Threads |-> "out"]
  /\ sql = [t \in Threads |-> NullConn]
  /\ calls = 0
  /\ aborted = FALSE

At(t, label) == pc[t] = label
Go(t, label) == pc' = [pc EXCEPT ![t] = label]
\* mtx_ is free.
Unlocked == \A t \in Threads : pc[t] \notin {"posted", "posting"}

Begin(t) ==
  /\ At(t, "out") /\ calls < MaxCalls
  /\ calls' = calls + 1
  /\ Go(t, "test")
  /\ UNCHANGED <<semVars, opened, conn_que_, scoped, sql, aborted>>

\* AcquireConn tests conn_que_ without mtx_.  The two pointers it compares are read
\* one after the other: a push and a pop between them make a queue look empty that
\* never was.
TestEmpty(t) ==
  /\ At(t, "test")
  /\ \/ /\ conn_que_ = <<>> \/ \E u \in Threads \ {t} : pc[u] # "out"
        /\ sql' = [sql EXCEPT ![t] = NullConn] /\ Go(t, "verify")
     \/ conn_que_ # <<>> /\ Go(t, "acquire") /\ UNCHANGED sql
  /\ UNCHANGED <<semVars, opened, conn_que_, scoped, calls, aborted>>

AcquireSem(t) ==
  /\ At(t, "acquire")
  /\ \/ Acquire(t) /\ Go(t, "pop")
     \/ Wait(t) /\ UNCHANGED pc
     \/ SpuriousWakeup(t) /\ UNCHANGED pc
  /\ UNCHANGED <<opened, conn_que_, scoped, sql, calls, aborted>>

\* Mutant: the front is read, but not removed.
MutRest == conn_que_

Rest == Tail(conn_que_)

\* front() and pop() of an empty std::queue would be undefined: NeverPopsEmpty.
PopConn(t) ==
  /\ At(t, "pop") /\ Unlocked /\ conn_que_ # <<>>
  /\ sql' = [sql EXCEPT ![t] = Head(conn_que_)]
  /\ conn_que_' = Rest
  /\ Go(t, "verify")
  /\ UNCHANGED <<semVars, opened, scoped, calls, aborted>>

\* The temporary gives the connection back before assert(sql) is reached; the
\* assertion holds of what a thread gives back, so it is tested here.
Verify(t) ==
  /\ At(t, "verify")
  /\ IF sql[t] = NullConn
     THEN aborted' = TRUE /\ UNCHANGED pc
     ELSE UNCHANGED aborted /\ Go(t, IF scoped THEN "use" ELSE "giveBack")
  /\ UNCHANGED <<semVars, opened, conn_que_, scoped, sql, calls>>

\* ReleaseConn, called by the temporary and by UserVerify or the named object.
Push(t, from, to) ==
  /\ At(t, from) /\ Unlocked
  /\ conn_que_' = Append(conn_que_, sql[t])
  /\ Go(t, to)
  /\ UNCHANGED <<semVars, opened, scoped, sql, calls, aborted>>

\* Mutant: ReleaseConn forgets the semaphore.
MutPost(t) == UNCHANGED semVars

Post(t) == Release(t)

\* psem_->Release(), still under mtx_.
PostSem(t, from, to) ==
  /\ At(t, from)
  /\ Post(t)
  /\ Go(t, to)
  /\ UNCHANGED <<opened, conn_que_, scoped, sql, calls, aborted>>

ReleaseConn(t) ==
  \/ Push(t, "giveBack", "posted") \/ PostSem(t, "posted", "use")
  \/ Push(t, "release", "posting") \/ PostSem(t, "posting", "out")

\* Mutant: the failure of a query leaves by a path that keeps the connection.
MutAfterQuery == {"release", "out"}

\* A failed query returns without ReleaseConn; the named object gives the connection
\* back on every path.
AfterQuery == IF scoped THEN {"release"} ELSE {"release", "out"}

\* mysql_query and the functions that read its result.
Query(t) ==
  /\ At(t, "use")
  /\ \E label \in AfterQuery : Go(t, label)
  /\ UNCHANGED <<semVars, opened, conn_que_, scoped, sql, calls, aborted>>

UserVerify(t) ==
  TestEmpty(t) \/ AcquireSem(t) \/ PopConn(t) \/ Verify(t) \/ ReleaseConn(t) \/ Query(t)

Next == ~aborted /\ \E t \in Threads : Begin(t) \/ UserVerify(t)

Spec == Init /\ [][Next]_vars

\* The threads keep running and queries return.  A spurious wakeup is no progress.
Progress(t) == ~aborted /\ UserVerify(t) /\ ~SpuriousWakeup(t)
FairSpec == Spec /\ \A t \in Threads : WF_vars(Progress(t))

-----------------------------------------------------------------------------
(* What the pool promises.                                                 *)

Users == {t \in Threads : pc[t] \in {"use", "giveBack", "release"}}
Poppers == {t \in Threads : pc[t] = "pop"}
Posters == {t \in Threads : pc[t] \in {"posted", "posting"}}

\* Every variable keeps its type.
TypeOK ==
  /\ SemTypeOK
  /\ opened \subseteq Conns /\ scoped \in BOOLEAN
  /\ conn_que_ \in Seq(Conns \cup {NullConn})
  /\ pc \in [Threads -> {"out", "test", "acquire", "pop", "verify", "giveBack",
                         "posted", "use", "release", "posting"}]
  /\ sql \in [Threads -> Conns \cup {NullConn}]
  /\ calls \in Nat /\ aborted \in BOOLEAN

\* The semaphore counts the queue: what is in conn_que_ is free, claimed by a thread
\* that has passed Acquire, or pushed by one that is about to call Release.
QueueMatchesSem ==
  Len(conn_que_) = count_ + Cardinality(Poppers) + Cardinality(Posters)

\* AcquireConn never takes the front of an empty queue, in spite of the unlocked
\* test and of ReleaseConn's two steps.
NeverPopsEmpty == \A t \in Threads : pc[t] = "pop" /\ Unlocked => conn_que_ # <<>>

\* ReleaseConn takes back "an owned connection" (sqlconnpool.h): one that a thread
\* uses is used by no other and is not in the queue.
ExclusiveUse ==
  \A t \in Users :
    /\ \A u \in Users : sql[t] = sql[u] => t = u
    /\ \A i \in DOMAIN conn_que_ : conn_que_[i] # sql[t]

\* With a named SqlConnRAII object, as in the tests, connections are exclusive.
NamedGuardExclusive == scoped => ExclusiveUse

\* No connection is lost: each that Initialize opened is in the queue or with a
\* thread that will give it back.
NoneLost ==
  \A c \in opened :
    \/ \E i \in DOMAIN conn_que_ : conn_que_[i] = c
    \/ \E t \in Threads :
         sql[t] = c /\ pc[t] \in {"verify", "giveBack", "use", "release"}

\* A thread that has passed the test of conn_que_ comes out of AcquireConn.
Acquires == \A t \in Threads : pc[t] = "acquire" ~> (pc[t] # "acquire" \/ aborted)
=============================================================================
