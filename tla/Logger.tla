-------------------------------- MODULE Logger --------------------------------
(***************************************************************************)
(* Logger with a queue (Initialize was called with que_size >= 1):        *)
(* writers format a line under mtx_ and push it to a BlockQueue or write   *)
(* it to the file themselves; the flush thread moves lines from the queue  *)
(* to the file; the destructor drains and destroys the queue and joins the *)
(* thread.  A step is one call of the queue, or one section under mtx_ (a  *)
(* writer holds mtx_ over several steps).  A line is its number, in the    *)
(* order of the time stamps that WriteDatetime writes.                     *)
(***************************************************************************)
EXTENDS Integers, Sequences, FiniteSets

CONSTANTS
  Writers, Flusher,  \* the threads
  NoThread, NoLine,
  capacity_,         \* que_size
  MaxLines           \* bound: lines logged

ASSUME LoggerAssumption ==
  /\ IsFiniteSet(Writers) /\ Flusher \notin Writers /\ NoThread \notin Writers
  /\ capacity_ \in Nat \ {0} /\ MaxLines \in Nat \ {0} /\ NoLine \notin 1..MaxLines

VARIABLES
  que_, closed_, call, item, destroying, pushes,  \* *que_
  mtx_,      \* the writer that holds it
  wpc,       \* per writer: out, test, push, direct, unlock, flush
  line,      \* per writer: what is in buff_ while it holds mtx_
  fpc, str,  \* the flush thread: pop, write, exit; the line it has popped
  dpc,       \* the destructor: no, drain, destroy, join, close, gone
  logged,    \* lines formatted
  file,      \* what fputs has been called with
  flushed    \* length of the part of file that is known to be on disk

queVars == <<que_, closed_, call, item, destroying, pushes>>
vars == <<queVars, mtx_, wpc, line, fpc, str, dpc, logged, file, flushed>>

Lines == 1..MaxLines

Que == INSTANCE BlockQueue WITH
         Threads <- Writers \cup {Flusher}, Items <- Lines, MaxPushes <- MaxLines

Init ==
  /\ Que!Init
  /\ mtx_ = NoThread
  /\ wpc = [w \in Writers |-> "out"] /\ line = [w \in Writers |-> NoLine]
  /\ fpc = "pop" /\ str = NoLine
  /\ dpc = "no"
  /\ logged = 0 /\ file = <<>> /\ flushed = 0

\* Mutant: no lock around the formatting of the line.
MutFree == TRUE

Free == mtx_ = NoThread

-----------------------------------------------------------------------------
(* The writers: LOG_BASE calls WriteLog and FlushToFile.                   *)

WGo(w, from, to) == wpc[w] = from /\ wpc' = [wpc EXCEPT ![w] = to]

\* The lock of WriteLog, the time stamp and the text.
Format(w) ==
  /\ WGo(w, "out", "test")
  /\ Free /\ dpc = "no" /\ logged < MaxLines
  /\ mtx_' = w
  /\ logged' = logged + 1
  /\ line' = [line EXCEPT ![w] = logged + 1]
  /\ UNCHANGED <<queVars, fpc, str, dpc, file, flushed>>

\* Mutant: a full queue is not looked at.
MutMayPush == TRUE

MayPush == ~Que!Full

TestFull(w) ==
  /\ WGo(w, "test", IF MayPush THEN "push" ELSE "direct")
  /\ UNCHANGED <<queVars, mtx_, line, fpc, str, dpc, logged, file, flushed>>

PushLine(w) ==
  /\ wpc[w] = "push"
  /\ Que!Push(w, line[w])
  /\ IF Que!Full THEN UNCHANGED <<wpc, line>>
                 ELSE WGo(w, "push", "unlock") /\ line' = [line EXCEPT ![w] = NoLine]
  /\ UNCHANGED <<mtx_, fpc, str, dpc, logged, file, flushed>>

\* Mutant: a line that finds the queue full is dropped.
MutPutDirect(w) == UNCHANGED file

PutDirect(w) == file' = Append(file, line[w])

WriteDirect(w) ==
  /\ WGo(w, "direct", "unlock")
  /\ PutDirect(w) /\ line' = [line EXCEPT ![w] = NoLine]
  /\ UNCHANGED <<queVars, mtx_, fpc, str, dpc, logged, flushed>>

Unlock(w) ==
  /\ WGo(w, "unlock", "flush")
  /\ mtx_' = NoThread
  /\ UNCHANGED <<queVars, line, fpc, str, dpc, logged, file, flushed>>

FlushToFile(w) ==
  /\ WGo(w, "flush", "out") /\ Free
  /\ flushed' = Len(file)
  /\ UNCHANGED <<queVars, mtx_, line, fpc, str, dpc, logged, file>>

WriteLog(w) == TestFull(w) \/ PushLine(w) \/ WriteDirect(w) \/ Unlock(w) \/ FlushToFile(w)

-----------------------------------------------------------------------------
(* The flush thread.                                                       *)

Pop ==
  /\ fpc = "pop"
  /\ \/ Que!Pop(Flusher) /\ fpc' = "write" /\ str' = Head(que_)
     \/ Que!PopWait(Flusher) /\ UNCHANGED <<fpc, str>>
     \/ Que!PopFalse(Flusher) /\ fpc' = "exit" /\ UNCHANGED str
  /\ UNCHANGED <<mtx_, wpc, line, dpc, logged, file, flushed>>

PutPopped ==
  /\ fpc = "write" /\ Free
  /\ file' = Append(file, str) /\ str' = NoLine
  /\ fpc' = "pop"
  /\ UNCHANGED <<queVars, mtx_, wpc, line, dpc, logged, flushed>>

AsyncWrite_ == Pop \/ PutPopped

SpuriousWakeup ==
  /\ \E t \in Writers \cup {Flusher} : Que!SpuriousWakeup(t)
  /\ UNCHANGED <<mtx_, wpc, line, fpc, str, dpc, logged, file, flushed>>

-----------------------------------------------------------------------------
(* The destructor of the static object: no other thread uses it any more.  *)

DGo(from, to) ==
  /\ dpc = from /\ dpc' = to
  /\ UNCHANGED <<mtx_, wpc, line, fpc, str, logged, file>>

DestructorBegins ==
  /\ \A w \in Writers : wpc[w] = "out"
  /\ DGo("no", "drain")
  /\ UNCHANGED <<queVars, flushed>>

\* Mutant: the destructor does not wait for the queue to be empty.
MutDrained == TRUE

Drained == que_ = <<>>

Drain ==
  \/ Drained /\ DGo("drain", "destroy") /\ UNCHANGED <<queVars, flushed>>
  \/ ~Drained /\ DGo("drain", "drain") /\ Que!Flush /\ UNCHANGED flushed

\* The destructor of the queue calls DestroyQueue again, after fclose.
DestroyQueue ==
  \/ DGo("destroy", "destroy") /\ Que!DestroyQueue /\ UNCHANGED flushed
  \/ DGo("destroy", "destroy") /\ Que!NotifyProducers /\ UNCHANGED flushed
  \/ DGo("destroy", "join") /\ Que!NotifyConsumers /\ UNCHANGED flushed

Join == fpc = "exit" /\ DGo("join", "close") /\ UNCHANGED <<queVars, flushed>>

CloseFile == DGo("close", "gone") /\ flushed' = Len(file) /\ UNCHANGED queVars

Destructor == DestructorBegins \/ Drain \/ DestroyQueue \/ Join \/ CloseFile

Next ==
  \/ \E w \in Writers : Format(w) \/ WriteLog(w)
  \/ AsyncWrite_ \/ SpuriousWakeup \/ Destructor

Spec == Init /\ [][Next]_vars

\* Every thread goes on with what it has begun.  Nobody has to log a line or to end
\* the program.  mtx_ need not be fair: MaxLines ends the competition for it.
FairSpec ==
  /\ Spec
  /\ \A w \in Writers : WF_vars(WriteLog(w))
  /\ WF_vars(AsyncWrite_)
  /\ WF_vars(Drain \/ DestroyQueue \/ Join \/ CloseFile)

-----------------------------------------------------------------------------
(* What the logger promises.                                               *)

\* What the flush thread still has to write, oldest first.
Pending == (IF str = NoLine THEN <<>> ELSE <<str>>) \o que_
Positions(s, n) == {i \in DOMAIN s : s[i] = n}

\* A writer never waits in Push, where it would keep mtx_: the test of Full and the
\* Push are two sections of the queue's lock, and mtx_ alone keeps others from
\* filling the queue in between.
PushNeverWaits == \A w \in Writers : call[w] = "out"

\* Each line that was formatted is in exactly one place, and once: in buff_, in the
\* queue, with the flush thread or in the file; and when the destructor has returned
\* all of them are on disk.
NothingLost ==
  /\ \A n \in 1..logged :
       Cardinality(Positions(file, n)) + Cardinality(Positions(Pending, n))
         + Cardinality({w \in Writers : line[w] = n}) = 1
  /\ dpc = "gone" => flushed = logged

\* Lines that wait are written in the order of their time stamps; a line that is
\* written directly overtakes those that wait, one queue and one line at most.
OvertakesFew ==
  /\ \A i, j \in DOMAIN Pending : i < j => Pending[i] < Pending[j]
  /\ \A i \in DOMAIN file :
       Cardinality({n \in 1..file[i] : \A j \in 1..i : file[j] # n}) <= capacity_ + 1

\* Every line reaches the file, whether or not another one is ever logged.
EveryLineWritten == \A n \in Lines : n <= logged ~> Positions(file, n) # {}

\* The destructor returns: "all other blocked threads are woken".
DestructorReturns == dpc # "no" ~> dpc = "gone"
=============================================================================
