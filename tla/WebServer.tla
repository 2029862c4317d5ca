------------------------------ MODULE WebServer ------------------------------
(***************************************************************************)
(* The reactor of orion_web_server: the event loop (WebServer::Start), the *)
(* worker threads that run OnRead_ and OnWrite_, the HttpConn object that  *)
(* users_ keeps for every file descriptor, the one-shot epoll interest and *)
(* the idle timer.                                                         *)
(*                                                                         *)
(* A step is one access to state that another thread may access: a system  *)
(* call, one locked section, one assignment of HttpConn.  The kernel and   *)
(* the peers are actions of their own.  Payload is counted: inbound data   *)
(* in units that parse() handles one at a time, outbound data in units of  *)
(* HeaderUnits (writeBuff_, iov_[0]) and BodyUnits (the file, iov_[1]).    *)
(***************************************************************************)
EXTENDS Integers, Sequences, FiniteSets

CONSTANTS
  Fds,          \* file descriptors that accept() can return
  Workers,      \* threads of the ThreadPool
  Main,         \* the thread that runs Start()
  NoFd,         \* "no client": the thread holds no HttpConn
  MaxFd,        \* MAX_FD
  ListenET,     \* listen_event_ has EPOLLET (trigMode 2, 3)
  ConnET,       \* conn_event_ has EPOLLET, i.e. HttpConn::isET (trigMode 1, 3)
  Timeouts,     \* the values of timeoutOn
  Timely,       \* no task is queued or running for as long as timeout_ms_
  Prompt,       \* no entry expires between the two clock readings of GetNextTick
  HeaderUnits,  \* size of a response header in units
  BodyUnits,    \* size of a response file in units
  LoopUnits,    \* the 10240 bytes of the loop condition of HttpConn::write
  SizeT,        \* number of values of size_t, in units
  MaxArrivals,  \* bound: connections made by the peers
  MaxSends      \* bound: units sent by the peers

ASSUME ServerAssumption ==
  /\ Main \notin Workers /\ NoFd \notin Fds
  /\ IsFiniteSet(Fds)
  /\ MaxFd \in Nat \ {0}
  /\ {ListenET, ConnET, Timely, Prompt} \subseteq BOOLEAN /\ Timeouts \subseteq BOOLEAN
  /\ HeaderUnits \in Nat \ {0} /\ BodyUnits \in Nat \ {0}
  /\ LoopUnits \in Nat
  /\ SizeT \in Nat /\ HeaderUnits + BodyUnits < SizeT
  /\ MaxArrivals \in Nat /\ MaxSends \in Nat

Threads == Workers \cup {Main}

VARIABLES
  \* The kernel and the peers
  alive,        \* the process has not been killed
  backlog,      \* established connections waiting for accept()
  listenEdge,   \* an edge-triggered event of the listening socket is due
  arrivals,     \* connections made so far
  sends,        \* units sent so far
  sock,         \* per descriptor: free, open, fin (the peer closed), rst (it reset
                \* the open connection), broken (it reset after it had closed)
  inbound,      \* units in the receive buffer of the socket
  room,         \* the send buffer of the socket has room
  interest,     \* epoll interest: none (not registered), off (one-shot fired), IN, OUT
  \* HttpConn, one object per descriptor, and its static userCount
  isClose_,
  userCount,
  readBuff_,    \* units read and not yet consumed by parse()
  writeBuff_,   \* ReadableBytes() of writeBuff_
  iov0, iov1,   \* iov_[0].iov_len, iov_[1].iov_len
  iovCnt_,
  keepAlive,    \* request_.IsKeepAlive()
  mapped,       \* response_.mmFile_ is not null: iov_[1] points into a mapping
  \* The event loop
  timeoutOn,    \* timeout_ms_ > 0, fixed by the constructor
  timer,        \* the entry of MinHeapTimer: none, fresh, stale
  timeMS,       \* argument of epoll_wait: block (negative) or tick (until an entry expires)
  event,        \* events_ still to be handled, per descriptor
  listenEvent,  \* ... and for listen_fd_
  back,         \* where the event loop continues after CloseConn_
  \* ThreadPool::tasks and the threads
  tasks,
  pc,           \* control point of every thread
  client,       \* the HttpConn argument of the running handler
  sent          \* the result of the last writev of a worker

peerVars   == <<arrivals, sends>>
listenVars == <<backlog, listenEdge>>
sockVars   == <<sock, inbound, room>>
kernelVars == <<alive, peerVars, listenVars, sockVars>>
writeVars  == <<writeBuff_, iov0, iov1, iovCnt_, mapped>>
connVars   == <<isClose_, userCount, readBuff_, keepAlive, writeVars>>
batchVars  == <<event, listenEvent>>
loopVars   == <<timer, timeMS, batchVars, back>>
threadVars == <<tasks, pc, client, sent>>
vars == <<timeoutOn, kernelVars, interest, connVars, loopVars, threadVars>>

ClosePcs  == {"closeRemove", "closeTest", "closeMark", "closeFd"}
MainPcs   == {"tick", "measure", "wait", "dispatch", "accept", "init", "add"} \cup ClosePcs
WorkerPcs == {"idle", "read", "process", "rearmIn", "rearmOut", "writev", "wrote"}
               \cup ClosePcs

\* The members of HttpConn that its constructor leaves uninitialized (iov_) hold
\* any value; only iov_[1].iov_len is ever read before it is assigned.
Init ==
  /\ alive = TRUE /\ backlog = 0 /\ listenEdge = FALSE
  /\ arrivals = 0 /\ sends = 0
  /\ sock = [f \in Fds |-> "free"]
  /\ inbound = [f \in Fds |-> 0]
  /\ room = [f \in Fds |-> TRUE]
  /\ interest = [f \in Fds |-> "none"]
  /\ isClose_ = [f \in Fds |-> TRUE]
  /\ userCount = 0
  /\ readBuff_ = [f \in Fds |-> 0]
  /\ writeBuff_ = [f \in Fds |-> 0]
  /\ iov0 = [f \in Fds |-> 0]
  /\ iov1 \in [Fds -> {0, BodyUnits}]
  /\ iovCnt_ = [f \in Fds |-> 1]
  /\ keepAlive = [f \in Fds |-> FALSE]
  /\ mapped = [f \in Fds |-> FALSE]
  /\ timeoutOn \in Timeouts
  /\ timer = [f \in Fds |-> "none"]
  /\ event = [f \in Fds |-> "none"]
  /\ timeMS = "block" /\ listenEvent = FALSE /\ back = "tick"
  /\ tasks = <<>>
  /\ pc = [t \in Threads |-> IF t = Main THEN "tick" ELSE "idle"]
  /\ client = [t \in Threads |-> NoFd]
  /\ sent = [w \in Workers |-> 0]

Armed(f)  == interest[f] \in {"IN", "OUT"}
Queued(f) == {i \in DOMAIN tasks : tasks[i].fd = f}
InFlight(f) == Queued(f) # {} \/ \E w \in Workers : client[w] = f

At(t, label) == pc[t] = label
Go(t, label) == pc' = [pc EXCEPT ![t] = label]
\* Thread t ends its handler and goes on at label.
Leave(t, label) == Go(t, label) /\ client' = [client EXCEPT ![t] = NoFd]

-----------------------------------------------------------------------------
(* The peers, the network and the clock.                                   *)

Connect ==
  /\ arrivals < MaxArrivals
  /\ arrivals' = arrivals + 1
  /\ backlog' = backlog + 1
  /\ listenEdge' = TRUE
  /\ UNCHANGED <<alive, sends, sockVars, interest, connVars, loopVars, threadVars>>

PeerSend(f) ==
  /\ sock[f] = "open" /\ sends < MaxSends
  /\ sends' = sends + 1
  /\ inbound' = [inbound EXCEPT ![f] = @ + 1]
  /\ UNCHANGED <<alive, listenVars, arrivals, sock, room, interest, connVars,
                 loopVars, threadVars>>

\* The peer closes (FIN) or resets; one that has closed resets on further data.
PeerClose(f) ==
  /\ \/ sock[f] = "open" /\ \E s \in {"fin", "rst"} : sock' = [sock EXCEPT ![f] = s]
     \/ sock[f] = "fin" /\ sock' = [sock EXCEPT ![f] = "broken"]
  /\ UNCHANGED <<alive, peerVars, listenVars, inbound, room, interest, connVars,
                 loopVars, threadVars>>

PeerDrain(f) ==
  /\ sock[f] = "open" /\ ~room[f]
  /\ room' = [room EXCEPT ![f] = TRUE]
  /\ UNCHANGED <<alive, peerVars, listenVars, sock, inbound, interest, connVars,
                 loopVars, threadVars>>

\* timeout_ms_ has passed since the entry of f was last set.  Timely and Prompt
\* are what the code silently relies on: see the README.
Expire(f) ==
  /\ timer[f] = "fresh"
  /\ Timely => ~InFlight(f)
  /\ Prompt => pc[Main] # "measure"
  /\ timer' = [timer EXCEPT ![f] = "stale"]
  /\ UNCHANGED <<kernelVars, interest, connVars, timeMS, batchVars, back, threadVars>>

-----------------------------------------------------------------------------
(* WebServer::CloseConn_ and HttpConn::Close, run by the event loop (on an *)
(* event or as the timer callback) and by the workers.                     *)

\* The handler that called CloseConn_ returns.  ManageStaleItem_ then removes
\* the entry whose callback it was.
CloseReturn(t) ==
  /\ Leave(t, IF t = Main THEN back ELSE "idle")
  /\ timer' = IF t = Main /\ back = "tick"
              THEN [timer EXCEPT ![client[t]] = "none"] ELSE timer
  /\ back' = IF t = Main THEN "tick" ELSE back
  /\ UNCHANGED <<timeMS, batchVars>>

CloseConn_(t) ==
  /\ At(t, "closeRemove")
  /\ interest' = [interest EXCEPT ![client[t]] = "none"]
  /\ Go(t, "closeTest")
  /\ UNCHANGED <<kernelVars, connVars, loopVars, tasks, client, sent>>

\* Mutant: Close does not test isClose_.
MutMayClose(f) == TRUE

\* HttpConn::Close unmaps the file first, then tests isClose_.
MayClose(f) == ~isClose_[f]

CloseTest(t) ==
  LET f == client[t] IN
  /\ At(t, "closeTest")
  /\ mapped' = [mapped EXCEPT ![f] = FALSE]
  /\ \/ MayClose(f) /\ Go(t, "closeMark") /\ UNCHANGED <<loopVars, client>>
     \/ ~MayClose(f) /\ CloseReturn(t)
  /\ UNCHANGED <<kernelVars, interest, isClose_, userCount, readBuff_, keepAlive,
                 writeBuff_, iov0, iov1, iovCnt_, tasks, sent>>

CloseMark(t) ==
  /\ At(t, "closeMark")
  /\ isClose_' = [isClose_ EXCEPT ![client[t]] = TRUE]
  /\ userCount' = userCount - 1
  /\ Go(t, "closeFd")
  /\ UNCHANGED <<kernelVars, interest, readBuff_, keepAlive, writeVars, loopVars,
                 tasks, client, sent>>

\* close(fd_): the kernel drops the socket, its data and its epoll registration.
CloseFd(t) ==
  LET f == client[t] IN
  /\ At(t, "closeFd")
  /\ sock' = [sock EXCEPT ![f] = "free"]
  /\ inbound' = [inbound EXCEPT ![f] = 0]
  /\ room' = [room EXCEPT ![f] = TRUE]
  /\ interest' = [interest EXCEPT ![f] = "none"]
  /\ CloseReturn(t)
  /\ UNCHANGED <<alive, peerVars, listenVars, connVars, tasks, sent>>

Close(t) == CloseConn_(t) \/ CloseTest(t) \/ CloseMark(t) \/ CloseFd(t)

-----------------------------------------------------------------------------
(* The event loop: WebServer::Start.                                       *)

\* MinHeapTimer::ManageStaleItem_ runs the callback of every stale entry.
ManageStaleItem_(f) ==
  /\ At(Main, "tick") /\ timeoutOn
  /\ timer[f] = "stale"
  /\ client' = [client EXCEPT ![Main] = f]
  /\ back' = "tick"
  /\ Go(Main, "closeRemove")
  /\ UNCHANGED <<kernelVars, interest, connVars, timer, timeMS, batchVars, tasks, sent>>

StaleItemsDone ==
  /\ At(Main, "tick")
  /\ \A f \in Fds : timer[f] # "stale"
  /\ Go(Main, "measure")
  /\ UNCHANGED <<kernelVars, interest, connVars, loopVars, tasks, client, sent>>

\* What GetNextTick returns: -1 for an empty heap, else the time to the earliest
\* expiry.  An entry that has meanwhile expired gives 0 or a negative number:
\* the test res < 0 on a size_t never holds.
NextTick ==
  IF ~timeoutOn \/ \A f \in Fds : timer[f] = "none" THEN {"block"}
  ELSE IF \E f \in Fds : timer[f] = "stale" THEN {"block", "tick"}
  ELSE {"tick"}

GetNextTick ==
  /\ At(Main, "measure")
  /\ timeMS' \in NextTick
  /\ Go(Main, "wait")
  /\ UNCHANGED <<kernelVars, interest, connVars, timer, batchVars, back, tasks,
                 client, sent>>

\* Mutant: the interest lacks EPOLLIN.
MutHasEvent(f) ==
  CASE interest[f] = "IN"  -> sock[f] # "open"
    [] interest[f] = "OUT" -> sock[f] # "open" \/ room[f]
    [] OTHER               -> FALSE

HasEvent(f) ==
  CASE interest[f] = "IN"  -> sock[f] # "open" \/ inbound[f] > 0
    [] interest[f] = "OUT" -> sock[f] # "open" \/ room[f]
    [] OTHER               -> FALSE

EventOf(f) ==
  IF ~HasEvent(f) THEN "none"
  ELSE IF sock[f] # "open" THEN "close"
  ELSE IF interest[f] = "IN" THEN "in" ELSE "out"

ListenReady == IF ListenET THEN listenEdge ELSE backlog > 0

\* Mutant: conn_event_ without EPOLLONESHOT.
MutOneShot(f) == interest[f]

\* EPOLLONESHOT: a reported connection is switched off.
OneShot(f) == IF HasEvent(f) THEN "off" ELSE interest[f]

\* epoll_wait returns when something is ready or the timeout is over; a negative
\* timeout never is.
EpollWait ==
  /\ At(Main, "wait")
  /\ \/ ListenReady \/ \E f \in Fds : HasEvent(f)
     \/ timeMS = "tick" /\ \E f \in Fds : timer[f] = "stale"
  /\ event' = [f \in Fds |-> EventOf(f)]
  /\ listenEvent' = ListenReady
  /\ listenEdge' = FALSE
  /\ interest' = [f \in Fds |-> OneShot(f)]
  /\ Go(Main, "dispatch")
  /\ UNCHANGED <<alive, peerVars, backlog, sockVars, connVars, timer, timeMS, back,
                 tasks, client, sent>>

Handled(f) == event' = [event EXCEPT ![f] = "none"]

\* ExtentTime_: MinHeapTimer::UpdateItem, which ignores a descriptor it has no
\* entry for.
ExtentTime_(f) ==
  timer' = IF timeoutOn /\ timer[f] # "none" THEN [timer EXCEPT ![f] = "fresh"] ELSE timer

AddTask(op, f) == tasks' = Append(tasks, [op |-> op, fd |-> f])

DispatchClose(f) ==
  /\ At(Main, "dispatch") /\ event[f] = "close"
  /\ Handled(f)
  /\ client' = [client EXCEPT ![Main] = f]
  /\ back' = "dispatch"
  /\ Go(Main, "closeRemove")
  /\ UNCHANGED <<kernelVars, interest, connVars, timer, timeMS, listenEvent, tasks, sent>>

DealRead_(f) ==
  /\ At(Main, "dispatch") /\ event[f] = "in"
  /\ Handled(f)
  /\ ExtentTime_(f)
  /\ AddTask("read", f)
  /\ UNCHANGED <<kernelVars, interest, connVars, timeMS, listenEvent, back, pc, client, sent>>

DealWrite_(f) ==
  /\ At(Main, "dispatch") /\ event[f] = "out"
  /\ Handled(f)
  /\ ExtentTime_(f)
  /\ AddTask("writev", f)
  /\ UNCHANGED <<kernelVars, interest, connVars, timeMS, listenEvent, back, pc, client, sent>>

DispatchListen ==
  /\ At(Main, "dispatch") /\ listenEvent
  /\ listenEvent' = FALSE
  /\ Go(Main, "accept")
  /\ UNCHANGED <<kernelVars, interest, connVars, timer, timeMS, event, back, tasks, client, sent>>

EndOfEvents ==
  /\ At(Main, "dispatch")
  /\ ~listenEvent /\ \A f \in Fds : event[f] = "none"
  /\ Go(Main, "tick")
  /\ UNCHANGED <<kernelVars, interest, connVars, loopVars, tasks, client, sent>>

-----------------------------------------------------------------------------
(* WebServer::DealListen_, AddClient_ and HttpConn::init.                  *)

FreeFds == {f \in Fds : sock[f] = "free"}

IsFull == userCount >= MaxFd

\* accept() fails: the queue is empty, or the process is out of descriptors.
AcceptFails ==
  /\ At(Main, "accept")
  /\ backlog = 0 \/ FreeFds = {}
  /\ Go(Main, "dispatch")
  /\ UNCHANGED <<kernelVars, interest, connVars, loopVars, tasks, client, sent>>

\* SendError_: "Server busy!" is sent on a descriptor of its own, the connection closed,
\* the loop left.
AcceptBusy ==
  /\ At(Main, "accept")
  /\ backlog > 0 /\ IsFull
  /\ backlog' = backlog - 1
  /\ Go(Main, "dispatch")
  /\ UNCHANGED <<alive, peerVars, listenEdge, sockVars, interest, connVars, loopVars,
                 tasks, client, sent>>

AcceptClient(f) ==
  /\ At(Main, "accept")
  /\ backlog > 0 /\ f \in FreeFds /\ ~IsFull
  /\ backlog' = backlog - 1
  /\ sock' = [sock EXCEPT ![f] = "open"]
  /\ client' = [client EXCEPT ![Main] = f]
  /\ Go(Main, "init")
  /\ UNCHANGED <<alive, peerVars, listenEdge, inbound, room, interest, connVars,
                 loopVars, tasks, sent>>

\* HttpConn::init empties both buffers; iov_, request_ and response_ keep what
\* the previous connection on this descriptor left in them.
HttpConnInit ==
  LET f == client[Main] IN
  /\ At(Main, "init")
  /\ userCount' = userCount + 1
  /\ readBuff_' = [readBuff_ EXCEPT ![f] = 0]
  /\ writeBuff_' = [writeBuff_ EXCEPT ![f] = 0]
  /\ isClose_' = [isClose_ EXCEPT ![f] = FALSE]
  /\ Go(Main, "add")
  /\ UNCHANGED <<kernelVars, interest, keepAlive, iov0, iov1, iovCnt_, mapped,
                 loopVars, tasks, client, sent>>

\* Mutant: no AddItem.
MutAddItem(f) == timer' = timer

\* MinHeapTimer::AddItem sets the entry of f, a new one or what an earlier
\* connection left.
AddItem(f) ==
  timer' = IF timeoutOn THEN [timer EXCEPT ![f] = "fresh"] ELSE timer


\* With EPOLLET the accept loop goes on.
AfterAccept == IF ListenET THEN "accept" ELSE "dispatch"

\* EpollAdd fails on a descriptor that was closed meanwhile.
AddClient_ ==
  LET f == client[Main] IN
  /\ At(Main, "add")
  /\ AddItem(f)
  /\ interest' = IF sock[f] # "free" THEN [interest EXCEPT ![f] = "IN"] ELSE interest
  /\ Leave(Main, AfterAccept)
  /\ UNCHANGED <<kernelVars, connVars, timeMS, batchVars, back, tasks, sent>>

MainStep ==
  /\ UNCHANGED timeoutOn
  /\ \/ StaleItemsDone \/ GetNextTick \/ EpollWait \/ DispatchListen \/ EndOfEvents
     \/ AcceptFails \/ AcceptBusy \/ HttpConnInit \/ AddClient_
     \/ \E f \in Fds : \/ ManageStaleItem_(f) \/ AcceptClient(f)
                       \/ DispatchClose(f) \/ DealRead_(f) \/ DealWrite_(f)
     \/ Close(Main)

-----------------------------------------------------------------------------
(* The workers: OnRead_, OnProcess, OnWrite_ and the HttpConn members they *)
(* call.                                                                   *)

TakeTask(w) ==
  /\ At(w, "idle") /\ tasks # <<>>
  /\ client' = [client EXCEPT ![w] = Head(tasks).fd]
  /\ Go(w, Head(tasks).op)
  /\ tasks' = Tail(tasks)
  /\ UNCHANGED <<kernelVars, interest, connVars, loopVars, sent>>

\* HttpConn::read ends with EAGAIN, with 0 (the peer closed) or with an error
\* (a reset socket once its data is read, a closed descriptor).  In ET mode it
\* always reads on until one of these; in LT mode one call that returned data is
\* enough to go on, and takes no more than fits into its two buffers.
ReadGoesOn(f) ==
  \/ sock[f] = "open"
  \/ ~ConnET /\ sock[f] # "free" /\ inbound[f] > 0

\* How much HttpConn::read may take.
ReadLengths(f) == IF ConnET \/ inbound[f] = 0 THEN {inbound[f]} ELSE 1..inbound[f]

OnRead_(w) ==
  LET f == client[w] IN
  /\ At(w, "read")
  /\ \E n \in ReadLengths(f) :
       /\ inbound' = [inbound EXCEPT ![f] = @ - n]
       /\ readBuff_' = [readBuff_ EXCEPT ![f] = @ + n]
  /\ Go(w, IF ReadGoesOn(f) THEN "process" ELSE "closeRemove")
  /\ UNCHANGED <<alive, peerVars, listenVars, sock, room, interest, isClose_,
                 userCount, keepAlive, writeVars, loopVars, tasks, client, sent>>

\* HttpConn::process with nothing to parse: the request is reset, and the
\* connection listens for more.
ProcessNothing(w) ==
  LET f == client[w] IN
  /\ At(w, "process") /\ readBuff_[f] = 0
  /\ keepAlive' = [keepAlive EXCEPT ![f] = FALSE]
  /\ Go(w, "rearmIn")
  /\ UNCHANGED <<kernelVars, interest, isClose_, userCount, readBuff_, writeVars,
                 loopVars, tasks, client, sent>>

IovCnt(f, file) == IF file THEN 2 ELSE 1

\* HttpConn::process with data.  parse() leaves some of the data in the buffer: a
\* pipelined request, a body without CRLF, a line that is no request line; a
\* keep-alive request has consumed its header at least.  The response goes to
\* writeBuff_, the file to iov_[1]; a response without a file (a missing or
\* unreadable error page) leaves iov_[1] as it is.
Process(w, ka, file, left) ==
  LET f == client[w] IN
  /\ At(w, "process")
  /\ left <= readBuff_[f] /\ readBuff_[f] > 0
  /\ ka => left < readBuff_[f]
  /\ readBuff_' = [readBuff_ EXCEPT ![f] = left]
  /\ keepAlive' = [keepAlive EXCEPT ![f] = ka]
  /\ writeBuff_' = [writeBuff_ EXCEPT ![f] = @ + HeaderUnits]
  /\ iov0' = [iov0 EXCEPT ![f] = writeBuff_[f] + HeaderUnits]
  /\ iov1' = IF file THEN [iov1 EXCEPT ![f] = BodyUnits] ELSE iov1
  /\ iovCnt_' = [iovCnt_ EXCEPT ![f] = IovCnt(f, file)]
  /\ mapped' = [mapped EXCEPT ![f] = file]
  /\ Go(w, "rearmOut")
  /\ UNCHANGED <<kernelVars, interest, isClose_, userCount, loopVars, tasks, client, sent>>

\* Mutant: the interest is not set again.
MutModified(f, ev) == interest[f]

\* EPOLL_CTL_MOD fails on a descriptor that is not registered; the result is
\* ignored.
Modified(f, ev) == IF interest[f] # "none" THEN ev ELSE "none"

\* The last thing a handler does on a connection it keeps.
EpollModify(w) ==
  LET f == client[w] IN
  /\ \/ At(w, "rearmIn")  /\ interest' = [interest EXCEPT ![f] = Modified(f, "IN")]
     \/ At(w, "rearmOut") /\ interest' = [interest EXCEPT ![f] = Modified(f, "OUT")]
  /\ Leave(w, "idle")
  /\ UNCHANGED <<kernelVars, connVars, loopVars, tasks, sent>>

ToWriteBytes(f) == iov0[f] + iov1[f]
\* What writev is given: iovCnt_ entries of iov_.
Unsent(f) == iov0[f] + (IF iovCnt_[f] = 2 THEN iov1[f] ELSE 0)

\* Mutant: OnWrite_ does not look at EAGAIN.
MutAfterWrite(w, f, again) ==
  Go(w, IF ToWriteBytes(f) = 0 /\ keepAlive[f] THEN "process" ELSE "closeRemove")

\* OnWrite_ after HttpConn::write has returned.
AfterWrite(w, f, again) ==
  Go(w, IF ToWriteBytes(f) = 0 THEN IF keepAlive[f] THEN "process" ELSE "closeRemove"
        ELSE IF again THEN "rearmOut" ELSE "closeRemove")

\* writev takes n units: all of them, and may just fill the send buffer, or those that
\* fit.  A peer that closed still acknowledges, until it resets.
WritevSome(w, n) ==
  LET f == client[w] IN
  /\ At(w, "writev")
  /\ sock[f] \in {"open", "fin"} /\ room[f]
  /\ n <= Unsent(f)
  /\ sent' = [sent EXCEPT ![w] = n]
  /\ \E more \in BOOLEAN :
       /\ more => n = Unsent(f)
       /\ room' = [room EXCEPT ![f] = more]
  /\ Go(w, "wrote")
  /\ UNCHANGED <<alive, peerVars, listenVars, sock, inbound, interest, connVars,
                 loopVars, tasks, client>>

\* iov_[1] points into a file that Close or a later Init has unmapped.
Dangling(f) == iovCnt_[f] = 2 /\ iov1[f] > 0 /\ ~mapped[f]

\* writev has nothing to send (0), finds a full buffer (EAGAIN), or fails: the
\* socket was reset (ECONNRESET), the descriptor is closed, or the memory is
\* not mapped (EFAULT).
WritevEnds(w) ==
  LET f == client[w] IN
  /\ At(w, "writev")
  /\ \/ Unsent(f) = 0 /\ sock[f] # "free" /\ AfterWrite(w, f, FALSE)
     \/ Unsent(f) > 0 /\ sock[f] \in {"open", "fin"} /\ ~room[f] /\ AfterWrite(w, f, TRUE)
     \/ sock[f] \in {"rst", "free"} /\ AfterWrite(w, f, FALSE)
     \/ Dangling(f) /\ AfterWrite(w, f, FALSE)
  /\ UNCHANGED <<kernelVars, interest, connVars, loopVars, tasks, client, sent>>

\* Writing to a socket that was reset after its peer had closed raises SIGPIPE,
\* which nothing handles: the process ends.
Sigpipe(w) ==
  /\ At(w, "writev")
  /\ Unsent(client[w]) > 0 /\ sock[client[w]] = "broken"
  /\ alive' = FALSE
  /\ UNCHANGED <<peerVars, listenVars, sockVars, interest, connVars, loopVars, threadVars>>

\* The length by which write() moves on; none when another thread has meanwhile left
\* nothing to send, which ends the loop.
Moved(w, f) == IF ToWriteBytes(f) = 0 THEN 0 ELSE sent[w]

\* Mutant: iov_[0].iov_len stays as it is.
MutIov0Kept(w, f) == iov0[f]

\* The header goes first, the rest of len comes off iov_[1] (a size_t).
Iov0Left(w, f) == IF Moved(w, f) > iov0[f] THEN 0 ELSE iov0[f] - Moved(w, f)
Iov1Left(w, f) ==
  IF Moved(w, f) > iov0[f] THEN (iov1[f] - (Moved(w, f) - iov0[f])) % SizeT ELSE iov1[f]

\* RetrieveAll() once the header is out, else Retrieve(len).
WriteBuffLeft(w, f) ==
  IF Moved(w, f) <= iov0[f] THEN writeBuff_[f] - Moved(w, f)
  ELSE IF iov0[f] > 0 THEN 0 ELSE writeBuff_[f]

\* StringBuffer::Retrieve asserts that the length is in range.
RetrieveOK(w, f) == Moved(w, f) <= iov0[f] => Moved(w, f) <= writeBuff_[f]

\* HttpConn::write after a writev that sent something; a failed assertion ends the
\* process.
Wrote(w) ==
  LET f    == client[w]
      left == Iov0Left(w, f) + Iov1Left(w, f)
      next == IF ToWriteBytes(f) > 0 /\ (ConnET \/ left > LoopUnits) THEN "writev"
              ELSE IF left = 0 /\ keepAlive[f] THEN "process" ELSE "closeRemove"
  IN
  /\ At(w, "wrote")
  /\ alive' = RetrieveOK(w, f)
  /\ iov0' = [iov0 EXCEPT ![f] = Iov0Left(w, f)]
  /\ iov1' = [iov1 EXCEPT ![f] = Iov1Left(w, f)]
  /\ writeBuff_' = IF alive' THEN [writeBuff_ EXCEPT ![f] = WriteBuffLeft(w, f)] ELSE writeBuff_
  /\ Go(w, next)
  /\ sent' = [sent EXCEPT ![w] = 0]
  /\ UNCHANGED <<peerVars, listenVars, sockVars, interest, isClose_, userCount, readBuff_,
                 keepAlive, iovCnt_, mapped, loopVars, tasks, client>>

OnWrite_(w) ==
  \/ \E n \in 1..SizeT : WritevSome(w, n)
  \/ WritevEnds(w) \/ Sigpipe(w) \/ Wrote(w)

WorkerStep(w) ==
  /\ UNCHANGED timeoutOn
  /\ \/ TakeTask(w) \/ OnRead_(w) \/ ProcessNothing(w) \/ EpollModify(w)
     \/ \E ka, file \in BOOLEAN, left \in 0..MaxSends : Process(w, ka, file, left)
     \/ OnWrite_(w)
     \/ Close(w)

Environment ==
  /\ UNCHANGED timeoutOn
  /\ \/ Connect
     \/ \E f \in Fds : PeerSend(f) \/ PeerClose(f) \/ PeerDrain(f) \/ Expire(f)

Next ==
  /\ alive
  /\ \/ MainStep
     \/ \E w \in Workers : WorkerStep(w)
     \/ Environment

Spec == Init /\ [][Next]_vars

\* Every thread of the process keeps running and the clock goes on; the peers
\* may fall silent at any time.
Fairness ==
  /\ WF_vars(alive /\ MainStep)
  /\ \A w \in Workers : WF_vars(alive /\ WorkerStep(w))
  /\ \A f \in Fds : WF_vars(alive /\ UNCHANGED timeoutOn /\ Expire(f))

FairSpec == Spec /\ Fairness

-----------------------------------------------------------------------------
(* What the server promises.                                               *)

KernelType ==
  /\ alive \in BOOLEAN /\ listenEdge \in BOOLEAN
  /\ backlog \in Nat /\ arrivals \in Nat /\ sends \in Nat
  /\ sock \in [Fds -> {"free", "open", "fin", "rst", "broken"}]
  /\ inbound \in [Fds -> Nat] /\ room \in [Fds -> BOOLEAN]
  /\ interest \in [Fds -> {"none", "off", "IN", "OUT"}]

ConnType ==
  /\ isClose_ \in [Fds -> BOOLEAN] /\ userCount \in Int
  /\ readBuff_ \in [Fds -> Nat] /\ writeBuff_ \in [Fds -> Nat]
  /\ iov0 \in [Fds -> Nat] /\ iov1 \in [Fds -> 0..(SizeT - 1)]
  /\ iovCnt_ \in [Fds -> {1, 2}]
  /\ keepAlive \in [Fds -> BOOLEAN] /\ mapped \in [Fds -> BOOLEAN]

LoopType ==
  /\ timer \in [Fds -> {"none", "fresh", "stale"}]
  /\ timeMS \in {"block", "tick"}
  /\ event \in [Fds -> {"none", "close", "in", "out"}] /\ listenEvent \in BOOLEAN
  /\ back \in {"tick", "dispatch"}

ThreadType ==
  /\ tasks \in Seq([op : {"read", "writev"}, fd : Fds])
  /\ pc \in [Threads -> MainPcs \cup WorkerPcs]
  /\ pc[Main] \in MainPcs /\ \A w \in Workers : pc[w] \in WorkerPcs
  /\ client \in [Threads -> Fds \cup {NoFd}]
  /\ sent \in [Workers -> Nat]

\* Every variable keeps its type; iov_[] and writeBuff_ hold lengths, and the two
\* kinds of thread are only ever at points of their own code.
TypeOK ==
  KernelType /\ ConnType /\ LoopType /\ ThreadType /\ timeoutOn \in BOOLEAN

\* Who will act on the connection of f next: a thread in a handler, a queued
\* task, an event the loop has fetched, or epoll (what the loop itself holds no
\* longer counts as armed: only the loop fetches events).
Custody(f) ==
  {<<"thread", t>> : t \in {u \in Threads : client[u] = f}}
    \cup {<<"task", i>> : i \in Queued(f)}
    \cup {<<"event", f>> : x \in {y \in {f} : event[f] # "none"}}
    \cup {<<"armed", f>> : x \in {y \in {f} : Armed(f) /\ client[Main] # f}}

\* EPOLLONESHOT and the re-arming at the end of OnProcess and OnWrite_ keep every
\* HttpConn in one pair of hands: no two of a running handler, a queued task, a
\* fetched event and an armed interest concern the same connection.
OneHandler == \A f \in Fds : \A a, b \in Custody(f) : a = b

\* No connection is forgotten: while HttpConn is not closed, some thread, task,
\* event or armed interest will handle it (every path of OnRead_, OnProcess and
\* OnWrite_ ends in EpollModify or CloseConn_).
NoOrphan == \A f \in Fds : ~isClose_[f] => Custody(f) # {}

\* The atomic userCount, which DealListen_ compares with MAX_FD, is the number of
\* connections that are not closed: no path closes twice or not at all.
UserCountExact == userCount = Cardinality({f \in Fds : ~isClose_[f]})

\* A connection descriptor is open exactly while its HttpConn says so, but for
\* the moment between accept() and init() and between isClose_ = true and
\* close(fd_): no descriptor leaks, and none is used after it was given back.
DescriptorsTracked ==
  \A f \in Fds :
    (sock[f] # "free") <=>
      \/ ~isClose_[f]
      \/ \E t \in Threads : client[t] = f /\ pc[t] \in {"init", "closeFd"}

\* HttpConn::write never hands writev a part of a file that Close or the next
\* HttpResponse::Init has unmapped.
NoDanglingFile ==
  \A w \in Workers : At(w, "writev") => ~Dangling(client[w])

\* StringBuffer::Retrieve is never asked for more than the buffer holds: the
\* assertion in it cannot stop the server in HttpConn::write.
RetrieveInRange ==
  \A w \in Workers :
    At(w, "wrote") => RetrieveOK(w, client[w])

\* A response whose peer is still there is sent to its last unit before OnWrite_
\* gives the connection up.
CompleteResponse ==
  [][\A w \in Workers :
       /\ pc[w] \in {"writev", "wrote"} /\ pc'[w] = "closeRemove"
       /\ sock[client[w]] = "open"
       => Unsent(client[w])' = 0]_vars

\* The heap has an entry for every connection that is registered, so that
\* ManageStaleItem_ can end it.
TimerCovers ==
  timeoutOn => \A f \in Fds :
    ~isClose_[f] => timer[f] # "none" \/ (client[Main] = f /\ At(Main, "add"))

\* With a timeout every connection comes to an end, even when its peer says
\* nothing and reads nothing more: GetNextTick wakes the loop for every entry, and a
\* negative time is made 0 (the comment in it).
EveryConnectionEnds ==
  \A f \in Fds : timeoutOn /\ sock[f] # "free" ~> (sock[f] = "free" \/ ~alive)

\* The loop sleeps without a limit although the heap has an entry.
Overslept == At(Main, "wait") /\ timeMS = "block" /\ \E f \in Fds : timer[f] # "none"

\* It does so unless the loop oversleeps: no other order of events, handlers and
\* expiries keeps a connection for ever.
EndsUnlessOverslept ==
  \A f \in Fds : timeoutOn /\ sock[f] # "free" ~> (sock[f] = "free" \/ Overslept \/ ~alive)

\* Data that arrives, also while the connection is being handled or answered, is read,
\* or the connection closed, unless the peer does not take the response it is being sent.
DataIsRead ==
  \A f \in Fds : inbound[f] > 0 ~> (inbound[f] = 0 \/ ~room[f] \/ ~alive)

\* The accept loop is about to end with clients in the queue: the server is full, or the
\* process is out of descriptors.
AcceptStops ==
  At(Main, "accept") /\ ((FreeFds = {} /\ backlog > 0) \/ (IsFull /\ backlog > 1))

=============================================================================
