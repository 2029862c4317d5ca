--------------------------- MODULE WebServer_proofs ---------------------------
(***************************************************************************)
(* Proofs about WebServer for every set of descriptors and workers and     *)
(* every value of the other constants.                                     *)
(***************************************************************************)
EXTENDS WebServer, FiniteSetTheorems, SequenceTheorems, TLAPS

(***************************************************************************)
(* Every variable keeps its type.  One lemma per group of variables, with  *)
(* a step for every action that touches the group.                         *)
(***************************************************************************)
LEMMA InitType == Init => TypeOK
<1>1. SUFFICES ASSUME Init PROVE TypeOK
  OBVIOUS
<1>2. KernelType
  BY <1>1 DEF Init, KernelType
<1>3. ConnType
  <2>1. iov1 \in [Fds -> 0..(SizeT - 1)]
    BY <1>1, ServerAssumption DEF Init
  <2>. QED  BY <1>1, <2>1 DEF Init, ConnType
<1>4. LoopType
  BY <1>1 DEF Init, LoopType
<1>5. ThreadType
  <2>1. /\ pc \in [Threads -> MainPcs \cup WorkerPcs]
        /\ pc[Main] \in MainPcs /\ \A w \in Workers : pc[w] \in WorkerPcs
    BY <1>1, ServerAssumption DEF Init, Threads, MainPcs, WorkerPcs
  <2>2. client \in [Threads -> Fds \cup {NoFd}] /\ sent \in [Workers -> Nat]
    BY <1>1 DEF Init
  <2>3. tasks \in Seq([op : {"read", "writev"}, fd : Fds])
    BY <1>1 DEF Init
  <2>. QED  BY <2>1, <2>2, <2>3 DEF ThreadType
<1>6. timeoutOn \in BOOLEAN
  BY <1>1, ServerAssumption DEF Init
<1>. QED  BY <1>2, <1>3, <1>4, <1>5, <1>6 DEF TypeOK

LEMMA KernelTypeStep ==
  ASSUME TypeOK, Next PROVE KernelType'
<1>. USE DEF KernelType, TypeOK
<1>1. ASSUME UNCHANGED <<kernelVars, interest>> PROVE KernelType'
  BY <1>1 DEF kernelVars, peerVars, listenVars, sockVars
<1>2. CASE Connect
  BY <1>2 DEF Connect, sockVars
<1>3. ASSUME NEW f \in Fds, PeerSend(f) PROVE KernelType'
  BY <1>3 DEF PeerSend, listenVars
<1>4. ASSUME NEW f \in Fds, PeerClose(f) PROVE KernelType'
  BY <1>4 DEF PeerClose, peerVars, listenVars
<1>5. ASSUME NEW f \in Fds, PeerDrain(f) PROVE KernelType'
  BY <1>5 DEF PeerDrain, peerVars, listenVars
<1>6. ASSUME NEW t \in Threads, CloseConn_(t) PROVE KernelType'
  BY <1>6 DEF CloseConn_, kernelVars, peerVars, listenVars, sockVars
<1>7. ASSUME NEW t \in Threads, CloseFd(t) PROVE KernelType'
  BY <1>7 DEF CloseFd, peerVars, listenVars
<1>8. CASE EpollWait
  BY <1>8 DEF EpollWait, peerVars, sockVars, OneShot
<1>9. CASE AcceptBusy
  BY <1>9 DEF AcceptBusy, peerVars, sockVars
<1>10. ASSUME NEW f \in Fds, AcceptClient(f) PROVE KernelType'
  BY <1>10 DEF AcceptClient, peerVars
<1>11. CASE AddClient_
  BY <1>11 DEF AddClient_, kernelVars, peerVars, listenVars, sockVars
<1>12. ASSUME NEW w \in Workers, OnRead_(w) PROVE KernelType'
  <2>1. PICK n \in ReadLengths(client[w]) : inbound' = [inbound EXCEPT ![client[w]] = @ - n]
    BY <1>12 DEF OnRead_
  <2>2. CASE client[w] \in Fds
    <3>1. inbound[client[w]] \in Nat /\ n \in 0..inbound[client[w]]
      BY <2>2 DEF KernelType, ReadLengths
    <3>2. inbound[client[w]] - n \in Nat
      BY <3>1
    <3>3. inbound' \in [Fds -> Nat]
      BY <2>1, <2>2, <3>2 DEF KernelType
    <3>. QED  BY <1>12, <3>3 DEF OnRead_, peerVars, listenVars
  <2>3. CASE client[w] \notin Fds
    <3>1. inbound' = inbound
      BY <2>1, <2>3 DEF KernelType
    <3>. QED  BY <1>12, <3>1 DEF OnRead_, peerVars, listenVars
  <2>. QED  BY <2>2, <2>3
<1>13. ASSUME NEW w \in Workers, EpollModify(w) PROVE KernelType'
  BY <1>13 DEF EpollModify, Modified, kernelVars, peerVars, listenVars, sockVars
<1>14. ASSUME NEW w \in Workers, NEW n \in 1..SizeT, WritevSome(w, n) PROVE KernelType'
  BY <1>14 DEF WritevSome, peerVars, listenVars
<1>15. ASSUME NEW w \in Workers, Sigpipe(w) \/ Wrote(w) PROVE KernelType'
  <2>1. alive' \in BOOLEAN
    <3>1. RetrieveOK(w, client[w]) \in BOOLEAN
      BY DEF RetrieveOK
    <3>. QED  BY <1>15, <3>1 DEF Sigpipe, Wrote
  <2>. QED  BY <1>15, <2>1 DEF Sigpipe, Wrote, peerVars, listenVars, sockVars
<1>16. ASSUME NEW f \in Fds, Expire(f) PROVE KernelType'
  BY <1>1, <1>16 DEF Expire
<1>17. ASSUME NEW t \in Threads, CloseTest(t) \/ CloseMark(t) PROVE KernelType'
  BY <1>1, <1>17 DEF CloseTest, CloseMark
<1>18. CASE StaleItemsDone \/ GetNextTick \/ DispatchListen \/ EndOfEvents
            \/ AcceptFails \/ HttpConnInit
  BY <1>1, <1>18 DEF StaleItemsDone, GetNextTick, DispatchListen, EndOfEvents,
                     AcceptFails, HttpConnInit
<1>19. ASSUME NEW f \in Fds,
              ManageStaleItem_(f) \/ DispatchClose(f) \/ DealRead_(f) \/ DealWrite_(f)
       PROVE KernelType'
  BY <1>1, <1>19 DEF ManageStaleItem_, DispatchClose, DealRead_, DealWrite_
<1>20. ASSUME NEW w \in Workers,
              \/ TakeTask(w) \/ ProcessNothing(w) \/ WritevEnds(w)
              \/ \E ka, file \in BOOLEAN, left \in 0..MaxSends : Process(w, ka, file, left)
       PROVE KernelType'
  BY <1>1, <1>20 DEF TakeTask, ProcessNothing, WritevEnds, Process
<1>. QED
  BY <1>2, <1>3, <1>4, <1>5, <1>6, <1>7, <1>8, <1>9, <1>10, <1>11, <1>12, <1>13,
     <1>14, <1>15, <1>16, <1>17, <1>18, <1>19, <1>20
  DEF Next, MainStep, WorkerStep, OnWrite_, Close, Environment, Threads

LEMMA ConnTypeStep ==
  ASSUME TypeOK, Next PROVE ConnType'
<1>. USE DEF ConnType, TypeOK
<1>1. ASSUME UNCHANGED connVars PROVE ConnType'
  BY <1>1 DEF connVars, writeVars
<1>2. ASSUME NEW t \in Threads, CloseTest(t) PROVE ConnType'
  <2>1. mapped' \in [Fds -> BOOLEAN]
    BY <1>2 DEF CloseTest
  <2>. QED  BY <1>2, <2>1 DEF CloseTest
<1>3. ASSUME NEW t \in Threads, CloseMark(t) PROVE ConnType'
  <2>1. isClose_' \in [Fds -> BOOLEAN]
    BY <1>3 DEF CloseMark
  <2>2. userCount' \in Int
    BY <1>3 DEF CloseMark
  <2>. QED  BY <1>3, <2>1, <2>2 DEF CloseMark, writeVars
<1>4. CASE HttpConnInit
  <2>1. isClose_' \in [Fds -> BOOLEAN]
    BY <1>4 DEF HttpConnInit
  <2>2. userCount' \in Int
    BY <1>4 DEF HttpConnInit
  <2>3. readBuff_' \in [Fds -> Nat] /\ writeBuff_' \in [Fds -> Nat]
    BY <1>4 DEF HttpConnInit
  <2>. QED  BY <1>4, <2>1, <2>2, <2>3 DEF HttpConnInit
<1>5. ASSUME NEW w \in Workers, OnRead_(w) PROVE ConnType'
  <2>1. readBuff_' \in [Fds -> Nat]
    <3>1. PICK n \in ReadLengths(client[w]) :
            readBuff_' = [readBuff_ EXCEPT ![client[w]] = @ + n]
      BY <1>5 DEF OnRead_
    <3>2. CASE client[w] \in Fds
      <4>1. n \in Nat
        BY <3>2 DEF KernelType, ReadLengths
      <4>. QED  BY <3>1, <3>2, <4>1
    <3>. QED  BY <3>1, <3>2
  <2>. QED  BY <1>5, <2>1 DEF OnRead_, writeVars
<1>6. ASSUME NEW w \in Workers, ProcessNothing(w) PROVE ConnType'
  BY <1>6 DEF ProcessNothing, writeVars
<1>7. ASSUME NEW w \in Workers, NEW ka \in BOOLEAN, NEW file \in BOOLEAN,
             NEW left \in 0..MaxSends, Process(w, ka, file, left)
      PROVE ConnType'
  <2>1. BodyUnits \in 0..(SizeT - 1) /\ HeaderUnits \in Nat
    BY ServerAssumption
  <2>2. readBuff_' \in [Fds -> Nat]
    <3>1. left \in Nat
      BY ServerAssumption
    <3>. QED  BY <1>7, <3>1 DEF Process
  <2>3. keepAlive' \in [Fds -> BOOLEAN] /\ mapped' \in [Fds -> BOOLEAN]
    BY <1>7 DEF Process
  <2>4. writeBuff_' \in [Fds -> Nat] /\ iov0' \in [Fds -> Nat]
    <3>1. CASE client[w] \in Fds
      <4>1. writeBuff_[client[w]] + HeaderUnits \in Nat
        BY <2>1, <3>1
      <4>2. /\ writeBuff_' = [writeBuff_ EXCEPT ![client[w]] = @ + HeaderUnits]
            /\ iov0' = [iov0 EXCEPT ![client[w]] = writeBuff_[client[w]] + HeaderUnits]
        BY <1>7 DEF Process
      <4>. QED  BY <4>1, <4>2
    <3>2. CASE client[w] \notin Fds
      <4>1. writeBuff_' = writeBuff_ /\ iov0' = iov0
        BY <1>7, <3>2 DEF Process
      <4>. QED  BY <4>1
    <3>. QED  BY <3>1, <3>2
  <2>6. iov1' \in [Fds -> 0..(SizeT - 1)]
    BY <1>7, <2>1 DEF Process
  <2>7. iovCnt_' \in [Fds -> {1, 2}]
    BY <1>7 DEF Process, IovCnt
  <2>. QED  BY <1>7, <2>2, <2>3, <2>4, <2>6, <2>7 DEF Process
<1>8. ASSUME NEW w \in Workers, Wrote(w) PROVE ConnType'
  <2>. DEFINE f == client[w]
  <2>1. CASE f \notin Fds
    <3>1. iov0' = iov0 /\ iov1' = iov1 /\ writeBuff_' = writeBuff_
      BY <1>8, <2>1 DEF Wrote
    <3>. QED  BY <1>8, <3>1 DEF Wrote
  <2>2. CASE f \in Fds
    <3>1. /\ Moved(w, f) \in Nat /\ iov0[f] \in Nat /\ iov1[f] \in Int
          /\ writeBuff_[f] \in Nat /\ SizeT \in Nat \ {0}
      BY <2>2, ServerAssumption DEF ThreadType, Moved
    <3>2. Iov0Left(w, f) \in Nat
      BY <3>1 DEF Iov0Left
    <3>3. Iov1Left(w, f) \in 0..(SizeT - 1)
      BY <2>2, <3>1 DEF Iov1Left
    <3>4. RetrieveOK(w, f) => WriteBuffLeft(w, f) \in Nat
      BY <3>1 DEF WriteBuffLeft, RetrieveOK
    <3>5. writeBuff_' \in [Fds -> Nat]
      <4>1. alive' = RetrieveOK(w, f)
        BY <1>8 DEF Wrote
      <4>2. writeBuff_' = IF alive' THEN [writeBuff_ EXCEPT ![f] = WriteBuffLeft(w, f)]
                          ELSE writeBuff_
        BY <1>8 DEF Wrote
      <4>3. RetrieveOK(w, f) \in BOOLEAN
        BY DEF RetrieveOK
      <4>. QED  BY <3>4, <4>1, <4>2, <4>3
    <3>. QED  BY <1>8, <3>2, <3>3, <3>5 DEF Wrote
  <2>. QED  BY <2>1, <2>2
<1>9. CASE Environment
  BY <1>1, <1>9 DEF Environment, Connect, PeerSend, PeerClose, PeerDrain, Expire
<1>10. ASSUME NEW t \in Threads, CloseConn_(t) \/ CloseFd(t) PROVE ConnType'
  BY <1>1, <1>10 DEF CloseConn_, CloseFd
<1>11. CASE StaleItemsDone \/ GetNextTick \/ EpollWait \/ DispatchListen \/ EndOfEvents
            \/ AcceptFails \/ AcceptBusy \/ AddClient_
  BY <1>1, <1>11 DEF StaleItemsDone, GetNextTick, EpollWait, DispatchListen,
                     EndOfEvents, AcceptFails, AcceptBusy, AddClient_
<1>12. ASSUME NEW f \in Fds,
              \/ ManageStaleItem_(f) \/ AcceptClient(f)
              \/ DispatchClose(f) \/ DealRead_(f) \/ DealWrite_(f)
       PROVE ConnType'
  BY <1>1, <1>12 DEF ManageStaleItem_, AcceptClient, DispatchClose, DealRead_, DealWrite_
<1>13. ASSUME NEW w \in Workers,
              \/ TakeTask(w) \/ EpollModify(w) \/ WritevEnds(w) \/ Sigpipe(w)
              \/ \E n \in 1..SizeT : WritevSome(w, n)
       PROVE ConnType'
  BY <1>1, <1>13 DEF TakeTask, EpollModify, WritevEnds, Sigpipe, WritevSome
<1>. QED
  BY <1>2, <1>3, <1>4, <1>5, <1>6, <1>7, <1>8, <1>9, <1>10, <1>11, <1>12, <1>13
  DEF Next, MainStep, WorkerStep, OnWrite_, Close, Threads

LEMMA LoopTypeStep ==
  ASSUME TypeOK, Next PROVE LoopType'
<1>. USE DEF LoopType, TypeOK
<1>1. ASSUME UNCHANGED loopVars PROVE LoopType'
  BY <1>1 DEF loopVars, batchVars
<1>2. ASSUME NEW f \in Fds, Expire(f) PROVE LoopType'
  BY <1>2 DEF Expire, batchVars
<1>3. ASSUME NEW t \in Threads, CloseReturn(t) PROVE LoopType'
  BY <1>3 DEF CloseReturn, batchVars
<1>4. ASSUME NEW t \in Threads, CloseTest(t) \/ CloseFd(t) PROVE LoopType'
  BY <1>1, <1>3, <1>4 DEF CloseTest, CloseFd
<1>5. ASSUME NEW f \in Fds, ManageStaleItem_(f) PROVE LoopType'
  BY <1>5 DEF ManageStaleItem_, batchVars
<1>6. CASE GetNextTick
  BY <1>6 DEF GetNextTick, NextTick, batchVars
<1>7. CASE EpollWait
  <2>1. ListenReady \in BOOLEAN
    <3>1. (backlog > 0) \in BOOLEAN
      OBVIOUS
    <3>2. listenEdge \in BOOLEAN
      BY DEF KernelType
    <3>. QED  BY <3>1, <3>2, Zenon DEF ListenReady
  <2>2. \A f \in Fds : EventOf(f) \in {"none", "close", "in", "out"}
    BY DEF EventOf
  <2>. QED  BY <1>7, <2>1, <2>2 DEF EpollWait
<1>8. ASSUME NEW f \in Fds, DispatchClose(f) PROVE LoopType'
  BY <1>8 DEF DispatchClose, Handled
<1>9. ASSUME NEW f \in Fds, DealRead_(f) \/ DealWrite_(f) PROVE LoopType'
  BY <1>9 DEF DealRead_, DealWrite_, Handled, ExtentTime_
<1>10. CASE DispatchListen
  BY <1>10 DEF DispatchListen
<1>11. CASE AddClient_
  BY <1>11 DEF AddClient_, AddItem, batchVars
<1>12. ASSUME NEW f \in Fds, Connect \/ PeerSend(f) \/ PeerClose(f) \/ PeerDrain(f)
       PROVE LoopType'
  BY <1>1, <1>12 DEF Connect, PeerSend, PeerClose, PeerDrain
<1>13. CASE Connect
  BY <1>1, <1>13 DEF Connect
<1>14. ASSUME NEW t \in Threads, CloseConn_(t) \/ CloseMark(t) PROVE LoopType'
  BY <1>1, <1>14 DEF CloseConn_, CloseMark
<1>15. CASE StaleItemsDone \/ EndOfEvents \/ AcceptFails \/ AcceptBusy \/ HttpConnInit
  BY <1>1, <1>15 DEF StaleItemsDone, EndOfEvents, AcceptFails, AcceptBusy, HttpConnInit
<1>16. ASSUME NEW f \in Fds, AcceptClient(f) PROVE LoopType'
  BY <1>1, <1>16 DEF AcceptClient
<1>17. ASSUME NEW w \in Workers,
              \/ TakeTask(w) \/ OnRead_(w) \/ ProcessNothing(w) \/ EpollModify(w)
              \/ WritevEnds(w) \/ Sigpipe(w) \/ Wrote(w)
       PROVE LoopType'
  BY <1>1, <1>17 DEF TakeTask, OnRead_, ProcessNothing, EpollModify, WritevEnds,
                     Sigpipe, Wrote
<1>18. ASSUME NEW w \in Workers,
              \/ \E n \in 1..SizeT : WritevSome(w, n)
              \/ \E ka, file \in BOOLEAN, left \in 0..MaxSends : Process(w, ka, file, left)
       PROVE LoopType'
  BY <1>1, <1>18 DEF WritevSome, Process
<1>. QED
  BY <1>2, <1>4, <1>5, <1>6, <1>7, <1>8, <1>9, <1>10, <1>11, <1>12, <1>13, <1>14,
     <1>15, <1>16, <1>17, <1>18
  DEF Next, MainStep, WorkerStep, OnWrite_, Close, Environment, Threads

LEMMA ThreadTypeStep ==
  ASSUME TypeOK, Next PROVE ThreadType'
<1>. USE ServerAssumption
     DEF ThreadType, TypeOK, Threads, MainPcs, WorkerPcs, ClosePcs, At, Go, Leave
<1>1. ASSUME UNCHANGED threadVars PROVE ThreadType'
  BY <1>1 DEF threadVars
<1>2. ASSUME NEW t \in Threads, CloseReturn(t), UNCHANGED <<tasks, sent>> PROVE ThreadType'
  BY <1>2 DEF CloseReturn, LoopType
<1>3. ASSUME NEW t \in Threads, CloseConn_(t) \/ CloseMark(t) PROVE ThreadType'
  BY <1>3 DEF CloseConn_, CloseMark
<1>4. ASSUME NEW t \in Threads, CloseTest(t) \/ CloseFd(t) PROVE ThreadType'
  <2>1. CASE CloseReturn(t)
    BY <1>2, <1>4, <2>1 DEF CloseTest, CloseFd
  <2>2. CASE ~CloseReturn(t)
    BY <1>4, <2>2 DEF CloseTest, CloseFd
  <2>. QED  BY <2>1, <2>2
<1>5. CASE StaleItemsDone \/ GetNextTick \/ EpollWait \/ DispatchListen \/ EndOfEvents
  BY <1>5 DEF StaleItemsDone, GetNextTick, EpollWait, DispatchListen, EndOfEvents
<1>6. CASE AcceptFails \/ AcceptBusy \/ HttpConnInit \/ AddClient_
  BY <1>6 DEF AcceptFails, AcceptBusy, HttpConnInit, AddClient_, AfterAccept
<1>7. ASSUME NEW f \in Fds, ManageStaleItem_(f) \/ AcceptClient(f) \/ DispatchClose(f)
      PROVE ThreadType'
  BY <1>7 DEF ManageStaleItem_, AcceptClient, DispatchClose
<1>8. ASSUME NEW f \in Fds, DealRead_(f) \/ DealWrite_(f) PROVE ThreadType'
  <2>1. ASSUME NEW op \in {"read", "writev"}, AddTask(op, f)
        PROVE tasks' \in Seq([op : {"read", "writev"}, fd : Fds])
    BY <2>1 DEF AddTask
  <2>2. tasks' \in Seq([op : {"read", "writev"}, fd : Fds])
    BY <1>8, <2>1 DEF DealRead_, DealWrite_
  <2>. QED  BY <1>8, <2>2 DEF DealRead_, DealWrite_
<1>9. ASSUME NEW w \in Workers, TakeTask(w) PROVE ThreadType'
  <2>1. Head(tasks) \in [op : {"read", "writev"}, fd : Fds]
        /\ Tail(tasks) \in Seq([op : {"read", "writev"}, fd : Fds])
    BY <1>9, HeadTailProperties DEF TakeTask
  <2>2. Head(tasks).fd \in Fds /\ Head(tasks).op \in {"read", "writev"}
    BY <2>1
  <2>. HIDE DEF MainPcs, WorkerPcs
  <2>3. Head(tasks).op \in WorkerPcs
    BY <2>2 DEF WorkerPcs
  <2>4. /\ tasks' = Tail(tasks) /\ sent' = sent
        /\ pc' = [pc EXCEPT ![w] = Head(tasks).op]
        /\ client' = [client EXCEPT ![w] = Head(tasks).fd]
    BY <1>9 DEF TakeTask
  <2>5. tasks' \in Seq([op : {"read", "writev"}, fd : Fds]) /\ sent' \in [Workers -> Nat]
    BY <2>1, <2>4
  <2>6. client' \in [Threads -> Fds \cup {NoFd}]
    BY <2>2, <2>4
  <2>7. /\ pc' \in [Threads -> MainPcs \cup WorkerPcs]
        /\ pc'[Main] \in MainPcs /\ \A u \in Workers : pc'[u] \in WorkerPcs
    BY <2>3, <2>4
  <2>. QED  BY <2>5, <2>6, <2>7
<1>10. ASSUME NEW w \in Workers, OnRead_(w) \/ ProcessNothing(w) \/ EpollModify(w)
       PROVE ThreadType'
  BY <1>10 DEF OnRead_, ProcessNothing, EpollModify
<1>11. ASSUME NEW w \in Workers, NEW ka \in BOOLEAN, NEW file \in BOOLEAN,
              NEW left \in 0..MaxSends, Process(w, ka, file, left)
       PROVE ThreadType'
  BY <1>11 DEF Process
<1>12. ASSUME NEW w \in Workers, NEW n \in 1..SizeT, WritevSome(w, n) PROVE ThreadType'
  BY <1>12 DEF WritevSome
<1>13. ASSUME NEW w \in Workers, WritevEnds(w) \/ Wrote(w) PROVE ThreadType'
  BY <1>13 DEF WritevEnds, Wrote, AfterWrite
<1>14. ASSUME NEW w \in Workers, Sigpipe(w) PROVE ThreadType'
  BY <1>1, <1>14 DEF Sigpipe
<1>15. CASE Environment
  BY <1>1, <1>15 DEF Environment, Connect, PeerSend, PeerClose, PeerDrain, Expire
<1>. HIDE DEF ThreadType, TypeOK, MainPcs, WorkerPcs, ClosePcs, At, Go, Leave
<1>16. CASE MainStep
  BY <1>16, <1>3, <1>4, <1>5, <1>6, <1>7, <1>8 DEF MainStep, Close
<1>17. ASSUME NEW w \in Workers, OnWrite_(w) PROVE ThreadType'
  BY <1>17, <1>12, <1>13, <1>14 DEF OnWrite_
<1>18. ASSUME NEW w \in Workers, WorkerStep(w) PROVE ThreadType'
  BY <1>18, <1>3, <1>4, <1>9, <1>10, <1>11, <1>17 DEF WorkerStep, Close
<1>. QED  BY <1>15, <1>16, <1>18 DEF Next

LEMMA TypeStep == ASSUME TypeOK, [Next]_vars PROVE TypeOK'
<1>1. ASSUME Next PROVE TypeOK'
  <2>1. timeoutOn' = timeoutOn
    BY <1>1 DEF Next, MainStep, WorkerStep, Environment
  <2>. QED
    BY <1>1, <2>1, KernelTypeStep, ConnTypeStep, LoopTypeStep, ThreadTypeStep DEF TypeOK
<1>2. ASSUME UNCHANGED vars PROVE TypeOK'
  BY <1>2 DEF vars, kernelVars, peerVars, listenVars, sockVars, connVars, writeVars,
              loopVars, batchVars, threadVars, TypeOK, KernelType, ConnType,
              LoopType, ThreadType
<1>. QED  BY <1>1, <1>2

\* Type correctness: in every reachable state all lengths are natural numbers that
\* fit, and every thread is at a point of its own code.
THEOREM TypeCorrect == Spec => []TypeOK
<1>1. TypeOK /\ [Next]_vars => TypeOK'
  BY TypeStep
<1>. QED  BY InitType, <1>1, PTL DEF Spec

-----------------------------------------------------------------------------
(***************************************************************************)
(* Every connection is in one pair of hands, is registered and counted     *)
(* while it is open, and is closed once: for any number of descriptors,    *)
(* workers, clients and requests, provided that handlers are Timely.       *)
(*                                                                         *)
(* Nothing in the code locks an HttpConn.  What passes it on from hand to  *)
(* hand is the one-shot interest, the fetched event, the queued task and   *)
(* the argument of the running handler; the timer callback takes it from   *)
(* nobody, and is right only because a stale entry belongs to a connection *)
(* that no worker has.                                                     *)
(*                                                                         *)
(* From that follows what nobody changes behind a handler's back: the      *)
(* buffers, iov_ and the mapped file of a response, and the timer entry.   *)
(***************************************************************************)
Serving == {"read", "process", "rearmIn", "rearmOut", "writev", "wrote"}
Fetching == {"tick", "measure", "wait"}

Fetched(f) == event[f] # "none"
Tasked(f)  == \E i \in DOMAIN tasks : tasks[i].fd = f
Worked(f)  == \E w \in Workers : client[w] = f
Awaited(f) == Armed(f) /\ client[Main] # f

\* A thread has an HttpConn exactly while it is in a handler.
Clients ==
  /\ client[Main] # NoFd <=> pc[Main] \in {"init", "add"} \cup ClosePcs
  /\ \A w \in Workers : client[w] # NoFd <=> pc[w] # "idle"

\* The loop asks the timer and waits only when it has handled all events.
EventsDone ==
  pc[Main] \in Fetching \/ (pc[Main] \in ClosePcs /\ back = "tick")
    => \A f \in Fds : ~Fetched(f)

\* Without timeouts the heap is empty, and an entry is stale only while no worker
\* has the connection or is about to get it.
Timers ==
  \A f \in Fds :
    /\ timer[f] = "none" \/ timeoutOn
    /\ timer[f] = "stale" => ~Tasked(f) /\ ~Worked(f)

\* The ways to hold a connection exclude each other, and each is unique.
Single(f) == \A t, u \in Threads : client[t] = f /\ client[u] = f => t = u
Unique(f) == \A i, j \in DOMAIN tasks : tasks[i].fd = f /\ tasks[j].fd = f => i = j

Exclusive ==
  \A f \in Fds :
    /\ Single(f) /\ Unique(f)
    /\ Tasked(f) => ~Worked(f) /\ client[Main] # f
    /\ Fetched(f) => ~Worked(f) /\ client[Main] # f /\ ~Tasked(f)
    /\ Awaited(f) => ~Worked(f) /\ ~Tasked(f) /\ ~Fetched(f)

\* What is held is open, and its interest is switched off until it is passed on.
Held ==
  \A f \in Fds :
    /\ Worked(f) \/ Tasked(f) \/ Fetched(f) \/ Armed(f) => sock[f] # "free"
    /\ client[Main] = f /\ pc[Main] \in {"init", "add"} => sock[f] # "free"
    /\ Tasked(f) \/ Fetched(f) => interest[f] = "off"
    /\ \A w \in Workers : client[w] = f /\ pc[w] \in Serving => interest[f] = "off"

\* What isClose_ says at the points where it matters.
Marks ==
  /\ pc[Main] = "init" => isClose_[client[Main]]
  /\ \A t \in Threads : /\ pc[t] = "closeMark" => ~isClose_[client[t]]
                        /\ pc[t] = "closeFd" => isClose_[client[t]]

Inv ==
  /\ TypeOK /\ Clients /\ EventsDone /\ Timers /\ Exclusive /\ Held /\ Marks
  /\ DescriptorsTracked /\ NoOrphan /\ UserCountExact

(***************************************************************************)
(* The steps that hand nothing on: they leave the holders, the descriptors *)
(* and the count alone and move a thread within its handler, or the loop   *)
(* between its own points.                                                 *)
(***************************************************************************)
Moves(t, S, T) == pc[t] \in S /\ pc'[t] \in T

Quiet ==
  /\ UNCHANGED <<client, tasks, event, interest, isClose_, userCount, timer, timeoutOn, back>>
  /\ \A f \in Fds : sock'[f] = "free" <=> sock[f] = "free"
  /\ \A w \in Workers :
       \/ pc'[w] = pc[w]
       \/ Moves(w, Serving, Serving \cup {"closeRemove"})
       \/ Moves(w, {"closeTest"}, {"closeMark"}) /\ ~isClose_[client[w]]
  /\ \/ pc'[Main] = pc[Main]
     \/ Moves(Main, Fetching \cup {"dispatch", "accept"}, {"dispatch", "accept"})
     \/ Moves(Main, {"tick"}, {"measure"}) \/ Moves(Main, {"measure"}, {"wait"})
     \/ Moves(Main, {"dispatch"}, {"tick"}) /\ \A f \in Fds : ~Fetched(f)
     \/ Moves(Main, {"closeTest"}, {"closeMark"}) /\ ~isClose_[client[Main]]

LEMMA QuietEnvironment ==
  ASSUME TypeOK, timeoutOn' = timeoutOn,
         Connect \/ \E f \in Fds : PeerSend(f) \/ PeerClose(f) \/ PeerDrain(f)
  PROVE  Quiet
<1>. USE DEF Quiet, connVars, writeVars, loopVars, batchVars, threadVars, listenVars, sockVars
<1>1. CASE Connect
  BY <1>1 DEF Connect
<1>2. ASSUME NEW f \in Fds, PeerSend(f) PROVE Quiet
  BY <1>2 DEF PeerSend
<1>3. ASSUME NEW f \in Fds, PeerClose(f) PROVE Quiet
  BY <1>3 DEF PeerClose, TypeOK, KernelType
<1>4. ASSUME NEW f \in Fds, PeerDrain(f) PROVE Quiet
  BY <1>4 DEF PeerDrain
<1>. QED  BY <1>1, <1>2, <1>3, <1>4

LEMMA QuietLoop ==
  ASSUME TypeOK, timeoutOn' = timeoutOn,
         \/ StaleItemsDone \/ GetNextTick \/ DispatchListen \/ EndOfEvents
         \/ AcceptFails \/ AcceptBusy
  PROVE  Quiet
<1>. USE ServerAssumption
     DEF Quiet, Moves, connVars, writeVars, loopVars, batchVars, kernelVars, sockVars, Go, At,
         TypeOK, ThreadType, Threads, Fetching, Fetched
<1>1. CASE StaleItemsDone
  BY <1>1 DEF StaleItemsDone
<1>2. CASE GetNextTick
  BY <1>2 DEF GetNextTick
<1>3. CASE DispatchListen
  BY <1>3 DEF DispatchListen
<1>4. CASE EndOfEvents
  BY <1>4 DEF EndOfEvents
<1>5. CASE AcceptFails
  BY <1>5 DEF AcceptFails
<1>6. CASE AcceptBusy
  BY <1>6 DEF AcceptBusy
<1>. QED  BY <1>1, <1>2, <1>3, <1>4, <1>5, <1>6

LEMMA QuietWorker ==
  ASSUME TypeOK, timeoutOn' = timeoutOn, NEW w \in Workers,
         \/ OnRead_(w) \/ ProcessNothing(w) \/ OnWrite_(w)
         \/ \E ka, file \in BOOLEAN, left \in 0..MaxSends : Process(w, ka, file, left)
  PROVE  Quiet
<1>. USE ServerAssumption
     DEF Quiet, Moves, connVars, writeVars, loopVars, batchVars, kernelVars, sockVars, Go, At,
         TypeOK, ThreadType, Threads, Serving
<1>1. CASE OnRead_(w)
  BY <1>1 DEF OnRead_
<1>2. CASE ProcessNothing(w)
  BY <1>2 DEF ProcessNothing
<1>3. ASSUME NEW ka \in BOOLEAN, NEW file \in BOOLEAN, NEW left \in 0..MaxSends,
             Process(w, ka, file, left)
      PROVE  Quiet
  BY <1>3 DEF Process
<1>4. ASSUME NEW n \in 1..SizeT, WritevSome(w, n) PROVE Quiet
  BY <1>4 DEF WritevSome
<1>5. CASE WritevEnds(w)
  BY <1>5 DEF WritevEnds, AfterWrite
<1>6. CASE Sigpipe(w)
  BY <1>6 DEF Sigpipe, threadVars
<1>7. CASE Wrote(w)
  BY <1>7 DEF Wrote
<1>. QED  BY <1>1, <1>2, <1>3, <1>4, <1>5, <1>6, <1>7 DEF OnWrite_

LEMMA QuietClose ==
  ASSUME TypeOK, timeoutOn' = timeoutOn, NEW t \in Threads, CloseTest(t)
  PROVE  Quiet \/ (~MayClose(client[t]) /\ CloseReturn(t))
<1>1. CASE MayClose(client[t]) /\ Go(t, "closeMark") /\ UNCHANGED <<loopVars, client>>
  BY <1>1, ServerAssumption
  DEF CloseTest, Quiet, Moves, MayClose, loopVars, batchVars, kernelVars, sockVars, Go, At,
      TypeOK, ThreadType, Threads
<1>. QED  BY <1>1 DEF CloseTest

LEMMA QuietStutter ==
  ASSUME TypeOK, UNCHANGED vars PROVE Quiet
BY DEF vars, kernelVars, sockVars, connVars, loopVars, batchVars, threadVars, Quiet

(***************************************************************************)
(* The steps that hand a connection on.                                    *)
(***************************************************************************)
Returns(t) == CloseTest(t) /\ ~MayClose(client[t]) /\ CloseReturn(t)

ClosingStep(t) == CloseConn_(t) \/ Returns(t) \/ CloseMark(t) \/ CloseFd(t)

LoopStep ==
  \/ EpollWait \/ HttpConnInit \/ AddClient_
  \/ \E f \in Fds : \/ ManageStaleItem_(f) \/ AcceptClient(f) \/ DispatchClose(f)
                    \/ DealRead_(f) \/ DealWrite_(f) \/ Expire(f)

Handing ==
  /\ timeoutOn' = timeoutOn
  /\ \/ LoopStep \/ \E t \in Threads : ClosingStep(t)
     \/ \E w \in Workers : TakeTask(w) \/ EpollModify(w)

LEMMA QuietOrHanding ==
  ASSUME TypeOK, [Next]_vars PROVE Quiet \/ Handing
<1>1. CASE UNCHANGED vars
  BY <1>1, QuietStutter
<1>2. ASSUME Next PROVE timeoutOn' = timeoutOn
  BY <1>2 DEF Next, MainStep, WorkerStep, Environment
<1>3. ASSUME NEW t \in Threads, Close(t), timeoutOn' = timeoutOn
      PROVE  Quiet \/ ClosingStep(t)
  BY <1>3, QuietClose DEF Close, ClosingStep, Returns
<1>4. CASE Next /\ MainStep
  <2>1. Main \in Threads
    BY DEF Threads
  <2>. QED  BY <1>2, <1>3, <1>4, <2>1, QuietLoop DEF MainStep, Handing, LoopStep
<1>5. ASSUME Next, NEW w \in Workers, WorkerStep(w) PROVE Quiet \/ Handing
  <2>1. w \in Threads
    BY DEF Threads
  <2>. QED  BY <1>2, <1>3, <1>5, <2>1, QuietWorker DEF WorkerStep, Handing
<1>6. CASE Next /\ Environment
  <2>1. ASSUME NEW f \in Fds, Expire(f) PROVE Handing
    BY <1>2, <1>6, <2>1 DEF Handing, LoopStep
  <2>. QED  BY <1>2, <1>6, <2>1, QuietEnvironment DEF Environment
<1>. QED  BY <1>1, <1>4, <1>5, <1>6 DEF Next

(***************************************************************************)
(* The invariant, part by part.                                            *)
(***************************************************************************)
LEMMA InitInv == Init => Inv
<1>. SUFFICES ASSUME Init PROVE Inv
  OBVIOUS
<1>. USE ServerAssumption DEF Init
<1>1. TypeOK
  BY InitType
<1>2. \A t \in Threads : client[t] = NoFd
  OBVIOUS
<1>3. /\ pc[Main] = "tick" /\ \A w \in Workers : pc[w] = "idle"
      /\ \A t \in Threads : pc[t] \in {"tick", "idle"}
  BY DEF Threads
<1>4. \A f \in Fds : ~Fetched(f) /\ ~Tasked(f) /\ ~Worked(f) /\ ~Armed(f)
  BY <1>2 DEF Fetched, Tasked, Worked, Armed, Threads
<1>5. Clients /\ EventsDone /\ Timers
  BY <1>2, <1>3, <1>4 DEF Clients, EventsDone, Timers, Threads, ClosePcs
<1>6. Exclusive /\ Held /\ Marks
  BY <1>2, <1>3, <1>4 DEF Exclusive, Single, Unique, Held, Marks, Awaited, Serving, Threads
<1>7. DescriptorsTracked /\ NoOrphan
  BY <1>2 DEF DescriptorsTracked, NoOrphan
<1>8. UserCountExact
  <2>1. {f \in Fds : ~isClose_[f]} = {}
    OBVIOUS
  <2>. QED  BY <2>1, FS_EmptySet DEF UserCountExact
<1>. QED  BY <1>1, <1>5, <1>6, <1>7, <1>8 DEF Inv

\* Leave and Go as facts about the functions they change.
LEMMA Clientele ==
  ASSUME TypeOK, Clients, Quiet \/ Handing PROVE Clients'
<1>. USE ServerAssumption
     DEF Clients, TypeOK, ThreadType, Threads, ClosePcs, At, Go, Leave
<1>1. CASE Quiet
  BY <1>1 DEF Quiet, Moves, Serving, Fetching
<1>2. CASE EpollWait
  BY <1>2 DEF EpollWait
<1>3. CASE HttpConnInit
  BY <1>3 DEF HttpConnInit
<1>4. CASE AddClient_
  BY <1>4 DEF AddClient_, AfterAccept
<1>5. ASSUME NEW f \in Fds, ManageStaleItem_(f) PROVE Clients'
  BY <1>5 DEF ManageStaleItem_
<1>6. ASSUME NEW f \in Fds, AcceptClient(f) PROVE Clients'
  BY <1>6 DEF AcceptClient
<1>7. ASSUME NEW f \in Fds, DispatchClose(f) PROVE Clients'
  BY <1>7 DEF DispatchClose
<1>8. ASSUME NEW f \in Fds, DealRead_(f) \/ DealWrite_(f) \/ Expire(f) PROVE Clients'
  BY <1>8 DEF DealRead_, DealWrite_, Expire, threadVars
<1>9. ASSUME NEW t \in Threads, CloseConn_(t) PROVE Clients'
  BY <1>9 DEF CloseConn_
<1>10. ASSUME NEW t \in Threads, CloseReturn(t) PROVE Clients'
  BY <1>10 DEF CloseReturn, LoopType
<1>11. ASSUME NEW t \in Threads, CloseMark(t) PROVE Clients'
  BY <1>11 DEF CloseMark
<1>12. ASSUME NEW w \in Workers, TakeTask(w) PROVE Clients'
  <2>1. Head(tasks) \in [op : {"read", "writev"}, fd : Fds]
    BY <1>12, HeadTailProperties DEF TakeTask
  <2>2. Head(tasks).fd \in Fds /\ Head(tasks).op # "idle"
    BY <2>1
  <2>. QED  BY <1>12, <2>2 DEF TakeTask
<1>13. ASSUME NEW w \in Workers, EpollModify(w) PROVE Clients'
  BY <1>13 DEF EpollModify
<1>. HIDE DEF Clients, TypeOK, ThreadType, Threads, ClosePcs, At, Go, Leave
<1>. QED
  BY <1>1, <1>2, <1>3, <1>4, <1>5, <1>6, <1>7, <1>8, <1>9, <1>10, <1>11, <1>12, <1>13
  DEF Handing, LoopStep, ClosingStep, Returns, CloseFd

LEMMA EventsAreDone ==
  ASSUME TypeOK, EventsDone, Quiet \/ Handing PROVE EventsDone'
<1>. USE ServerAssumption
     DEF EventsDone, Fetched, Fetching, TypeOK, ThreadType, Threads, ClosePcs, At, Go, Leave
<1>1. CASE Quiet
  BY <1>1 DEF Quiet, Moves
<1>2. CASE EpollWait
  BY <1>2 DEF EpollWait
<1>3. CASE HttpConnInit
  BY <1>3 DEF HttpConnInit
<1>4. CASE AddClient_
  BY <1>4 DEF AddClient_, AfterAccept
<1>5. ASSUME NEW f \in Fds, ManageStaleItem_(f) PROVE EventsDone'
  BY <1>5 DEF ManageStaleItem_, batchVars
<1>6. ASSUME NEW f \in Fds, AcceptClient(f) PROVE EventsDone'
  BY <1>6 DEF AcceptClient
<1>7. ASSUME NEW f \in Fds, DispatchClose(f) PROVE EventsDone'
  BY <1>7 DEF DispatchClose
<1>8. ASSUME NEW f \in Fds, DealRead_(f) \/ DealWrite_(f) PROVE EventsDone'
  BY <1>8 DEF DealRead_, DealWrite_
<1>9. ASSUME NEW f \in Fds, Expire(f) PROVE EventsDone'
  BY <1>9 DEF Expire, batchVars, threadVars
<1>10. ASSUME NEW t \in Threads, CloseConn_(t) \/ CloseMark(t) PROVE EventsDone'
  BY <1>10 DEF CloseConn_, CloseMark, loopVars, batchVars
<1>11. ASSUME NEW t \in Threads, CloseReturn(t), pc[t] \in ClosePcs PROVE EventsDone'
  BY <1>11 DEF CloseReturn, LoopType, batchVars
<1>12. ASSUME NEW w \in Workers, TakeTask(w) \/ EpollModify(w) PROVE EventsDone'
  BY <1>12 DEF TakeTask, EpollModify, loopVars, batchVars
<1>13. ASSUME NEW t \in Threads, Returns(t) \/ CloseFd(t) PROVE CloseReturn(t) /\ pc[t] \in ClosePcs
  BY <1>13 DEF Returns, CloseTest, CloseFd
<1>. HIDE DEF EventsDone, Fetched, Fetching, TypeOK, ThreadType, Threads, ClosePcs, At, Go, Leave
<1>. QED
  BY <1>1, <1>2, <1>3, <1>4, <1>5, <1>6, <1>7, <1>8, <1>9, <1>10, <1>11, <1>12, <1>13
  DEF Handing, LoopStep, ClosingStep

\* What AddTask does to the queue.
LEMMA Enqueues ==
  ASSUME TypeOK, NEW f \in Fds, NEW op \in {"read", "writev"}, AddTask(op, f)
  PROVE  \A g \in Fds : /\ Tasked(g)' <=> Tasked(g) \/ g = f
                        /\ Unique(g) /\ (g = f => ~Tasked(g)) => Unique(g)'
<1>. DEFINE n == Len(tasks)
<1>1. /\ n \in Nat /\ DOMAIN tasks = 1..n /\ DOMAIN tasks' = 1..(n + 1)
      /\ tasks'[n + 1].fd = f /\ \A i \in 1..n : tasks'[i] = tasks[i]
  BY DEF AddTask, TypeOK, ThreadType
<1>. HIDE DEF n
<1>2. ASSUME NEW g \in Fds PROVE Tasked(g)' <=> Tasked(g) \/ g = f
  BY <1>1 DEF Tasked
<1>3. ASSUME NEW g \in Fds, Unique(g), g = f => ~Tasked(g) PROVE Unique(g)'
  BY <1>1, <1>3 DEF Tasked, Unique
<1>. QED  BY <1>2, <1>3

\* What a worker does to it.
LEMMA Dequeues ==
  ASSUME TypeOK, NEW w \in Workers, TakeTask(w)
  PROVE  \E f \in Fds :
           /\ client' = [client EXCEPT ![w] = f] /\ Tasked(f)
           /\ \A g \in Fds : /\ Tasked(g)' => Tasked(g)
                             /\ Tasked(g) /\ g # f => Tasked(g)'
                             /\ Unique(g) => Unique(g)' /\ (g = f => ~Tasked(g)')
<1>. DEFINE n == Len(tasks)
            f == Head(tasks).fd
<1>1. tasks # <<>> /\ tasks' = Tail(tasks) /\ client' = [client EXCEPT ![w] = Head(tasks).fd]
  BY DEF TakeTask
<1>2. /\ n \in Nat \ {0} /\ DOMAIN tasks = 1..n /\ DOMAIN tasks' = 1..(n - 1)
      /\ \A i \in 1..(n - 1) : tasks'[i] = tasks[i + 1]
  BY <1>1, HeadTailProperties DEF TypeOK, ThreadType
<1>3. f = tasks[1].fd /\ f \in Fds
  <2>1. Head(tasks) = tasks[1]
    BY <1>1 DEF TypeOK, ThreadType
  <2>2. Head(tasks) \in [op : {"read", "writev"}, fd : Fds]
    BY <1>1, HeadTailProperties DEF TypeOK, ThreadType
  <2>. QED  BY <2>1, <2>2
<1>. HIDE DEF n
<1>4. Tasked(f)
  BY <1>2, <1>3 DEF Tasked
<1>5. ASSUME NEW g \in Fds PROVE Tasked(g)' => Tasked(g)
  BY <1>2 DEF Tasked
<1>6. ASSUME NEW g \in Fds, Tasked(g), g # f PROVE Tasked(g)'
  <2>1. PICK i \in 1..n : tasks[i].fd = g
    BY <1>2, <1>6 DEF Tasked
  <2>2. i - 1 \in 1..(n - 1) /\ tasks'[i - 1].fd = g
    BY <1>2, <1>3, <1>6, <2>1
  <2>. QED  BY <1>2, <2>2 DEF Tasked
<1>7. ASSUME NEW g \in Fds, Unique(g) PROVE Unique(g)' /\ (g = f => ~Tasked(g)')
  <2>1. ASSUME NEW i \in 1..(n - 1) PROVE i + 1 \in DOMAIN tasks /\ tasks'[i] = tasks[i + 1]
    BY <1>2
  <2>2. ASSUME NEW i \in 1..(n - 1), NEW j \in 1..(n - 1),
               tasks'[i].fd = g, tasks'[j].fd = g
        PROVE  i = j
    <3>1. i + 1 = j + 1
      BY <1>7, <2>1, <2>2 DEF Unique
    <3>. QED  BY <1>2, <3>1
  <2>3. ASSUME NEW i \in 1..(n - 1), tasks'[i].fd = g, g = f PROVE FALSE
    <3>1. i + 1 = 1
      <4>1. 1 \in DOMAIN tasks /\ tasks[1].fd = g /\ tasks[i + 1].fd = g
        BY <1>2, <1>3, <2>1, <2>3
      <4>. QED  BY <1>7, <2>1, <4>1 DEF Unique
    <3>. QED  BY <1>2, <3>1
  <2>. QED  BY <1>2, <2>2, <2>3 DEF Unique, Tasked
<1>8. client' = [client EXCEPT ![w] = f]
  BY <1>1
<1>. HIDE DEF f
<1>. QED  BY <1>3, <1>4, <1>5, <1>6, <1>7, <1>8

LEMMA TimersAreIdle ==
  ASSUME TypeOK, Timely, Timers, Quiet \/ Handing PROVE Timers'
<1>. USE ServerAssumption DEF Timers
<1>1. ASSUME UNCHANGED <<timer, timeoutOn, tasks, client>> PROVE Timers'
  BY <1>1 DEF Tasked, Worked
<1>2. CASE Quiet
  BY <1>1, <1>2 DEF Quiet
<1>3. CASE timeoutOn' = timeoutOn /\ (EpollWait \/ HttpConnInit)
  BY <1>1, <1>3 DEF EpollWait, HttpConnInit, loopVars
<1>4. CASE timeoutOn' = timeoutOn /\ AddClient_
  <2>1. \A f \in Fds : Worked(f)' <=> Worked(f)
    BY <1>4 DEF AddClient_, AfterAccept, Leave, Worked, TypeOK, ThreadType, Threads
  <2>2. \A f \in Fds : Tasked(f)' <=> Tasked(f)
    BY <1>4 DEF AddClient_, Tasked
  <2>3. \A f \in Fds : timer'[f] = timer[f] \/ (timeoutOn /\ timer'[f] = "fresh")
    BY <1>4 DEF AddClient_, AddItem, TypeOK, LoopType
  <2>. QED  BY <1>4, <2>1, <2>2, <2>3
<1>5. ASSUME timeoutOn' = timeoutOn, NEW f \in Fds,
             ManageStaleItem_(f) \/ AcceptClient(f) \/ DispatchClose(f)
      PROVE  Timers'
  <2>1. \A g \in Fds : Worked(g)' <=> Worked(g)
    BY <1>5 DEF ManageStaleItem_, AcceptClient, DispatchClose, Worked, TypeOK, ThreadType,
                Threads
  <2>2. (\A g \in Fds : Tasked(g)' <=> Tasked(g)) /\ timer' = timer
    BY <1>5 DEF ManageStaleItem_, AcceptClient, DispatchClose, Tasked, loopVars
  <2>. QED  BY <1>5, <2>1, <2>2
<1>6. ASSUME timeoutOn' = timeoutOn, NEW f \in Fds, DealRead_(f) \/ DealWrite_(f)
      PROVE  Timers'
  <2>1. \A g \in Fds : Tasked(g)' <=> Tasked(g) \/ g = f
    BY <1>6, Enqueues DEF DealRead_, DealWrite_
  <2>2. \A g \in Fds : Worked(g)' <=> Worked(g)
    BY <1>6 DEF DealRead_, DealWrite_, Worked
  <2>3. ExtentTime_(f)
    BY <1>6 DEF DealRead_, DealWrite_
  <2>4. timer'[f] # "stale"
    BY <2>3 DEF ExtentTime_, TypeOK, LoopType
  <2>5. \A g \in Fds : timer'[g] = timer[g] \/ (timeoutOn /\ timer'[g] = "fresh")
    BY <2>3 DEF ExtentTime_, TypeOK, LoopType
  <2>. QED  BY <1>6, <2>1, <2>2, <2>4, <2>5
<1>7. ASSUME timeoutOn' = timeoutOn, NEW f \in Fds, Expire(f) PROVE Timers'
  <2>1. ~Tasked(f) /\ ~Worked(f)
    BY <1>7 DEF Expire, InFlight, Queued, Tasked, Worked
  <2>2. UNCHANGED <<tasks, client>> /\ timer' = [timer EXCEPT ![f] = "stale"] /\ timer[f] = "fresh"
    BY <1>7 DEF Expire, threadVars
  <2>. QED  BY <1>7, <2>1, <2>2 DEF Tasked, Worked, TypeOK, LoopType
<1>8. ASSUME timeoutOn' = timeoutOn, NEW t \in Threads, CloseConn_(t) \/ CloseMark(t)
      PROVE  Timers'
  BY <1>1, <1>8 DEF CloseConn_, CloseMark, loopVars
<1>9. ASSUME timeoutOn' = timeoutOn, NEW t \in Threads, Returns(t) \/ CloseFd(t)
      PROVE  Timers'
  <2>1. CloseReturn(t) /\ tasks' = tasks
    BY <1>9 DEF Returns, CloseTest, CloseFd
  <2>2. \A f \in Fds : (Worked(f)' => Worked(f)) /\ (Tasked(f)' <=> Tasked(f))
    BY <2>1 DEF CloseReturn, Leave, Worked, Tasked, TypeOK, ThreadType, Threads
  <2>3. \A f \in Fds : timer'[f] = timer[f] \/ timer'[f] = "none"
    BY <2>1 DEF CloseReturn, TypeOK, LoopType
  <2>. QED  BY <1>9, <2>2, <2>3
<1>10. ASSUME timeoutOn' = timeoutOn, NEW w \in Workers, TakeTask(w) PROVE Timers'
  <2>1. \A f \in Fds : Tasked(f)' => Tasked(f)
    BY <1>10, Dequeues
  <2>2. \A f \in Fds : Worked(f)' => Worked(f) \/ Tasked(f)
    <3>1. PICK f \in Fds : client' = [client EXCEPT ![w] = f] /\ Tasked(f)
      BY <1>10, Dequeues
    <3>. QED  BY <3>1 DEF Worked, TypeOK, ThreadType, Threads
  <2>3. timer' = timer
    BY <1>10 DEF TakeTask, loopVars
  <2>. QED  BY <1>10, <2>1, <2>2, <2>3
<1>11. ASSUME timeoutOn' = timeoutOn, NEW w \in Workers, EpollModify(w) PROVE Timers'
  <2>1. \A f \in Fds : (Worked(f)' => Worked(f)) /\ (Tasked(f)' <=> Tasked(f))
    BY <1>11 DEF EpollModify, Leave, Worked, Tasked, TypeOK, ThreadType, Threads
  <2>. QED  BY <1>11, <2>1 DEF EpollModify, loopVars
<1>. HIDE DEF Timers
<1>. QED
  BY <1>2, <1>3, <1>4, <1>5, <1>6, <1>7, <1>8, <1>9, <1>10, <1>11
  DEF Handing, LoopStep, ClosingStep

\* The holders of g after a step, in terms of those before it.
LEMMA ExclusiveStep ==
  ASSUME TypeOK, Clients, EventsDone, Timers, Exclusive, Held, Timely, Quiet \/ Handing
  PROVE  Exclusive'
<1>. USE ServerAssumption
<1>t. Main \in Threads /\ Main \notin Workers /\ \A w \in Workers : w \in Threads
  BY DEF Threads
<1>k. client \in [Threads -> Fds \cup {NoFd}] /\ NoFd \notin Fds
  BY DEF TypeOK, ThreadType
\* A connection changes hands only if it is the one that the step is about.
<1>a. ASSUME NEW f \in Fds,
             \A g \in Fds \ {f} :
               /\ \A t \in Threads : client'[t] = g => client[t] = g
               /\ Unique(g)' /\ (Tasked(g)' => Tasked(g)) /\ (Fetched(g)' => Fetched(g))
               /\ Awaited(g)' => Awaited(g),
             Single(f)', Unique(f)',
             Tasked(f)' => ~Worked(f)' /\ client'[Main] # f,
             Fetched(f)' => ~Worked(f)' /\ client'[Main] # f /\ ~Tasked(f)',
             Awaited(f)' => ~Worked(f)' /\ ~Tasked(f)' /\ ~Fetched(f)'
      PROVE  Exclusive'
  <2>1. ASSUME NEW g \in Fds \ {f}
        PROVE  /\ Single(g)' /\ Unique(g)'
               /\ Tasked(g)' => ~Worked(g)' /\ client'[Main] # g
               /\ Fetched(g)' => ~Worked(g)' /\ client'[Main] # g /\ ~Tasked(g)'
               /\ Awaited(g)' => ~Worked(g)' /\ ~Tasked(g)' /\ ~Fetched(g)'
    <3>1. Single(g)'
      BY <1>a DEF Exclusive, Single
    <3>2. (Worked(g)' => Worked(g)) /\ (client'[Main] = g => client[Main] = g)
      BY <1>a, <1>t DEF Worked
    <3>. QED  BY <1>a, <3>1, <3>2 DEF Exclusive
  <2>. QED  BY <1>a, <2>1 DEF Exclusive
<1>1. ASSUME UNCHANGED <<client, tasks, event>>, \A f \in Fds : Armed(f)' => Armed(f)
      PROVE  Exclusive'
  BY <1>1 DEF Exclusive, Single, Unique, Tasked, Worked, Fetched, Awaited
<1>2. CASE Quiet
  BY <1>1, <1>2 DEF Quiet, Armed
<1>3. CASE EpollWait
  <2>1. \A f \in Fds : /\ Fetched(f)' => Armed(f)
                       /\ Armed(f)' => Armed(f) /\ ~Fetched(f)'
    BY <1>3 DEF EpollWait, EventOf, HasEvent, OneShot, Armed, Fetched, TypeOK, KernelType
  <2>2. UNCHANGED <<client, tasks>> /\ client[Main] = NoFd
    BY <1>3 DEF EpollWait, At, Clients, ClosePcs
  <2>. QED
    BY <1>k, <2>1, <2>2 DEF Exclusive, Single, Unique, Tasked, Worked, Awaited
<1>4. ASSUME HttpConnInit \/ \E f \in Fds : Expire(f) PROVE Exclusive'
  BY <1>1, <1>4 DEF HttpConnInit, Expire, loopVars, batchVars, threadVars, Armed
<1>5. CASE AddClient_
  <2>1. PICK f \in Fds :
          /\ client[Main] = f /\ client' = [client EXCEPT ![Main] = NoFd]
          /\ UNCHANGED <<tasks, event>>
          /\ \A g \in Fds \ {f} : interest'[g] = interest[g]
    BY <1>5, <1>k, <1>t DEF AddClient_, AfterAccept, Leave, batchVars, Clients, At, TypeOK, KernelType
  <2>2. ~Worked(f) /\ ~Tasked(f) /\ ~Fetched(f)
    BY <1>t, <2>1 DEF Exclusive, Single, Worked
  <2>3. \A t \in Threads : client'[t] # f
    BY <1>k, <1>t, <2>1, <2>2 DEF Worked, Threads
  <2>4. ~Worked(f)' /\ ~Tasked(f)' /\ ~Fetched(f)' /\ Single(f)' /\ Unique(f)'
    BY <1>t, <2>1, <2>2, <2>3 DEF Worked, Tasked, Fetched, Single, Unique
  <2>5. ASSUME NEW g \in Fds \ {f}
        PROVE  /\ \A t \in Threads : client'[t] = g => client[t] = g
               /\ Unique(g)' /\ (Tasked(g)' => Tasked(g)) /\ (Fetched(g)' => Fetched(g))
               /\ Awaited(g)' => Awaited(g)
    BY <1>k, <1>t, <2>1 DEF Exclusive, Unique, Tasked, Fetched, Awaited, Armed
  <2>. QED  BY <1>a, <2>1, <2>4, <2>5
\* The loop takes a connection that nobody has.
<1>6. ASSUME NEW f \in Fds, ManageStaleItem_(f) \/ AcceptClient(f) \/ DispatchClose(f)
      PROVE  Exclusive'
  <2>1. /\ client' = [client EXCEPT ![Main] = f] /\ client[Main] = NoFd
        /\ UNCHANGED <<tasks, interest>>
        /\ \A g \in Fds : Fetched(g)' => Fetched(g) /\ (DispatchClose(f) => g # f)
    BY <1>6 DEF ManageStaleItem_, AcceptClient, DispatchClose, Handled, loopVars, batchVars,
                At, Clients, ClosePcs, Fetched, TypeOK, LoopType
  <2>2. ~Worked(f) /\ ~Tasked(f) /\ ~Fetched(f)'
    <3>1. CASE ManageStaleItem_(f)
      BY <2>1, <3>1 DEF ManageStaleItem_, Timers, EventsDone, Fetching, At
    <3>2. CASE AcceptClient(f)
      BY <2>1, <3>2 DEF AcceptClient, FreeFds, Held
    <3>3. CASE DispatchClose(f)
      BY <2>1, <3>3 DEF DispatchClose, Exclusive, Fetched
    <3>. QED  BY <1>6, <3>1, <3>2, <3>3
  <2>3. \A t \in Threads : client'[t] = f => t = Main
    BY <1>k, <1>t, <2>1, <2>2 DEF Worked, Threads
  <2>4. ~Worked(f)' /\ ~Tasked(f)' /\ Single(f)' /\ Unique(f)' /\ ~Awaited(f)'
    BY <1>k, <1>t, <2>1, <2>2, <2>3 DEF Worked, Tasked, Single, Unique, Awaited
  <2>5. ASSUME NEW g \in Fds \ {f}
        PROVE  /\ \A t \in Threads : client'[t] = g => client[t] = g
               /\ Unique(g)' /\ (Tasked(g)' => Tasked(g)) /\ (Fetched(g)' => Fetched(g))
               /\ Awaited(g)' => Awaited(g)
    BY <1>k, <1>t, <2>1 DEF Exclusive, Unique, Tasked, Awaited, Armed
  <2>. QED  BY <1>a, <2>2, <2>4, <2>5
<1>7. ASSUME NEW f \in Fds, DealRead_(f) \/ DealWrite_(f) PROVE Exclusive'
  <2>1. /\ UNCHANGED <<client, interest>> /\ Fetched(f)
        /\ ~Fetched(f)' /\ \A g \in Fds : Fetched(g)' => Fetched(g)
    BY <1>7 DEF DealRead_, DealWrite_, Handled, Fetched, TypeOK, LoopType
  <2>2. ~Worked(f) /\ client[Main] # f /\ ~Tasked(f) /\ ~Awaited(f)
    BY <2>1 DEF Exclusive
  <2>3. \A g \in Fds : Unique(g)' /\ (g # f => (Tasked(g)' => Tasked(g)))
    BY <1>7, <2>2, Enqueues DEF DealRead_, DealWrite_, Exclusive
  <2>4. ~Worked(f)' /\ client'[Main] # f /\ ~Awaited(f)' /\ Single(f)'
    BY <2>1, <2>2 DEF Worked, Awaited, Armed, Single, Exclusive
  <2>5. ASSUME NEW g \in Fds \ {f}
        PROVE  /\ \A t \in Threads : client'[t] = g => client[t] = g
               /\ Awaited(g)' => Awaited(g)
    BY <2>1 DEF Awaited, Armed
  <2>. QED  BY <1>a, <2>1, <2>3, <2>4, <2>5
<1>8. ASSUME NEW t \in Threads, CloseConn_(t) \/ CloseMark(t) PROVE Exclusive'
  <2>1. UNCHANGED <<client, tasks, event>>
    BY <1>8 DEF CloseConn_, CloseMark, loopVars, batchVars
  <2>2. \A f \in Fds : Armed(f)' => Armed(f)
    BY <1>8 DEF CloseConn_, CloseMark, Armed, TypeOK, KernelType
  <2>. QED  BY <1>1, <2>1, <2>2
\* A thread lets go of its connection.
<1>b. ASSUME NEW t \in Threads, client[t] \in Fds, client' = [client EXCEPT ![t] = NoFd],
             UNCHANGED <<tasks, event>>,
             \A g \in Fds \ {client[t]} : Armed(g)' => Armed(g)
      PROVE  Exclusive'
  <2>0. PICK f \in Fds : client[t] = f
    BY <1>b
  <2>1. ~Tasked(f) /\ ~Fetched(f) /\ \A u \in Threads : client[u] = f => u = t
    BY <1>b, <1>t, <2>0 DEF Exclusive, Single, Worked, Threads
  <2>2. \A u \in Threads : client'[u] # f
    BY <1>b, <1>k, <2>0, <2>1
  <2>3. ~Worked(f)' /\ ~Tasked(f)' /\ ~Fetched(f)' /\ Single(f)' /\ Unique(f)'
    BY <1>b, <1>t, <2>1, <2>2 DEF Worked, Tasked, Fetched, Single, Unique
  <2>4. ASSUME NEW g \in Fds \ {f}
        PROVE  /\ \A u \in Threads : client'[u] = g => client[u] = g
               /\ Unique(g)' /\ (Tasked(g)' => Tasked(g)) /\ (Fetched(g)' => Fetched(g))
               /\ Awaited(g)' => Awaited(g)
    BY <1>b, <1>k, <1>t, <2>0 DEF Exclusive, Unique, Tasked, Fetched, Awaited
  <2>. QED  BY <1>a, <1>b, <2>3, <2>4
<1>9. ASSUME NEW t \in Threads, Returns(t) \/ CloseFd(t) PROVE Exclusive'
  <2>1. client' = [client EXCEPT ![t] = NoFd] /\ UNCHANGED <<tasks, event>>
    BY <1>9 DEF Returns, CloseTest, CloseFd, CloseReturn, Leave, batchVars
  <2>2. client[t] \in Fds
    BY <1>9, <1>k, <1>t DEF Returns, CloseTest, CloseFd, At, Clients, ClosePcs, Threads
  <2>3. \A g \in Fds : Armed(g)' => Armed(g)
    BY <1>9 DEF Returns, CloseTest, CloseFd, Armed, TypeOK, KernelType
  <2>. QED  BY <1>b, <2>1, <2>2, <2>3
<1>10. ASSUME NEW w \in Workers, EpollModify(w) PROVE Exclusive'
  <2>1. client' = [client EXCEPT ![w] = NoFd] /\ UNCHANGED <<tasks, event>>
    BY <1>10 DEF EpollModify, Leave, loopVars, batchVars
  <2>2. client[w] \in Fds
    BY <1>10, <1>k, <1>t DEF EpollModify, At, Clients
  <2>3. \A g \in Fds \ {client[w]} : Armed(g)' => Armed(g)
    BY <1>10 DEF EpollModify, Armed, TypeOK, KernelType
  <2>. QED  BY <1>b, <1>t, <2>1, <2>2, <2>3
<1>11. ASSUME NEW w \in Workers, TakeTask(w) PROVE Exclusive'
  <2>1. PICK f \in Fds :
          /\ client' = [client EXCEPT ![w] = f] /\ Tasked(f)
          /\ \A g \in Fds : /\ Tasked(g)' => Tasked(g)
                            /\ Tasked(g) /\ g # f => Tasked(g)'
                            /\ Unique(g) => Unique(g)' /\ (g = f => ~Tasked(g)')
    BY <1>11, Dequeues
  <2>2. UNCHANGED <<event, interest>>
    BY <1>11 DEF TakeTask, loopVars, batchVars
  <2>3. ~Worked(f) /\ client[Main] # f /\ ~Fetched(f) /\ ~Awaited(f) /\ Unique(f)
    BY <2>1 DEF Exclusive
  <2>4. \A t \in Threads : client'[t] = f => t = w
    BY <1>k, <1>t, <2>1, <2>3 DEF Worked, Threads
  <2>5. Single(f)' /\ ~Tasked(f)' /\ Unique(f)' /\ ~Fetched(f)' /\ ~Awaited(f)'
    BY <1>k, <1>t, <2>1, <2>2, <2>3, <2>4 DEF Single, Fetched, Awaited, Armed
  <2>6. ASSUME NEW g \in Fds \ {f}
        PROVE  /\ \A t \in Threads : client'[t] = g => client[t] = g
               /\ Unique(g)' /\ (Tasked(g)' => Tasked(g)) /\ (Fetched(g)' => Fetched(g))
               /\ Awaited(g)' => Awaited(g)
    BY <1>k, <1>t, <2>1, <2>2 DEF Exclusive, Fetched, Awaited, Armed
  <2>. QED  BY <1>a, <2>5, <2>6
<1>. QED
  BY <1>2, <1>3, <1>4, <1>5, <1>6, <1>7, <1>8, <1>9, <1>10, <1>11
  DEF Handing, LoopStep, ClosingStep

LEMMA HeldStep ==
  ASSUME TypeOK, Clients, Exclusive, Held, Quiet \/ Handing PROVE Held'
<1>. USE ServerAssumption
<1>t. Main \in Threads /\ Main \notin Workers /\ \A w \in Workers : w \in Threads
  BY DEF Threads
<1>k. /\ client \in [Threads -> Fds \cup {NoFd}] /\ NoFd \notin Fds
      /\ pc \in [Threads -> MainPcs \cup WorkerPcs] /\ interest \in [Fds -> {"none", "off", "IN", "OUT"}]
      /\ sock \in [Fds -> {"free", "open", "fin", "rst", "broken"}]
  BY DEF TypeOK, ThreadType, KernelType
<1>a. ASSUME UNCHANGED <<client, tasks, event, interest, sock>>,
             \A w \in Workers : pc'[w] \in Serving => pc[w] \in Serving,
             pc'[Main] \in {"init", "add"} => pc[Main] \in {"init", "add"}
      PROVE  Held'
  BY <1>a DEF Held, Worked, Tasked, Fetched, Armed
<1>1. CASE Quiet
  <2>1. \A w \in Workers : pc'[w] \in Serving => pc[w] \in Serving
    BY <1>1 DEF Quiet, Moves, Serving
  <2>2. pc'[Main] \in {"init", "add"} => pc[Main] \in {"init", "add"}
    BY <1>1 DEF Quiet, Moves, Fetching
  <2>3. /\ UNCHANGED <<client, tasks, event, interest>>
        /\ \A f \in Fds : sock'[f] = "free" <=> sock[f] = "free"
    BY <1>1 DEF Quiet
  <2>. QED  BY <2>1, <2>2, <2>3 DEF Held, Worked, Tasked, Fetched, Armed
<1>2. CASE EpollWait
  <2>1. \A f \in Fds : /\ Fetched(f)' => Armed(f) /\ interest'[f] = "off"
                       /\ interest[f] = "off" => interest'[f] = "off"
                       /\ Armed(f)' => Armed(f)
    BY <1>2, <1>k DEF EpollWait, EventOf, HasEvent, OneShot, Armed, Fetched
  <2>2. UNCHANGED <<client, tasks, sock>> /\ pc' = [pc EXCEPT ![Main] = "dispatch"]
    BY <1>2 DEF EpollWait, sockVars, Go
  <2>3. pc'[Main] \notin {"init", "add"} /\ \A w \in Workers : pc'[w] = pc[w]
    BY <1>k, <1>t, <2>2
  <2>. QED  BY <2>1, <2>2, <2>3 DEF Held, Worked, Tasked
<1>3. CASE HttpConnInit
  <2>1. /\ UNCHANGED <<client, tasks, event, interest, sock>>
        /\ pc[Main] = "init" /\ pc' = [pc EXCEPT ![Main] = "add"]
    BY <1>3 DEF HttpConnInit, kernelVars, sockVars, loopVars, batchVars, Go, At
  <2>. QED  BY <1>a, <1>k, <1>t, <2>1
<1>4. CASE AddClient_
  <2>1. PICK f \in Fds :
          /\ client[Main] = f /\ client' = [client EXCEPT ![Main] = NoFd]
          /\ UNCHANGED <<tasks, event, sock>>
          /\ interest' = IF sock[f] # "free" THEN [interest EXCEPT ![f] = "IN"] ELSE interest
    BY <1>4, <1>k, <1>t DEF AddClient_, AfterAccept, Leave, batchVars, kernelVars, sockVars, Clients, At
  <2>2. ~Worked(f) /\ ~Tasked(f) /\ ~Fetched(f)
    BY <1>t, <2>1 DEF Exclusive, Single, Worked
  <2>3. \A w \in Workers : pc'[w] = pc[w] /\ client'[w] = client[w]
    BY <1>4, <1>k, <1>t, <2>1 DEF AddClient_, AfterAccept, Leave, Go
  <2>4. pc'[Main] \notin {"init", "add"}
    BY <1>4, <1>k, <1>t DEF AddClient_, AfterAccept, Leave, Go
  <2>5. \A g \in Fds : /\ g # f => interest'[g] = interest[g]
                       /\ Armed(g)' => Armed(g) \/ sock[g] # "free"
    BY <1>k, <2>1 DEF Armed
  <2>. QED  BY <2>1, <2>2, <2>3, <2>4, <2>5 DEF Held, Worked, Tasked, Fetched
<1>5. ASSUME NEW f \in Fds, ManageStaleItem_(f) \/ DispatchClose(f) PROVE Held'
  <2>1. /\ client' = [client EXCEPT ![Main] = f] /\ pc' = [pc EXCEPT ![Main] = "closeRemove"]
        /\ UNCHANGED <<tasks, interest, sock>>
        /\ \A g \in Fds : Fetched(g)' => Fetched(g)
    BY <1>5 DEF ManageStaleItem_, DispatchClose, Handled, kernelVars, sockVars, batchVars, Go,
                Fetched, TypeOK, LoopType
  <2>2. \A w \in Workers : pc'[w] = pc[w] /\ client'[w] = client[w]
    BY <1>k, <1>t, <2>1
  <2>3. pc'[Main] \notin {"init", "add"}
    BY <1>k, <1>t, <2>1
  <2>. QED  BY <2>1, <2>2, <2>3 DEF Held, Worked, Tasked, Armed
<1>6. ASSUME NEW f \in Fds, AcceptClient(f) PROVE Held'
  <2>1. /\ client' = [client EXCEPT ![Main] = f] /\ pc' = [pc EXCEPT ![Main] = "init"]
        /\ UNCHANGED <<tasks, interest, event>>
        /\ sock' = [sock EXCEPT ![f] = "open"]
    BY <1>6 DEF AcceptClient, loopVars, batchVars, Go
  <2>2. \A w \in Workers : pc'[w] = pc[w] /\ client'[w] = client[w]
    BY <1>k, <1>t, <2>1
  <2>3. \A g \in Fds : /\ sock'[g] = "free" => sock[g] = "free"
                       /\ client'[Main] = g => sock'[g] # "free"
    BY <1>k, <1>t, <2>1
  <2>. QED  BY <2>1, <2>2, <2>3 DEF Held, Worked, Tasked, Fetched, Armed
<1>7. ASSUME NEW f \in Fds, DealRead_(f) \/ DealWrite_(f) PROVE Held'
  <2>1. /\ UNCHANGED <<client, interest, pc, sock>> /\ Fetched(f)
        /\ \A g \in Fds : Fetched(g)' => Fetched(g)
    BY <1>7 DEF DealRead_, DealWrite_, Handled, kernelVars, sockVars, Fetched, TypeOK, LoopType
  <2>2. \A g \in Fds : Tasked(g)' => Tasked(g) \/ g = f
    BY <1>7, Enqueues DEF DealRead_, DealWrite_
  <2>. QED  BY <2>1, <2>2 DEF Held, Worked, Armed
<1>8. ASSUME NEW f \in Fds, Expire(f) PROVE Held'
  BY <1>8, <1>a DEF Expire, kernelVars, sockVars, batchVars, threadVars
<1>9. ASSUME NEW t \in Threads, CloseConn_(t) PROVE Held'
  <2>1. PICK f \in Fds :
          /\ client[t] = f /\ UNCHANGED <<client, tasks, event, sock>>
          /\ interest' = [interest EXCEPT ![f] = "none"]
          /\ pc[t] = "closeRemove" /\ pc' = [pc EXCEPT ![t] = "closeTest"]
    BY <1>9, <1>k, <1>t
    DEF CloseConn_, kernelVars, sockVars, loopVars, batchVars, Go, At, Clients, ClosePcs, Threads
  <2>2. ~Tasked(f) /\ ~Fetched(f) /\ \A w \in Workers : client[w] = f => w = t
    BY <1>t, <2>1 DEF Exclusive, Single, Worked, Threads
  <2>3. \A w \in Workers : pc'[w] \in Serving => pc[w] \in Serving /\ w # t
    BY <1>k, <1>t, <2>1 DEF Serving
  <2>4. pc'[Main] \in {"init", "add"} => pc[Main] \in {"init", "add"}
    BY <1>k, <1>t, <2>1
  <2>5. \A g \in Fds : /\ g # f => interest'[g] = interest[g]
                       /\ Armed(g)' => Armed(g)
    BY <1>k, <2>1 DEF Armed
  <2>. QED  BY <2>1, <2>2, <2>3, <2>4, <2>5 DEF Held, Worked, Tasked, Fetched
<1>10. ASSUME NEW t \in Threads, Returns(t) PROVE Held'
  <2>1. /\ client' = [client EXCEPT ![t] = NoFd] /\ UNCHANGED <<tasks, event, interest, sock>>
        /\ \E label \in {"idle", "tick", "dispatch"} : pc' = [pc EXCEPT ![t] = label]
    BY <1>10 DEF Returns, CloseTest, CloseReturn, Leave, Go, kernelVars, sockVars, batchVars,
                 TypeOK, LoopType
  <2>2. \A w \in Workers : pc'[w] \in Serving => pc'[w] = pc[w]
    BY <1>k, <1>t, <2>1 DEF Serving
  <2>3. pc'[Main] \in {"init", "add"} => pc[Main] \in {"init", "add"}
    BY <1>k, <1>t, <2>1
  <2>4. \A u \in Threads, g \in Fds : client'[u] = g => client[u] = g
    BY <1>k, <2>1
  <2>. QED  BY <1>t, <2>1, <2>2, <2>3, <2>4 DEF Held, Worked, Tasked, Fetched, Armed
<1>11. ASSUME NEW t \in Threads, CloseMark(t) PROVE Held'
  <2>1. /\ UNCHANGED <<client, tasks, event, interest, sock>>
        /\ pc' = [pc EXCEPT ![t] = "closeFd"]
    BY <1>11 DEF CloseMark, kernelVars, sockVars, loopVars, batchVars, Go
  <2>. QED  BY <1>a, <1>k, <1>t, <2>1 DEF Serving
<1>12. ASSUME NEW t \in Threads, CloseFd(t) PROVE Held'
  <2>1. PICK f \in Fds :
          /\ client[t] = f /\ client' = [client EXCEPT ![t] = NoFd]
          /\ UNCHANGED <<tasks, event>>
          /\ interest' = [interest EXCEPT ![f] = "none"] /\ sock' = [sock EXCEPT ![f] = "free"]
    BY <1>12, <1>k, <1>t
    DEF CloseFd, CloseReturn, Leave, batchVars, At, Clients, ClosePcs, Threads
  <2>2. \E label \in {"idle", "tick", "dispatch"} : pc' = [pc EXCEPT ![t] = label]
    BY <1>12 DEF CloseFd, CloseReturn, Leave, Go, TypeOK, LoopType
  <2>3. \A w \in Workers : pc'[w] \in Serving => pc'[w] = pc[w]
    BY <1>k, <1>t, <2>2 DEF Serving
  <2>4. pc'[Main] \in {"init", "add"} => pc[Main] \in {"init", "add"}
    BY <1>k, <1>t, <2>2
  <2>5. ~Tasked(f) /\ ~Fetched(f) /\ \A u \in Threads : client'[u] # f
    BY <1>k, <1>t, <2>1 DEF Exclusive, Single, Worked, Threads
  <2>6. \A u \in Threads, g \in Fds : client'[u] = g => client[u] = g /\ g # f
    BY <1>k, <2>1, <2>5
  <2>7. \A g \in Fds : /\ g # f => interest'[g] = interest[g] /\ sock'[g] = sock[g]
                       /\ Armed(g)' => Armed(g) /\ g # f
    BY <1>k, <2>1 DEF Armed
  <2>. QED  BY <1>t, <2>1, <2>3, <2>4, <2>5, <2>6, <2>7 DEF Held, Worked, Tasked, Fetched
<1>13. ASSUME NEW w \in Workers, TakeTask(w) PROVE Held'
  <2>1. PICK f \in Fds :
          /\ client' = [client EXCEPT ![w] = f] /\ Tasked(f)
          /\ \A g \in Fds : Tasked(g)' => Tasked(g)
    BY <1>13, Dequeues
  <2>2. /\ UNCHANGED <<event, interest, sock>>
        /\ \E op \in MainPcs \cup WorkerPcs : pc' = [pc EXCEPT ![w] = op]
    <3>1. Head(tasks).op \in WorkerPcs
      <4>1. Head(tasks) \in [op : {"read", "writev"}, fd : Fds]
        BY <1>13, HeadTailProperties DEF TakeTask, TypeOK, ThreadType
      <4>. QED  BY <4>1 DEF WorkerPcs
    <3>. QED  BY <1>13, <3>1 DEF TakeTask, kernelVars, sockVars, loopVars, batchVars, Go
  <2>3. /\ client'[Main] = client[Main] /\ pc'[Main] = pc[Main]
        /\ \A u \in Workers \ {w} : client'[u] = client[u] /\ pc'[u] = pc[u]
        /\ client'[w] = f
    BY <1>k, <1>t, <2>1, <2>2
  <2>. QED  BY <2>1, <2>2, <2>3 DEF Held, Worked, Fetched, Armed
<1>14. ASSUME NEW w \in Workers, EpollModify(w) PROVE Held'
  <2>1. PICK f \in Fds :
          /\ client[w] = f /\ client' = [client EXCEPT ![w] = NoFd]
          /\ UNCHANGED <<tasks, event, sock>> /\ pc' = [pc EXCEPT ![w] = "idle"]
          /\ \A g \in Fds \ {f} : interest'[g] = interest[g]
    <3>1. client[w] \in Fds
      BY <1>14, <1>k, <1>t DEF EpollModify, At, Clients
    <3>. QED
      BY <1>14, <1>k, <3>1
      DEF EpollModify, Leave, Go, kernelVars, sockVars, loopVars, batchVars
  <2>2. ~Tasked(f) /\ ~Fetched(f) /\ sock[f] # "free" /\ \A u \in Workers : client'[u] # f
    BY <1>k, <1>t, <2>1 DEF Exclusive, Single, Worked, Held
  <2>3. /\ client'[Main] = client[Main] /\ pc'[Main] = pc[Main]
        /\ \A u \in Workers, g \in Fds :
             client'[u] = g => client[u] = g /\ pc'[u] = pc[u] /\ g # f
    BY <1>k, <1>t, <2>1, <2>2
  <2>. QED  BY <2>1, <2>2, <2>3 DEF Held, Worked, Tasked, Fetched, Armed
<1>. QED
  BY <1>1, <1>2, <1>3, <1>4, <1>5, <1>6, <1>7, <1>8, <1>9, <1>10, <1>11, <1>12, <1>13, <1>14
  DEF Handing, LoopStep, ClosingStep

\* isClose_ changes only under the hands of the thread that has the connection.
LEMMA MarksStep ==
  ASSUME TypeOK, Clients, Exclusive, Marks, DescriptorsTracked, Quiet \/ Handing
  PROVE  Marks'
<1>. USE ServerAssumption
<1>t. Main \in Threads /\ Main \notin Workers /\ \A w \in Workers : w \in Threads
  BY DEF Threads
<1>k. /\ client \in [Threads -> Fds \cup {NoFd}] /\ NoFd \notin Fds
      /\ pc \in [Threads -> MainPcs \cup WorkerPcs] /\ isClose_ \in [Fds -> BOOLEAN]
  BY DEF TypeOK, ThreadType, ConnType
\* A thread moves to a point where isClose_ does not matter.
<1>a. ASSUME isClose_' = isClose_, NEW t \in Threads,
             NEW label, label \notin {"init", "closeMark", "closeFd"},
             pc' = [pc EXCEPT ![t] = label],
             \A u \in Threads \ {t} : client'[u] = client[u]
      PROVE  Marks'
  <2>1. pc'[t] = label /\ \A u \in Threads \ {t} : pc'[u] = pc[u]
    BY <1>a, <1>k
  <2>. QED  BY <1>a, <1>t, <2>1 DEF Marks
<1>1. CASE Quiet
  <2>1. UNCHANGED <<client, isClose_>>
    BY <1>1 DEF Quiet
  <2>2. \A t \in Threads : \/ pc'[t] = pc[t]
                           \/ pc'[t] \notin {"init", "closeMark", "closeFd"}
                           \/ pc'[t] = "closeMark" /\ ~isClose_[client[t]]
    BY <1>1, <1>t DEF Quiet, Moves, Serving, Fetching, Threads
  <2>. QED  BY <1>t, <2>1, <2>2 DEF Marks
<1>2. CASE EpollWait
  <2>1. UNCHANGED <<client, isClose_>> /\ pc' = [pc EXCEPT ![Main] = "dispatch"]
    BY <1>2 DEF EpollWait, connVars, Go
  <2>. QED  BY <1>a, <1>t, <2>1
<1>3. CASE HttpConnInit
  <2>1. PICK f \in Fds :
          /\ client[Main] = f /\ client' = client /\ pc' = [pc EXCEPT ![Main] = "add"]
          /\ isClose_' = [isClose_ EXCEPT ![f] = FALSE]
    BY <1>3, <1>k, <1>t DEF HttpConnInit, Go, At, Clients
  <2>2. pc'[Main] = "add" /\ \A u \in Threads \ {Main} : pc'[u] = pc[u]
    BY <1>k, <1>t, <2>1
  <2>3. \A u \in Threads \ {Main} : client[u] # f
    BY <1>t, <2>1 DEF Exclusive, Single
  <2>4. \A u \in Threads \ {Main} : client[u] \in Fds => isClose_'[client[u]] = isClose_[client[u]]
    BY <1>k, <2>1, <2>3
  <2>5. \A u \in Threads : pc[u] \in ClosePcs => client[u] \in Fds
    BY <1>k DEF Clients, Threads, ClosePcs
  <2>6. ASSUME NEW u \in Threads, pc'[u] \in {"closeMark", "closeFd"}
        PROVE  /\ pc'[u] = pc[u] /\ client'[u] = client[u]
               /\ isClose_'[client[u]] = isClose_[client[u]]
    BY <2>1, <2>2, <2>4, <2>5, <2>6 DEF ClosePcs
  <2>. QED  BY <2>2, <2>6 DEF Marks
<1>4. CASE AddClient_
  <2>1. /\ isClose_' = isClose_ /\ client' = [client EXCEPT ![Main] = NoFd]
        /\ \E label \in {"accept", "dispatch"} : pc' = [pc EXCEPT ![Main] = label]
    BY <1>4 DEF AddClient_, AfterAccept, Leave, Go, connVars
  <2>. QED  BY <1>a, <1>k, <1>t, <2>1
<1>5. ASSUME NEW f \in Fds, ManageStaleItem_(f) \/ DispatchClose(f) PROVE Marks'
  <2>1. /\ isClose_' = isClose_ /\ client' = [client EXCEPT ![Main] = f]
        /\ pc' = [pc EXCEPT ![Main] = "closeRemove"]
    BY <1>5 DEF ManageStaleItem_, DispatchClose, Go, connVars
  <2>. QED  BY <1>a, <1>k, <1>t, <2>1
<1>6. ASSUME NEW f \in Fds, AcceptClient(f) PROVE Marks'
  <2>1. /\ isClose_' = isClose_ /\ client' = [client EXCEPT ![Main] = f]
        /\ pc' = [pc EXCEPT ![Main] = "init"]
    BY <1>6 DEF AcceptClient, Go, connVars
  <2>2. isClose_[f]
    BY <1>6 DEF AcceptClient, FreeFds, DescriptorsTracked
  <2>3. /\ client'[Main] = f /\ pc'[Main] = "init"
        /\ \A u \in Threads \ {Main} : client'[u] = client[u] /\ pc'[u] = pc[u]
    BY <1>k, <1>t, <2>1
  <2>. QED  BY <1>t, <2>1, <2>2, <2>3 DEF Marks
<1>7. ASSUME NEW f \in Fds, DealRead_(f) \/ DealWrite_(f) \/ Expire(f) PROVE Marks'
  <2>1. UNCHANGED <<client, isClose_, pc>>
    BY <1>7 DEF DealRead_, DealWrite_, Expire, connVars, threadVars
  <2>. QED  BY <2>1 DEF Marks
<1>8. ASSUME NEW t \in Threads, CloseConn_(t) PROVE Marks'
  <2>1. UNCHANGED <<client, isClose_>> /\ pc' = [pc EXCEPT ![t] = "closeTest"]
    BY <1>8 DEF CloseConn_, connVars, Go
  <2>. QED  BY <1>a, <2>1
<1>9. ASSUME NEW t \in Threads, Returns(t) \/ CloseFd(t) PROVE Marks'
  <2>1. /\ isClose_' = isClose_ /\ client' = [client EXCEPT ![t] = NoFd]
        /\ \E label \in {"idle", "tick", "dispatch"} : pc' = [pc EXCEPT ![t] = label]
    BY <1>9 DEF Returns, CloseTest, CloseFd, CloseReturn, Leave, Go, connVars, TypeOK, LoopType
  <2>. QED  BY <1>a, <1>k, <2>1
<1>10. ASSUME NEW t \in Threads, CloseMark(t) PROVE Marks'
  <2>1. PICK f \in Fds :
          /\ client[t] = f /\ client' = client /\ pc' = [pc EXCEPT ![t] = "closeFd"]
          /\ isClose_' = [isClose_ EXCEPT ![f] = TRUE]
    BY <1>10, <1>k, <1>t DEF CloseMark, Go, At, Clients, ClosePcs, Threads
  <2>2. pc'[t] = "closeFd" /\ \A u \in Threads \ {t} : pc'[u] = pc[u] /\ client[u] # f
    BY <1>k, <2>1 DEF Exclusive, Single
  <2>3. isClose_'[f] /\ \A g \in Fds \ {f} : isClose_'[g] = isClose_[g]
    BY <1>k, <2>1
  <2>4. \A u \in Threads : pc[u] \in ClosePcs => client[u] \in Fds
    BY <1>k DEF Clients, Threads, ClosePcs
  <2>5. pc[Main] = "init" => client[Main] \in Fds
    BY <1>k, <1>t DEF Clients
  <2>6. \A u \in Threads \ {t} : client[u] \in Fds => isClose_'[client[u]] = isClose_[client[u]]
    BY <2>2, <2>3
  <2>. QED  BY <1>t, <2>1, <2>2, <2>3, <2>4, <2>5, <2>6 DEF Marks, ClosePcs
<1>11. ASSUME NEW w \in Workers, TakeTask(w) PROVE Marks'
  <2>1. Head(tasks).op \in {"read", "writev"}
    <3>1. Head(tasks) \in [op : {"read", "writev"}, fd : Fds]
      BY <1>11, HeadTailProperties DEF TakeTask, TypeOK, ThreadType
    <3>. QED  BY <3>1
  <2>2. /\ isClose_' = isClose_ /\ pc' = [pc EXCEPT ![w] = Head(tasks).op]
        /\ client' = [client EXCEPT ![w] = Head(tasks).fd]
    BY <1>11 DEF TakeTask, connVars, Go
  <2>3. \A u \in Threads \ {w} : client'[u] = client[u]
    BY <1>k, <2>2
  <2>. QED  BY <1>a, <1>t, <2>1, <2>2, <2>3
<1>12. ASSUME NEW w \in Workers, EpollModify(w) PROVE Marks'
  <2>1. /\ isClose_' = isClose_ /\ client' = [client EXCEPT ![w] = NoFd]
        /\ pc' = [pc EXCEPT ![w] = "idle"]
    BY <1>12 DEF EpollModify, Leave, Go, connVars
  <2>. QED  BY <1>a, <1>k, <1>t, <2>1
<1>. QED
  BY <1>1, <1>2, <1>3, <1>4, <1>5, <1>6, <1>7, <1>8, <1>9, <1>10, <1>11, <1>12
  DEF Handing, LoopStep, ClosingStep

\* A socket is opened by accept() and freed by close(fd_); in between isClose_
\* follows with init() and the assignment in Close.
LEMMA TrackedStep ==
  ASSUME TypeOK, Clients, Exclusive, Marks, DescriptorsTracked, Quiet \/ Handing
  PROVE  DescriptorsTracked'
<1>. USE ServerAssumption
<1>t. Main \in Threads /\ Main \notin Workers /\ \A w \in Workers : w \in Threads
  BY DEF Threads
<1>k. /\ client \in [Threads -> Fds \cup {NoFd}] /\ NoFd \notin Fds
      /\ pc \in [Threads -> MainPcs \cup WorkerPcs] /\ isClose_ \in [Fds -> BOOLEAN]
      /\ sock \in [Fds -> {"free", "open", "fin", "rst", "broken"}]
  BY DEF TypeOK, ThreadType, ConnType, KernelType
<1>c. \A t \in Threads : pc[t] \in {"init"} \cup ClosePcs => client[t] \in Fds
  BY <1>k DEF Clients, Threads, ClosePcs, WorkerPcs, TypeOK, ThreadType
\* One thread moves, and neither comes from nor goes to a point that matters.
<1>a. ASSUME isClose_' = isClose_, sock' = sock, NEW t \in Threads, pc[t] \notin {"init", "closeFd"},
             NEW label, label \notin {"init", "closeFd"}, pc' = [pc EXCEPT ![t] = label],
             \A u \in Threads \ {t} : client'[u] = client[u]
      PROVE  DescriptorsTracked'
  <2>1. pc'[t] = label /\ \A u \in Threads \ {t} : pc'[u] = pc[u]
    BY <1>a, <1>k
  <2>. QED  BY <1>a, <2>1 DEF DescriptorsTracked
<1>1. CASE Quiet
  <2>1. UNCHANGED <<client, isClose_>> /\ \A f \in Fds : sock'[f] = "free" <=> sock[f] = "free"
    BY <1>1 DEF Quiet
  <2>2. \A t \in Threads : pc'[t] \in {"init", "closeFd"} <=> pc[t] \in {"init", "closeFd"}
    BY <1>1, <1>t DEF Quiet, Moves, Serving, Fetching, Threads
  <2>3. \A t \in Threads : pc[t] \in {"init", "closeFd"} => pc'[t] = pc[t]
    BY <1>1, <1>t DEF Quiet, Moves, Serving, Fetching, Threads
  <2>. QED  BY <2>1, <2>2, <2>3 DEF DescriptorsTracked
<1>2. CASE EpollWait
  <2>1. /\ UNCHANGED <<client, isClose_, sock>>
        /\ pc[Main] = "wait" /\ pc' = [pc EXCEPT ![Main] = "dispatch"]
    BY <1>2 DEF EpollWait, connVars, sockVars, Go, At
  <2>. QED  BY <1>a, <1>t, <2>1
<1>3. CASE HttpConnInit
  <2>1. PICK f \in Fds :
          /\ client[Main] = f /\ pc[Main] = "init" /\ UNCHANGED <<client, sock>>
          /\ pc' = [pc EXCEPT ![Main] = "add"]
          /\ isClose_' = [isClose_ EXCEPT ![f] = FALSE]
    BY <1>3, <1>k, <1>t, <1>c DEF HttpConnInit, Go, At, kernelVars, sockVars
  <2>2. pc'[Main] = "add" /\ \A u \in Threads \ {Main} : pc'[u] = pc[u]
    BY <1>k, <1>t, <2>1
  <2>3. ~isClose_'[f] /\ \A g \in Fds \ {f} : isClose_'[g] = isClose_[g]
    BY <1>k, <2>1
  <2>4. sock[f] # "free"
    BY <1>t, <2>1 DEF DescriptorsTracked
  <2>. QED  BY <1>t, <2>1, <2>2, <2>3, <2>4 DEF DescriptorsTracked
<1>4. CASE AddClient_
  <2>1. /\ UNCHANGED <<isClose_, sock>> /\ client' = [client EXCEPT ![Main] = NoFd]
        /\ pc[Main] = "add" /\ \E label \in {"accept", "dispatch"} : pc' = [pc EXCEPT ![Main] = label]
    BY <1>4 DEF AddClient_, AfterAccept, Leave, Go, connVars, At, kernelVars, sockVars
  <2>. QED  BY <1>a, <1>k, <1>t, <2>1
<1>5. ASSUME NEW f \in Fds, ManageStaleItem_(f) \/ DispatchClose(f) PROVE DescriptorsTracked'
  <2>1. /\ UNCHANGED <<isClose_, sock>> /\ client' = [client EXCEPT ![Main] = f]
        /\ pc[Main] \in {"tick", "dispatch"} /\ pc' = [pc EXCEPT ![Main] = "closeRemove"]
    BY <1>5 DEF ManageStaleItem_, DispatchClose, Go, connVars, At, kernelVars, sockVars
  <2>. QED  BY <1>a, <1>k, <1>t, <2>1
<1>6. ASSUME NEW f \in Fds, AcceptClient(f) PROVE DescriptorsTracked'
  <2>1. /\ isClose_' = isClose_ /\ client' = [client EXCEPT ![Main] = f]
        /\ pc[Main] = "accept" /\ pc' = [pc EXCEPT ![Main] = "init"]
        /\ sock[f] = "free" /\ sock' = [sock EXCEPT ![f] = "open"]
    BY <1>6 DEF AcceptClient, Go, At, connVars, FreeFds
  <2>2. /\ client'[Main] = f /\ pc'[Main] = "init"
        /\ \A u \in Threads \ {Main} : client'[u] = client[u] /\ pc'[u] = pc[u]
    BY <1>k, <1>t, <2>1
  <2>3. sock'[f] = "open" /\ \A g \in Fds \ {f} : sock'[g] = sock[g]
    BY <1>k, <2>1
  <2>. QED  BY <1>t, <2>1, <2>2, <2>3 DEF DescriptorsTracked
<1>7. ASSUME NEW f \in Fds, DealRead_(f) \/ DealWrite_(f) \/ Expire(f) PROVE DescriptorsTracked'
  <2>1. UNCHANGED <<client, isClose_, pc, sock>>
    BY <1>7 DEF DealRead_, DealWrite_, Expire, connVars, threadVars, kernelVars, sockVars
  <2>. QED  BY <2>1 DEF DescriptorsTracked
<1>8. ASSUME NEW t \in Threads, CloseConn_(t) PROVE DescriptorsTracked'
  <2>1. /\ UNCHANGED <<client, isClose_, sock>>
        /\ pc[t] = "closeRemove" /\ pc' = [pc EXCEPT ![t] = "closeTest"]
    BY <1>8 DEF CloseConn_, connVars, Go, At, kernelVars, sockVars
  <2>. QED  BY <1>a, <2>1
<1>9. ASSUME NEW t \in Threads, Returns(t) PROVE DescriptorsTracked'
  <2>1. /\ UNCHANGED <<isClose_, sock>> /\ client' = [client EXCEPT ![t] = NoFd] /\ pc[t] = "closeTest"
        /\ \E label \in {"idle", "tick", "dispatch"} : pc' = [pc EXCEPT ![t] = label]
    BY <1>9 DEF Returns, CloseTest, CloseReturn, Leave, Go, At, kernelVars, sockVars, TypeOK, LoopType
  <2>. QED  BY <1>a, <1>k, <2>1
<1>10. ASSUME NEW t \in Threads, CloseMark(t) PROVE DescriptorsTracked'
  <2>1. PICK f \in Fds :
          /\ client[t] = f /\ pc[t] = "closeMark" /\ UNCHANGED <<client, sock>>
          /\ pc' = [pc EXCEPT ![t] = "closeFd"]
          /\ isClose_' = [isClose_ EXCEPT ![f] = TRUE]
    BY <1>10, <1>c DEF CloseMark, Go, At, ClosePcs, kernelVars, sockVars
  <2>2. pc'[t] = "closeFd" /\ \A u \in Threads \ {t} : pc'[u] = pc[u]
    BY <1>k, <2>1
  <2>3. \A g \in Fds \ {f} : isClose_'[g] = isClose_[g]
    BY <1>k, <2>1
  <2>4. sock[f] # "free"
    BY <2>1 DEF Marks, DescriptorsTracked
  <2>. QED  BY <2>1, <2>2, <2>3, <2>4 DEF DescriptorsTracked
<1>11. ASSUME NEW t \in Threads, CloseFd(t) PROVE DescriptorsTracked'
  <2>1. PICK f \in Fds :
          /\ client[t] = f /\ pc[t] = "closeFd" /\ client' = [client EXCEPT ![t] = NoFd]
          /\ isClose_' = isClose_ /\ sock' = [sock EXCEPT ![f] = "free"]
          /\ \E label \in {"idle", "tick", "dispatch"} : pc' = [pc EXCEPT ![t] = label]
    BY <1>11, <1>c
    DEF CloseFd, CloseReturn, Leave, Go, At, ClosePcs, connVars, TypeOK, LoopType
  <2>2. /\ client'[t] = NoFd /\ pc'[t] \notin {"init", "closeFd"}
        /\ \A u \in Threads \ {t} : pc'[u] = pc[u] /\ client'[u] = client[u]
    BY <1>k, <2>1
  <2>3. isClose_[f] /\ \A u \in Threads \ {t} : client[u] # f
    BY <2>1 DEF Marks, Exclusive, Single
  <2>4. sock'[f] = "free" /\ \A g \in Fds \ {f} : sock'[g] = sock[g]
    BY <1>k, <2>1
  <2>. QED  BY <1>k, <2>1, <2>2, <2>3, <2>4 DEF DescriptorsTracked
<1>12. ASSUME NEW w \in Workers, TakeTask(w) PROVE DescriptorsTracked'
  <2>1. Head(tasks).op \in {"read", "writev"}
    <3>1. Head(tasks) \in [op : {"read", "writev"}, fd : Fds]
      BY <1>12, HeadTailProperties DEF TakeTask, TypeOK, ThreadType
    <3>. QED  BY <3>1
  <2>2. /\ UNCHANGED <<isClose_, sock>> /\ pc[w] = "idle"
        /\ pc' = [pc EXCEPT ![w] = Head(tasks).op]
        /\ client' = [client EXCEPT ![w] = Head(tasks).fd]
    BY <1>12 DEF TakeTask, connVars, Go, At, kernelVars, sockVars
  <2>3. \A u \in Threads \ {w} : client'[u] = client[u]
    BY <1>k, <2>2
  <2>. QED  BY <1>a, <1>t, <2>1, <2>2, <2>3
<1>13. ASSUME NEW w \in Workers, EpollModify(w) PROVE DescriptorsTracked'
  <2>1. /\ UNCHANGED <<isClose_, sock>> /\ client' = [client EXCEPT ![w] = NoFd]
        /\ pc[w] \in {"rearmIn", "rearmOut"} /\ pc' = [pc EXCEPT ![w] = "idle"]
    BY <1>13 DEF EpollModify, Leave, Go, At, connVars, kernelVars, sockVars
  <2>. QED  BY <1>a, <1>k, <1>t, <2>1
<1>. QED
  BY <1>1, <1>2, <1>3, <1>4, <1>5, <1>6, <1>7, <1>8, <1>9, <1>10, <1>11, <1>12, <1>13
  DEF Handing, LoopStep, ClosingStep

\* Somebody cares for f: Custody without the tokens.
Cared(f) == (\E t \in Threads : client[t] = f) \/ Tasked(f) \/ Fetched(f) \/ Armed(f)

LEMMA CustodyCares ==
  ASSUME NEW f \in Fds
  PROVE  (Custody(f) # {} <=> Cared(f)) /\ (Custody(f)' # {} <=> Cared(f)')
<1>. USE DEF Custody, Cared, Queued, Tasked, Fetched
<1>m. Main \in Threads
  BY DEF Threads
<1>1. Cared(f) => Custody(f) # {}
  <2>1. ASSUME NEW t \in Threads, client[t] = f PROVE <<"thread", t>> \in Custody(f)
    BY <2>1
  <2>2. ASSUME NEW i \in DOMAIN tasks, tasks[i].fd = f PROVE <<"task", i>> \in Custody(f)
    BY <2>2
  <2>3. CASE Fetched(f)
    BY <2>3
  <2>4. CASE Armed(f) /\ client[Main] # f
    BY <2>4
  <2>. QED  BY <1>m, <2>1, <2>2, <2>3, <2>4
<1>2. Custody(f) # {} => Cared(f)
  OBVIOUS
<1>3. Cared(f)' => Custody(f)' # {}
  <2>1. ASSUME NEW t \in Threads, client'[t] = f PROVE <<"thread", t>> \in Custody(f)'
    BY <2>1
  <2>2. ASSUME NEW i \in DOMAIN tasks', tasks'[i].fd = f PROVE <<"task", i>> \in Custody(f)'
    BY <2>2
  <2>3. CASE Fetched(f)'
    BY <2>3
  <2>4. CASE Armed(f)' /\ client'[Main] # f
    BY <2>4
  <2>. QED  BY <1>m, <2>1, <2>2, <2>3, <2>4
<1>4. Custody(f)' # {} => Cared(f)'
  OBVIOUS
<1>. QED  BY <1>1, <1>2, <1>3, <1>4

\* A handler lets go of a connection only when it has armed the interest or when
\* the connection is closed.
LEMMA NoOrphanStep ==
  ASSUME TypeOK, Clients, EventsDone, Held, Marks, NoOrphan, Quiet \/ Handing
  PROVE  NoOrphan'
<1>. USE ServerAssumption
<1>t. Main \in Threads /\ Main \notin Workers /\ \A w \in Workers : w \in Threads
  BY DEF Threads
<1>k. /\ client \in [Threads -> Fds \cup {NoFd}] /\ NoFd \notin Fds
      /\ isClose_ \in [Fds -> BOOLEAN] /\ interest \in [Fds -> {"none", "off", "IN", "OUT"}]
  BY DEF TypeOK, ThreadType, ConnType, KernelType
<1>c. \A t \in Threads : pc[t] \in {"init", "add"} \cup ClosePcs => client[t] \in Fds
  BY <1>k DEF Clients, Threads, ClosePcs, WorkerPcs, TypeOK, ThreadType
<1>o. \A f \in Fds : ~isClose_[f] => Cared(f)
  BY CustodyCares DEF NoOrphan
<1>p. (\A f \in Fds : ~isClose_'[f] => Cared(f)') => NoOrphan'
  BY CustodyCares DEF NoOrphan
\* Whoever cared for a connection, other than the one the step is about, still does.
<1>a. ASSUME NEW f \in Fds, \A g \in Fds \ {f} : isClose_'[g] = isClose_[g],
             ~isClose_'[f] => Cared(f)',
             \A g \in Fds \ {f} : Cared(g) => Cared(g)'
      PROVE  NoOrphan'
  BY <1>a, <1>o, <1>p
<1>b. ASSUME isClose_' = isClose_, \A g \in Fds : Cared(g) => Cared(g)' PROVE NoOrphan'
  BY <1>b, <1>o, <1>p
<1>1. CASE Quiet
  BY <1>1, <1>b DEF Quiet, Cared, Tasked, Fetched, Armed
<1>2. CASE EpollWait
  <2>1. UNCHANGED <<client, tasks, isClose_>> /\ \A f \in Fds : ~Fetched(f)
    BY <1>2 DEF EpollWait, connVars, EventsDone, Fetching, At
  <2>2. \A f \in Fds : Armed(f) => Fetched(f)' \/ Armed(f)'
    BY <1>2, <1>k DEF EpollWait, EventOf, OneShot, Armed, Fetched
  <2>. QED  BY <1>b, <2>1, <2>2 DEF Cared, Tasked
<1>3. CASE HttpConnInit
  <2>1. PICK f \in Fds :
          /\ client[Main] = f /\ UNCHANGED <<client, tasks, event, interest>>
          /\ isClose_' = [isClose_ EXCEPT ![f] = FALSE]
    BY <1>3, <1>t, <1>c DEF HttpConnInit, At, loopVars, batchVars
  <2>. QED  BY <1>a, <1>k, <1>t, <2>1 DEF Cared, Tasked, Fetched, Armed
<1>4. CASE AddClient_
  <2>1. PICK f \in Fds :
          /\ client[Main] = f /\ client' = [client EXCEPT ![Main] = NoFd]
          /\ UNCHANGED <<tasks, event, isClose_>>
          /\ interest' = IF sock[f] # "free" THEN [interest EXCEPT ![f] = "IN"] ELSE interest
    BY <1>4, <1>t, <1>c DEF AddClient_, AfterAccept, Leave, At, batchVars, connVars
  <2>2. sock[f] # "free"
    BY <1>4, <2>1 DEF AddClient_, At, Held
  <2>3. Armed(f)' /\ \A g \in Fds \ {f} : Armed(g) => Armed(g)'
    BY <1>k, <2>1, <2>2 DEF Armed
  <2>4. \A g \in Fds \ {f}, t \in Threads : client[t] = g => client'[t] = g
    BY <1>k, <2>1
  <2>. QED  BY <1>a, <2>1, <2>3, <2>4 DEF Cared, Tasked, Fetched
\* The loop takes f.
<1>5. ASSUME NEW f \in Fds, ManageStaleItem_(f) \/ AcceptClient(f) \/ DispatchClose(f)
      PROVE  NoOrphan'
  <2>1. /\ client' = [client EXCEPT ![Main] = f] /\ client[Main] = NoFd
        /\ UNCHANGED <<tasks, interest, isClose_>>
        /\ \A g \in Fds \ {f} : Fetched(g) => Fetched(g)'
    BY <1>5 DEF ManageStaleItem_, AcceptClient, DispatchClose, Handled, loopVars, batchVars,
                connVars, At, Clients, ClosePcs, Fetched, TypeOK, LoopType
  <2>2. client'[Main] = f /\ \A g \in Fds, t \in Threads : client[t] = g => client'[t] = g
    BY <1>k, <1>t, <2>1
  <2>. QED  BY <1>a, <1>t, <2>1, <2>2 DEF Cared, Tasked, Armed
<1>6. ASSUME NEW f \in Fds, DealRead_(f) \/ DealWrite_(f) PROVE NoOrphan'
  <2>1. /\ UNCHANGED <<client, interest, isClose_>>
        /\ \A g \in Fds \ {f} : Fetched(g) => Fetched(g)'
    BY <1>6 DEF DealRead_, DealWrite_, Handled, connVars, Fetched, TypeOK, LoopType
  <2>2. \A g \in Fds : Tasked(g)' <=> Tasked(g) \/ g = f
    BY <1>6, Enqueues DEF DealRead_, DealWrite_
  <2>. QED  BY <1>a, <2>1, <2>2 DEF Cared, Armed
<1>7. ASSUME NEW f \in Fds, Expire(f) PROVE NoOrphan'
  BY <1>7, <1>b DEF Expire, connVars, batchVars, threadVars, Cared, Tasked, Fetched, Armed
<1>8. ASSUME NEW t \in Threads, CloseConn_(t) PROVE NoOrphan'
  <2>1. PICK f \in Fds :
          /\ client[t] = f /\ UNCHANGED <<client, tasks, event, isClose_>>
          /\ interest' = [interest EXCEPT ![f] = "none"]
    BY <1>8, <1>c DEF CloseConn_, At, ClosePcs, connVars, loopVars, batchVars
  <2>2. \A g \in Fds \ {f} : Armed(g) => Armed(g)'
    BY <1>k, <2>1 DEF Armed
  <2>. QED  BY <1>a, <2>1, <2>2 DEF Cared, Tasked, Fetched
<1>9. ASSUME NEW t \in Threads, CloseMark(t) PROVE NoOrphan'
  <2>1. PICK f \in Fds :
          /\ client[t] = f /\ UNCHANGED <<client, tasks, event, interest>>
          /\ isClose_' = [isClose_ EXCEPT ![f] = TRUE]
    BY <1>9, <1>c DEF CloseMark, At, ClosePcs, loopVars, batchVars
  <2>. QED  BY <1>a, <1>k, <2>1 DEF Cared, Tasked, Fetched, Armed
\* t lets go of f, which is closed.
<1>10. ASSUME NEW t \in Threads, Returns(t) \/ CloseFd(t) PROVE NoOrphan'
  <2>1. PICK f \in Fds :
          /\ client[t] = f /\ client' = [client EXCEPT ![t] = NoFd]
          /\ UNCHANGED <<tasks, event, isClose_>>
          /\ \A g \in Fds \ {f} : interest'[g] = interest[g]
    BY <1>10, <1>c, <1>k
    DEF Returns, CloseTest, CloseFd, CloseReturn, Leave, At, ClosePcs, connVars, batchVars
  <2>2. isClose_[f]
    BY <1>10, <2>1 DEF Returns, MayClose, CloseFd, At, Marks
  <2>3. \A g \in Fds \ {f}, u \in Threads : client[u] = g => client'[u] = g
    BY <1>k, <2>1
  <2>. QED  BY <1>a, <2>1, <2>2, <2>3 DEF Cared, Tasked, Fetched, Armed
<1>11. ASSUME NEW w \in Workers, TakeTask(w) PROVE NoOrphan'
  <2>1. PICK f \in Fds :
          /\ client' = [client EXCEPT ![w] = f]
          /\ \A g \in Fds : Tasked(g) /\ g # f => Tasked(g)'
    BY <1>11, Dequeues
  <2>2. UNCHANGED <<event, interest, isClose_>> /\ client[w] = NoFd
    BY <1>11 DEF TakeTask, At, Clients, loopVars, batchVars, connVars
  <2>3. client'[w] = f /\ \A g \in Fds, u \in Threads : client[u] = g => client'[u] = g
    BY <1>k, <1>t, <2>1, <2>2
  <2>. QED  BY <1>a, <1>t, <2>1, <2>2, <2>3 DEF Cared, Fetched, Armed
<1>12. ASSUME NEW w \in Workers, EpollModify(w) PROVE NoOrphan'
  <2>0. client[w] \in Fds /\ pc[w] \in Serving
    BY <1>12, <1>k, <1>t DEF EpollModify, At, Clients, Serving
  <2>1. PICK f \in Fds :
          /\ client[w] = f /\ client' = [client EXCEPT ![w] = NoFd]
          /\ UNCHANGED <<tasks, event, isClose_>>
          /\ \E ev \in {"IN", "OUT"} : interest' = [interest EXCEPT ![f] = Modified(f, ev)]
    BY <1>12, <2>0 DEF EpollModify, Leave, loopVars, batchVars, connVars
  <2>2. interest[f] = "off"
    BY <2>0, <2>1 DEF Held
  <2>3. Armed(f)' /\ \A g \in Fds \ {f} : Armed(g) => Armed(g)'
    BY <1>k, <2>1, <2>2 DEF Armed, Modified
  <2>4. \A g \in Fds \ {f}, u \in Threads : client[u] = g => client'[u] = g
    BY <1>k, <2>1
  <2>. QED  BY <1>a, <2>1, <2>3, <2>4 DEF Cared, Tasked, Fetched
<1>. QED
  BY <1>1, <1>2, <1>3, <1>4, <1>5, <1>6, <1>7, <1>8, <1>9, <1>10, <1>11, <1>12
  DEF Handing, LoopStep, ClosingStep

\* userCount moves with isClose_, and only by a thread that changes it.
LEMMA CountStep ==
  ASSUME TypeOK, Clients, Marks, UserCountExact, Quiet \/ Handing
  PROVE  UserCountExact'
<1>. USE ServerAssumption
<1>k. /\ isClose_ \in [Fds -> BOOLEAN] /\ userCount \in Int
      /\ client \in [Threads -> Fds \cup {NoFd}]
  BY DEF TypeOK, ThreadType, ConnType
<1>c. \A t \in Threads : pc[t] \in {"init"} \cup ClosePcs => client[t] \in Fds
  BY <1>k DEF Clients, Threads, ClosePcs, WorkerPcs, TypeOK, ThreadType
<1>f. /\ IsFiniteSet({f \in Fds : ~isClose_[f]})
      /\ userCount = Cardinality({f \in Fds : ~isClose_[f]})
  BY FS_Subset DEF UserCountExact
<1>1. ASSUME UNCHANGED <<isClose_, userCount>> PROVE UserCountExact'
  BY <1>1 DEF UserCountExact
<1>2. CASE HttpConnInit
  <2>1. PICK f \in Fds : /\ client[Main] = f /\ isClose_' = [isClose_ EXCEPT ![f] = FALSE]
                         /\ userCount' = userCount + 1
    BY <1>2, <1>c DEF HttpConnInit, At, Threads
  <2>2. isClose_[f]
    BY <1>2, <2>1 DEF HttpConnInit, At, Marks
  <2>3. {g \in Fds : ~isClose_'[g]} = {g \in Fds : ~isClose_[g]} \cup {f}
    BY <1>k, <2>1
  <2>4. Cardinality({g \in Fds : ~isClose_[g]} \cup {f}) = Cardinality({g \in Fds : ~isClose_[g]}) + 1
    BY <1>f, <2>2, FS_AddElement
  <2>. QED  BY <1>f, <2>1, <2>3, <2>4 DEF UserCountExact
<1>3. ASSUME NEW t \in Threads, CloseMark(t) PROVE UserCountExact'
  <2>1. PICK f \in Fds : /\ client[t] = f /\ isClose_' = [isClose_ EXCEPT ![f] = TRUE]
                         /\ userCount' = userCount - 1
    BY <1>3, <1>c DEF CloseMark, At, ClosePcs
  <2>2. ~isClose_[f]
    BY <1>3, <2>1 DEF CloseMark, At, Marks
  <2>3. {g \in Fds : ~isClose_'[g]} = {g \in Fds : ~isClose_[g]} \ {f}
    BY <1>k, <2>1
  <2>4. Cardinality({g \in Fds : ~isClose_[g]} \ {f}) = Cardinality({g \in Fds : ~isClose_[g]}) - 1
    BY <1>f, <2>2, FS_RemoveElement
  <2>. QED  BY <1>f, <2>1, <2>3, <2>4 DEF UserCountExact
<1>4. CASE Quiet \/ EpollWait \/ AddClient_
  BY <1>1, <1>4 DEF Quiet, EpollWait, AddClient_, connVars
<1>5. ASSUME NEW f \in Fds,
             \/ ManageStaleItem_(f) \/ AcceptClient(f) \/ DispatchClose(f)
             \/ DealRead_(f) \/ DealWrite_(f) \/ Expire(f)
      PROVE  UserCountExact'
  BY <1>1, <1>5 DEF ManageStaleItem_, AcceptClient, DispatchClose, DealRead_, DealWrite_,
                    Expire, connVars
<1>6. ASSUME NEW t \in Threads, CloseConn_(t) \/ Returns(t) \/ CloseFd(t) PROVE UserCountExact'
  BY <1>1, <1>6 DEF CloseConn_, Returns, CloseTest, CloseFd, connVars
<1>7. ASSUME NEW w \in Workers, TakeTask(w) \/ EpollModify(w) PROVE UserCountExact'
  BY <1>1, <1>7 DEF TakeTask, EpollModify, connVars
<1>. QED  BY <1>2, <1>3, <1>4, <1>5, <1>6, <1>7 DEF Handing, LoopStep, ClosingStep

\* What Exclusive says of the holders, said of the tokens of Custody.
LEMMA OneHand == Exclusive => OneHandler
<1>. SUFFICES ASSUME Exclusive, NEW f \in Fds, NEW a \in Custody(f), NEW b \in Custody(f)
     PROVE  a = b
  BY DEF OneHandler
<1>1. \A x \in Custody(f) :
        \/ \E t \in Threads : x = <<"thread", t>> /\ client[t] = f
        \/ \E i \in DOMAIN tasks : x = <<"task", i>> /\ tasks[i].fd = f
        \/ x = <<"event", f>> /\ Fetched(f)
        \/ x = <<"armed", f>> /\ Awaited(f)
  BY DEF Custody, Queued, Fetched, Awaited
<1>2. /\ Single(f) /\ Unique(f)
      /\ (\E t \in Threads : client[t] = f) => ~Tasked(f) /\ ~Fetched(f) /\ ~Awaited(f)
      /\ Tasked(f) => ~Fetched(f) /\ ~Awaited(f)
      /\ Fetched(f) => ~Awaited(f)
  BY DEF Exclusive, Threads, Worked, Awaited
<1>3. ASSUME NEW t \in Threads, a = <<"thread", t>>, client[t] = f PROVE a = b
  <2>1. PICK u \in Threads : b = <<"thread", u>> /\ client[u] = f
    BY <1>1, <1>2, <1>3 DEF Tasked
  <2>. QED  BY <1>2, <1>3, <2>1 DEF Single
<1>4. ASSUME NEW i \in DOMAIN tasks, a = <<"task", i>>, tasks[i].fd = f PROVE a = b
  <2>1. PICK j \in DOMAIN tasks : b = <<"task", j>> /\ tasks[j].fd = f
    BY <1>1, <1>2, <1>4 DEF Tasked
  <2>. QED  BY <1>2, <1>4, <2>1 DEF Unique
<1>5. CASE a = <<"event", f>> /\ Fetched(f)
  BY <1>1, <1>2, <1>5 DEF Tasked
<1>6. CASE a = <<"armed", f>> /\ Awaited(f)
  BY <1>1, <1>2, <1>6 DEF Tasked
<1>. QED  BY <1>1, <1>3, <1>4, <1>5, <1>6

LEMMA InvStep == ASSUME Timely, Inv, [Next]_vars PROVE Inv'
<1>1. TypeOK /\ (Quiet \/ Handing)
  BY QuietOrHanding DEF Inv
<1>2. TypeOK'
  BY <1>1, TypeStep
<1>3. Clients' /\ EventsDone' /\ Timers'
  BY <1>1, Clientele, EventsAreDone, TimersAreIdle DEF Inv
<1>4. Exclusive' /\ Held' /\ Marks'
  BY <1>1, ExclusiveStep, HeldStep, MarksStep DEF Inv
<1>5. DescriptorsTracked' /\ NoOrphan' /\ UserCountExact'
  BY <1>1, TrackedStep, NoOrphanStep, CountStep DEF Inv
<1>. QED  BY <1>2, <1>3, <1>4, <1>5 DEF Inv

LEMMA Invariance == Timely => (Spec => []Inv)
<1>. SUFFICES ASSUME Timely PROVE Spec => []Inv
  OBVIOUS
<1>1. Inv /\ [Next]_vars => Inv'
  BY InvStep
<1>. QED  BY InitInv, <1>1, PTL DEF Spec

(***************************************************************************)
(* A response from Process to the end of OnWrite_.                         *)
(***************************************************************************)
WritePcs == {"rearmOut", "writev", "wrote"}

\* The response of f waits for the socket or is being written.
Sending(f) ==
  \/ interest[f] = "OUT" /\ client[Main] # f
  \/ event[f] = "out"
  \/ \E i \in DOMAIN tasks : tasks[i].fd = f /\ tasks[i].op = "writev"
  \/ \E w \in Workers : client[w] = f /\ pc[w] \in WritePcs

\* iov_[0] lies within writeBuff_, and iov_[1], if writev gets it, within a mapped file.
Prepared(f) == iov0[f] <= writeBuff_[f] /\ (iovCnt_[f] = 1 \/ mapped[f])

Responses == \A f \in Fds : Sending(f) => Prepared(f)

\* The event loop changes the hands that hold a connection, never its response.
LEMMA ResponsesLoop ==
  ASSUME Inv, Responses,
         \/ EpollWait \/ AddClient_
         \/ \E f \in Fds : \/ ManageStaleItem_(f) \/ AcceptClient(f) \/ DispatchClose(f)
                           \/ DealRead_(f) \/ DealWrite_(f)
  PROVE  Responses'
<1>. USE ServerAssumption
<1>t. Main \in Threads /\ Main \notin Workers /\ \A w \in Workers : w \in Threads
  BY DEF Threads
<1>k. /\ client \in [Threads -> Fds \cup {NoFd}] /\ NoFd \notin Fds
      /\ pc \in [Threads -> MainPcs \cup WorkerPcs]
      /\ interest \in [Fds -> {"none", "off", "IN", "OUT"}]
      /\ event \in [Fds -> {"none", "close", "in", "out"}]
  BY DEF Inv, TypeOK, ThreadType, KernelType, LoopType
<1>a. ASSUME UNCHANGED writeVars, \A f \in Fds : Sending(f)' => Sending(f) PROVE Responses'
  BY <1>a DEF Responses, Prepared, writeVars
<1>1. CASE EpollWait
  <2>1. /\ UNCHANGED <<writeVars, client, tasks>> /\ client[Main] = NoFd
        /\ \A w \in Workers : pc'[w] = pc[w]
    BY <1>1, <1>k, <1>t DEF EpollWait, connVars, Inv, Clients, At, Go, ClosePcs
  <2>2. \A f \in Fds : /\ interest'[f] = "OUT" => interest[f] = "OUT"
                       /\ event'[f] = "out" => interest[f] = "OUT"
    BY <1>1, <1>k DEF EpollWait, OneShot, EventOf, HasEvent
  <2>3. \A f \in Fds : Sending(f)' => Sending(f)
    BY <1>k, <2>1, <2>2 DEF Sending
  <2>. QED  BY <1>a, <2>1, <2>3
<1>2. CASE AddClient_
  <2>1. PICK f \in Fds :
          /\ client[Main] = f /\ client' = [client EXCEPT ![Main] = NoFd]
          /\ UNCHANGED <<writeVars, tasks, event>>
          /\ interest' = [interest EXCEPT ![f] = "IN"]
          /\ \A w \in Workers : pc'[w] = pc[w]
    BY <1>2, <1>k, <1>t
    DEF AddClient_, AfterAccept, Leave, Go, connVars, batchVars, Inv, Clients, Held, At
  <2>2. \A g \in Fds : /\ interest'[g] = "OUT" => interest[g] = "OUT" /\ g # f
                       /\ \A w \in Workers : client'[w] = client[w]
    BY <1>k, <1>t, <2>1
  <2>3. \A g \in Fds : Sending(g)' => Sending(g)
    BY <2>1, <2>2 DEF Sending
  <2>. QED  BY <1>a, <2>1, <2>3
<1>3. ASSUME NEW f \in Fds, ManageStaleItem_(f) \/ AcceptClient(f) \/ DispatchClose(f)
      PROVE  Responses'
  <2>1. /\ client' = [client EXCEPT ![Main] = f] /\ client[Main] = NoFd
        /\ UNCHANGED <<writeVars, tasks, interest>>
        /\ \A w \in Workers : pc'[w] = pc[w]
    BY <1>3, <1>k, <1>t
    DEF ManageStaleItem_, AcceptClient, DispatchClose, connVars, Inv, Clients, At, Go, ClosePcs
  <2>2. \A g \in Fds : event'[g] = "out" => event[g] = "out"
    BY <1>3, <1>k DEF ManageStaleItem_, AcceptClient, DispatchClose, Handled, batchVars, loopVars
  <2>3. \A w \in Workers : client'[w] = client[w]
    BY <1>k, <1>t, <2>1
  <2>4. \A g \in Fds : Sending(g)' => Sending(g)
    BY <1>k, <2>1, <2>2, <2>3 DEF Sending
  <2>. QED  BY <1>a, <2>1, <2>4
<1>4. ASSUME NEW f \in Fds, NEW op \in {"read", "writev"}, AddTask(op, f), Handled(f),
             UNCHANGED <<writeVars, interest, client, pc>>,
             op = "writev" => event[f] = "out"
      PROVE  Responses'
  <2>1. /\ DOMAIN tasks = 1..Len(tasks) /\ DOMAIN tasks' = 1..(Len(tasks) + 1)
        /\ Len(tasks) \in Nat
        /\ tasks'[Len(tasks) + 1] = [op |-> op, fd |-> f]
        /\ \A i \in 1..Len(tasks) : tasks'[i] = tasks[i]
    BY <1>4 DEF AddTask, Inv, TypeOK, ThreadType
  <2>2. \A g \in Fds : event'[g] = "out" => event[g] = "out"
    BY <1>4, <1>k DEF Handled
  <2>3. ASSUME NEW g \in Fds, NEW i \in DOMAIN tasks', tasks'[i].fd = g, tasks'[i].op = "writev"
        PROVE  Sending(g)
    BY <1>4, <2>1, <2>3 DEF Sending
  <2>4. \A g \in Fds : Sending(g)' => Sending(g)
    BY <1>4, <2>2, <2>3 DEF Sending
  <2>. QED  BY <1>a, <1>4, <2>4
<1>5. ASSUME NEW f \in Fds, DealRead_(f) \/ DealWrite_(f) PROVE Responses'
  BY <1>4, <1>5 DEF DealRead_, DealWrite_, connVars
<1>. QED  BY <1>1, <1>2, <1>3, <1>5

\* Steps that move a thread within its handler.
LEMMA ResponsesKept ==
  ASSUME Inv, Responses, UNCHANGED <<writeVars, interest, event, tasks, client>>,
         \A w \in Workers : pc'[w] \in WritePcs => pc[w] \in WritePcs
  PROVE  Responses'
BY DEF Responses, Sending, Prepared, writeVars

LEMMA ResponsesQuiet ==
  ASSUME Inv, Responses,
         \/ UNCHANGED vars \/ Environment
         \/ StaleItemsDone \/ GetNextTick \/ DispatchListen \/ EndOfEvents
         \/ AcceptFails \/ AcceptBusy
         \/ \E t \in Threads : CloseMark(t)
         \/ \E w \in Workers : \/ OnRead_(w) \/ ProcessNothing(w) \/ WritevEnds(w) \/ Sigpipe(w)
                               \/ \E n \in 1..SizeT : WritevSome(w, n)
  PROVE  Responses'
<1>. USE ServerAssumption
<1>k. pc \in [Threads -> MainPcs \cup WorkerPcs] /\ Main \in Threads /\ Workers \subseteq Threads
  BY DEF Inv, TypeOK, ThreadType, Threads
<1>a. ASSUME UNCHANGED <<writeVars, interest, event, tasks, client>>, pc' = pc PROVE Responses'
  BY <1>a, ResponsesKept
<1>b. ASSUME UNCHANGED <<writeVars, interest, event, tasks, client>>,
             NEW t \in Threads, NEW label, Go(t, label), label \notin WritePcs \/ pc[t] \in WritePcs
      PROVE  Responses'
  <2>1. \A w \in Workers : pc'[w] \in WritePcs => pc[w] \in WritePcs
    BY <1>b, <1>k DEF Go
  <2>. QED  BY <1>b, <2>1, ResponsesKept
<1>1. CASE UNCHANGED vars
  BY <1>1, <1>a DEF vars, connVars, loopVars, batchVars, threadVars
<1>2. CASE Environment
  BY <1>2, <1>a DEF Environment, Connect, PeerSend, PeerClose, PeerDrain, Expire, connVars,
                    loopVars, batchVars, threadVars
<1>3. CASE StaleItemsDone \/ EndOfEvents \/ AcceptFails \/ AcceptBusy
  BY <1>3, <1>b, <1>k DEF StaleItemsDone, EndOfEvents, AcceptFails, AcceptBusy,
                          connVars, loopVars, batchVars, WritePcs
<1>4. CASE GetNextTick \/ DispatchListen
  BY <1>4, <1>b, <1>k DEF GetNextTick, DispatchListen, connVars, batchVars, WritePcs
<1>5. ASSUME NEW t \in Threads, CloseMark(t) PROVE Responses'
  BY <1>5, <1>b DEF CloseMark, loopVars, batchVars, WritePcs
<1>6. ASSUME NEW w \in Workers, OnRead_(w) PROVE Responses'
  BY <1>6, <1>b, <1>k DEF OnRead_, loopVars, batchVars, WritePcs
<1>7. ASSUME NEW w \in Workers, ProcessNothing(w) PROVE Responses'
  BY <1>7, <1>b, <1>k DEF ProcessNothing, loopVars, batchVars, WritePcs
<1>8. ASSUME NEW w \in Workers, WritevEnds(w) PROVE Responses'
  <2>1. /\ UNCHANGED <<writeVars, interest, event, tasks, client>> /\ pc[w] \in WritePcs
        /\ \E label \in {"process", "closeRemove", "rearmOut"} : Go(w, label)
    BY <1>8 DEF WritevEnds, AfterWrite, At, connVars, loopVars, batchVars, WritePcs
  <2>. QED  BY <1>b, <1>k, <2>1
<1>9. ASSUME NEW w \in Workers, NEW n \in 1..SizeT, WritevSome(w, n) PROVE Responses'
  BY <1>9, <1>b, <1>k DEF WritevSome, At, connVars, loopVars, batchVars, WritePcs
<1>10. ASSUME NEW w \in Workers, Sigpipe(w) PROVE Responses'
  BY <1>10, <1>a DEF Sigpipe, connVars, loopVars, batchVars, threadVars
<1>. QED  BY <1>1, <1>2, <1>3, <1>4, <1>5, <1>6, <1>7, <1>8, <1>9, <1>10

\* A thread that has the connection of f: nobody else sends for it.
LEMMA OnlyMine ==
  ASSUME Inv, NEW t \in Threads, NEW f \in Fds, client[t] = f
  PROVE  /\ event[f] # "out" /\ ~Tasked(f)
         /\ \A u \in Threads : u # t => client[u] # f
         /\ t # Main => ~Armed(f)
BY ServerAssumption DEF Inv, Exclusive, Single, Fetched, Worked, Awaited, Threads

\* Close and init() find no response that is still to be sent.
LEMMA ResponsesClose ==
  ASSUME Inv, Responses,
         HttpConnInit \/ \E t \in Threads : CloseConn_(t) \/ CloseTest(t) \/ CloseFd(t)
  PROVE  Responses'
<1>. USE ServerAssumption
<1>k. /\ client \in [Threads -> Fds \cup {NoFd}] /\ NoFd \notin Fds
      /\ pc \in [Threads -> MainPcs \cup WorkerPcs]
      /\ interest \in [Fds -> {"none", "off", "IN", "OUT"}]
      /\ Main \in Threads /\ Main \notin Workers /\ Workers \subseteq Threads
      /\ iov0 \in [Fds -> Nat] /\ writeBuff_ \in [Fds -> Nat] /\ mapped \in [Fds -> BOOLEAN]
  BY DEF Inv, TypeOK, ThreadType, KernelType, ConnType, Threads
\* The step concerns f, which thread t has; nothing is being sent for it afterwards.
<1>a. ASSUME NEW t \in Threads, NEW f \in Fds, client[t] = f,
             client' = client \/ client' = [client EXCEPT ![t] = NoFd],
             \A u \in Threads \ {t} : pc'[u] = pc[u], pc'[t] \notin WritePcs,
             UNCHANGED <<tasks, event, iov0, iovCnt_>>,
             \A g \in Fds \ {f} : /\ interest'[g] = interest[g] /\ mapped'[g] = mapped[g]
                                  /\ writeBuff_'[g] = writeBuff_[g],
             interest'[f] = "OUT" => client'[Main] = f
      PROVE  Responses'
  <2>1. /\ event[f] # "out" /\ ~Tasked(f)
        /\ \A u \in Threads : u # t => client[u] # f
    BY <1>a, OnlyMine
  <2>2. ~Sending(f)'
    BY <1>a, <1>k, <2>1 DEF Sending, Tasked
  <2>3. ASSUME NEW g \in Fds, g # f, Sending(g)' PROVE Sending(g)
    <3>1. \A u \in Threads : client'[u] = g <=> client[u] = g
      BY <1>a, <1>k, <2>3
    <3>2. \A u \in Threads : client[u] = g => pc'[u] = pc[u]
      BY <1>a, <2>3
    <3>. QED  BY <1>a, <1>k, <2>3, <3>1, <3>2 DEF Sending
  <2>. QED  BY <1>a, <2>2, <2>3 DEF Responses, Prepared
<1>1. CASE HttpConnInit
  <2>1. PICK f \in Fds :
          /\ client[Main] = f /\ client' = client /\ pc' = [pc EXCEPT ![Main] = "add"]
          /\ UNCHANGED <<tasks, event, iov0, iovCnt_, interest, mapped>>
          /\ writeBuff_' = [writeBuff_ EXCEPT ![f] = 0]
    BY <1>1, <1>k DEF HttpConnInit, Go, At, Inv, Clients, loopVars, batchVars
  <2>2. \A g \in Fds \ {f} : writeBuff_'[g] = writeBuff_[g]
    BY <1>k, <2>1
  <2>. QED  BY <1>a, <1>k, <2>1, <2>2 DEF WritePcs
<1>2. ASSUME NEW t \in Threads, CloseConn_(t) PROVE Responses'
  <2>1. PICK f \in Fds :
          /\ client[t] = f /\ client' = client /\ pc' = [pc EXCEPT ![t] = "closeTest"]
          /\ UNCHANGED <<tasks, event, iov0, iovCnt_, mapped, writeBuff_>>
          /\ interest' = [interest EXCEPT ![f] = "none"]
    BY <1>2, <1>k DEF CloseConn_, Go, At, Inv, Clients, ClosePcs, Threads, connVars, writeVars,
                      loopVars, batchVars
  <2>2. interest'[f] = "none" /\ \A g \in Fds \ {f} : interest'[g] = interest[g]
    BY <1>k, <2>1
  <2>. QED  BY <1>a, <1>k, <2>1, <2>2 DEF WritePcs
<1>3. ASSUME NEW t \in Threads, CloseTest(t) PROVE Responses'
  <2>1. PICK f \in Fds : client[t] = f
    BY <1>3, <1>k DEF CloseTest, At, Inv, Clients, ClosePcs, Threads
  <2>2. /\ UNCHANGED <<tasks, event, iov0, iovCnt_, interest, writeBuff_>>
        /\ mapped' = [mapped EXCEPT ![f] = FALSE]
    BY <1>3, <2>1 DEF CloseTest, CloseReturn, loopVars, batchVars
  <2>3. \A g \in Fds \ {f} : mapped'[g] = mapped[g]
    BY <1>k, <2>2
  <2>4. CASE ~isClose_[f] /\ client' = client /\ pc' = [pc EXCEPT ![t] = "closeMark"]
    <3>1. interest'[f] = "OUT" => client'[Main] = f
      <4>1. t # Main => ~Armed(f)
        BY <2>1, OnlyMine
      <4>. QED  BY <2>1, <2>2, <2>4, <4>1 DEF Armed
    <3>2. pc'[t] \notin WritePcs /\ \A u \in Threads \ {t} : pc'[u] = pc[u]
      BY <1>k, <2>4 DEF WritePcs
    <3>. QED  BY <1>a, <2>1, <2>2, <2>3, <2>4, <3>1, <3>2
  <2>5. CASE /\ isClose_[f] /\ client' = [client EXCEPT ![t] = NoFd]
             /\ \E label \in {"idle", "tick", "dispatch"} : pc' = [pc EXCEPT ![t] = label]
    <3>1. \A u \in Threads : client[u] = f => pc[u] = "closeTest"
      BY <1>3, <2>1, OnlyMine DEF CloseTest, At
    <3>2. sock[f] = "free"
      BY <2>5, <3>1 DEF Inv, DescriptorsTracked
    <3>3. interest'[f] # "OUT"
      BY <2>2, <3>2 DEF Inv, Held, Armed
    <3>. QED  BY <1>a, <1>k, <2>1, <2>2, <2>3, <2>5, <3>3 DEF WritePcs
  <2>6. back \in {"tick", "dispatch"}
    BY DEF Inv, TypeOK, LoopType
  <2>. QED  BY <1>3, <2>1, <2>4, <2>5, <2>6 DEF CloseTest, MayClose, CloseReturn, Leave, Go
<1>4. ASSUME NEW t \in Threads, CloseFd(t) PROVE Responses'
  <2>1. PICK f \in Fds : client[t] = f
    BY <1>4, <1>k DEF CloseFd, At, Inv, Clients, ClosePcs, Threads
  <2>2. /\ client' = [client EXCEPT ![t] = NoFd]
        /\ \E label \in {"idle", "tick", "dispatch"} : pc' = [pc EXCEPT ![t] = label]
        /\ UNCHANGED <<tasks, event, iov0, iovCnt_, mapped, writeBuff_>>
        /\ interest' = [interest EXCEPT ![f] = "none"]
    BY <1>4, <2>1 DEF CloseFd, CloseReturn, Leave, Go, connVars, writeVars, batchVars, Inv,
                      TypeOK, LoopType
  <2>3. interest'[f] = "none" /\ \A g \in Fds \ {f} : interest'[g] = interest[g]
    BY <1>k, <2>2
  <2>. QED  BY <1>a, <1>k, <2>1, <2>2, <2>3 DEF WritePcs
<1>. QED  BY <1>1, <1>2, <1>3, <1>4

LEMMA ResponsesWorker ==
  ASSUME Inv, Responses, NEW w \in Workers,
         \/ TakeTask(w) \/ EpollModify(w) \/ Wrote(w)
         \/ \E ka, file \in BOOLEAN, left \in 0..MaxSends : Process(w, ka, file, left)
  PROVE  Responses'
<1>. USE ServerAssumption
<1>k. /\ client \in [Threads -> Fds \cup {NoFd}] /\ NoFd \notin Fds
      /\ pc \in [Threads -> MainPcs \cup WorkerPcs]
      /\ interest \in [Fds -> {"none", "off", "IN", "OUT"}]
      /\ w \in Threads /\ w # Main
      /\ iov0 \in [Fds -> Nat] /\ writeBuff_ \in [Fds -> Nat] /\ mapped \in [Fds -> BOOLEAN]
      /\ iov1 \in [Fds -> 0..(SizeT - 1)] /\ iovCnt_ \in [Fds -> {1, 2}]
      /\ sent \in [Workers -> Nat]
  BY DEF Inv, TypeOK, ThreadType, KernelType, ConnType, Threads
<1>1. CASE TakeTask(w)
  <2>1. PICK f \in Fds :
          /\ tasks[1].fd = f /\ client' = [client EXCEPT ![w] = f]
          /\ pc' = [pc EXCEPT ![w] = tasks[1].op] /\ tasks[1].op \in {"read", "writev"}
    <3>1. Head(tasks) \in [op : {"read", "writev"}, fd : Fds]
      BY <1>1, HeadTailProperties DEF TakeTask, Inv, TypeOK, ThreadType
    <3>2. Head(tasks) = tasks[1]
      BY <1>1 DEF TakeTask, Inv, TypeOK, ThreadType
    <3>3. tasks[1].fd \in Fds /\ tasks[1].op \in {"read", "writev"}
      BY <3>1, <3>2
    <3>. QED  BY <1>1, <3>2, <3>3 DEF TakeTask, Go
  <2>2. /\ DOMAIN tasks = 1..Len(tasks) /\ 1 \in DOMAIN tasks /\ Len(tasks) \in Nat
        /\ DOMAIN tasks' = 1..(Len(tasks) - 1)
        /\ \A i \in 1..(Len(tasks) - 1) : tasks'[i] = tasks[i + 1]
    BY <1>1, HeadTailProperties DEF TakeTask, Inv, TypeOK, ThreadType
  <2>3. UNCHANGED <<writeVars, interest, event>>
    BY <1>1 DEF TakeTask, connVars, loopVars, batchVars
  <2>4. ASSUME NEW g \in Fds, NEW i \in DOMAIN tasks', tasks'[i].fd = g, tasks'[i].op = "writev"
        PROVE  Sending(g)
    <3>1. i + 1 \in DOMAIN tasks /\ tasks[i + 1] = tasks'[i]
      BY <2>2, <2>4
    <3>. QED  BY <2>4, <3>1 DEF Sending
  <2>5. ASSUME NEW g \in Fds, NEW u \in Workers, client'[u] = g, pc'[u] \in WritePcs
        PROVE  Sending(g)
    <3>1. CASE u = w
      <4>1. g = f /\ tasks[1].op = "writev"
        BY <1>k, <2>1, <2>5, <3>1 DEF WritePcs
      <4>. QED  BY <2>1, <2>2, <4>1 DEF Sending
    <3>2. CASE u # w
      BY <1>k, <2>1, <2>5, <3>2 DEF Sending, Threads
    <3>. QED  BY <3>1, <3>2
  <2>6. Main \in Threads /\ client'[Main] = client[Main]
    BY <1>k, <2>1 DEF Threads
  <2>7. \A g \in Fds : Sending(g)' => Sending(g)
    BY <2>3, <2>4, <2>5, <2>6 DEF Sending
  <2>. QED  BY <2>3, <2>7 DEF Responses, Prepared, writeVars
<1>2. CASE EpollModify(w)
  <2>1. PICK f \in Fds : client[w] = f
    BY <1>2, <1>k DEF EpollModify, At, Inv, Clients
  <2>2. /\ client' = [client EXCEPT ![w] = NoFd] /\ pc' = [pc EXCEPT ![w] = "idle"]
        /\ UNCHANGED <<writeVars, event, tasks>>
        /\ \A g \in Fds : interest'[g] = "OUT" => interest[g] = "OUT" \/ (g = f /\ pc[w] = "rearmOut")
    BY <1>2, <1>k, <2>1 DEF EpollModify, Modified, Leave, Go, At, connVars, loopVars, batchVars
  <2>3. Main \in Threads /\ client'[Main] = client[Main]
    BY <1>k, <2>2 DEF Threads
  <2>4. ASSUME NEW g \in Fds, interest'[g] = "OUT", client'[Main] # g PROVE Sending(g)
    BY <2>1, <2>2, <2>3, <2>4 DEF Sending, WritePcs
  <2>5. ASSUME NEW g \in Fds, NEW u \in Workers, client'[u] = g, pc'[u] \in WritePcs
        PROVE  Sending(g)
    <3>1. u # w
      BY <1>k, <2>2, <2>5
    <3>. QED  BY <1>k, <2>2, <2>5, <3>1 DEF Sending, Threads
  <2>6. \A g \in Fds : Sending(g)' => Sending(g)
    BY <2>2, <2>4, <2>5 DEF Sending
  <2>. QED  BY <2>2, <2>6 DEF Responses, Prepared, writeVars
\* The response of f alone changes, and w is the only one to have f.
<1>a. ASSUME NEW f \in Fds, client[w] = f,
             UNCHANGED <<interest, event, tasks, client>>,
             \A u \in Threads \ {w} : pc'[u] = pc[u],
             \A g \in Fds \ {f} : /\ iov0'[g] = iov0[g] /\ writeBuff_'[g] = writeBuff_[g]
                                  /\ iovCnt_'[g] = iovCnt_[g] /\ mapped'[g] = mapped[g],
             Prepared(f)'
      PROVE  Responses'
  <2>1. ASSUME NEW g \in Fds, g # f, Sending(g)' PROVE Prepared(g)'
    <3>1. \A u \in Workers : client'[u] = g => pc'[u] = pc[u] /\ client[u] = g
      BY <1>a, <2>1 DEF Threads
    <3>2. Sending(g)
      BY <1>a, <2>1, <3>1 DEF Sending
    <3>. QED  BY <1>a, <2>1, <3>2 DEF Responses, Prepared
  <2>. QED  BY <1>a, <2>1 DEF Responses
<1>3. ASSUME NEW ka \in BOOLEAN, NEW file \in BOOLEAN, NEW left \in 0..MaxSends,
             Process(w, ka, file, left)
      PROVE  Responses'
  <2>1. PICK f \in Fds : client[w] = f
    BY <1>3, <1>k DEF Process, At, Inv, Clients
  <2>2. /\ iov0' = [iov0 EXCEPT ![f] = writeBuff_[f] + HeaderUnits]
        /\ writeBuff_' = [writeBuff_ EXCEPT ![f] = writeBuff_[f] + HeaderUnits]
        /\ iovCnt_' = [iovCnt_ EXCEPT ![f] = IF file THEN 2 ELSE 1]
        /\ mapped' = [mapped EXCEPT ![f] = file]
        /\ pc' = [pc EXCEPT ![w] = "rearmOut"]
        /\ UNCHANGED <<interest, event, tasks, client>>
    BY <1>3, <2>1 DEF Process, IovCnt, Go, loopVars, batchVars
  <2>3. writeBuff_[f] + HeaderUnits \in Nat
    BY <1>k
  <2>4. iov0'[f] <= writeBuff_'[f]
    BY <1>k, <2>2, <2>3
  <2>5. iovCnt_'[f] = 1 \/ mapped'[f]
    <3>1. mapped'[f] = file /\ iovCnt_'[f] = IF file THEN 2 ELSE 1
      BY <1>k, <2>2
    <3>. QED  BY <3>1
  <2>6. \A g \in Fds \ {f} : /\ iov0'[g] = iov0[g] /\ writeBuff_'[g] = writeBuff_[g]
                             /\ iovCnt_'[g] = iovCnt_[g] /\ mapped'[g] = mapped[g]
    BY <1>k, <2>2
  <2>7. \A u \in Threads \ {w} : pc'[u] = pc[u]
    BY <1>k, <2>2
  <2>. QED  BY <1>a, <2>1, <2>2, <2>4, <2>5, <2>6, <2>7 DEF Prepared
\* write() takes the same length off iov_[0] and off writeBuff_.
<1>4. CASE Wrote(w)
  <2>1. PICK f \in Fds : client[w] = f
    BY <1>4, <1>k DEF Wrote, At, Inv, Clients
  <2>2. Prepared(f)
    BY <1>4, <2>1 DEF Wrote, At, Responses, Sending, WritePcs
  <2>3. /\ Moved(w, f) \in Nat /\ iov0[f] \in Nat /\ writeBuff_[f] \in Nat
        /\ iov0[f] <= writeBuff_[f]
    BY <1>k, <2>2 DEF Moved, Prepared
  <2>4. RetrieveOK(w, f) /\ Iov0Left(w, f) \in Nat /\ WriteBuffLeft(w, f) \in Nat
        /\ Iov0Left(w, f) <= WriteBuffLeft(w, f)
    BY <2>3 DEF RetrieveOK, Iov0Left, WriteBuffLeft
  <2>5. /\ iov0' = [iov0 EXCEPT ![f] = Iov0Left(w, f)]
        /\ writeBuff_' = [writeBuff_ EXCEPT ![f] = WriteBuffLeft(w, f)]
        /\ UNCHANGED <<iovCnt_, mapped, interest, event, tasks, client>>
        /\ \E label \in {"writev", "process", "closeRemove"} : pc' = [pc EXCEPT ![w] = label]
    BY <1>4, <2>1, <2>4 DEF Wrote, Go, loopVars, batchVars
  <2>6. Prepared(f)'
    <3>1. iov0'[f] = Iov0Left(w, f) /\ writeBuff_'[f] = WriteBuffLeft(w, f)
      BY <1>k, <2>5
    <3>. QED  BY <2>2, <2>4, <2>5, <3>1 DEF Prepared
  <2>7. \A g \in Fds \ {f} : /\ iov0'[g] = iov0[g] /\ writeBuff_'[g] = writeBuff_[g]
                             /\ iovCnt_'[g] = iovCnt_[g] /\ mapped'[g] = mapped[g]
    BY <1>k, <2>5
  <2>8. \A u \in Threads \ {w} : pc'[u] = pc[u]
    BY <1>k, <2>5
  <2>. QED  BY <1>a, <2>1, <2>5, <2>6, <2>7, <2>8
<1>. QED  BY <1>1, <1>2, <1>3, <1>4

LEMMA ResponsesStep == ASSUME Inv, Responses, [Next]_vars PROVE Responses'
BY ResponsesLoop, ResponsesQuiet, ResponsesClose, ResponsesWorker
DEF Next, MainStep, WorkerStep, OnWrite_, Close, Threads

LEMMA ResponsesAlways == Timely => (Spec => []Responses)
<1>. SUFFICES ASSUME Timely PROVE Spec => []Responses
  OBVIOUS
<1>1. Init => Responses
  BY ServerAssumption DEF Init, Responses, Sending, Threads
<1>2. Inv /\ Responses /\ [Next]_vars => Responses'
  BY ResponsesStep
<1>3. Spec => []Inv
  BY Invariance
<1>. QED  BY <1>1, <1>2, <1>3, PTL DEF Spec

(***************************************************************************)
(* The timer.                                                              *)
(***************************************************************************)
LEMMA TimerStep == ASSUME Inv, TimerCovers, [Next]_vars PROVE TimerCovers'
<1>. USE ServerAssumption
<1>k. /\ client \in [Threads -> Fds \cup {NoFd}] /\ NoFd \notin Fds
      /\ pc \in [Threads -> MainPcs \cup WorkerPcs]
      /\ isClose_ \in [Fds -> BOOLEAN]
      /\ timer \in [Fds -> {"none", "fresh", "stale"}]
      /\ Main \in Threads /\ Main \notin Workers /\ Workers \subseteq Threads
  BY DEF Inv, TypeOK, ThreadType, LoopType, ConnType, Threads
<1>n. timeoutOn' = timeoutOn
  BY DEF Next, MainStep, WorkerStep, Environment, vars
\* No entry goes away, nothing is opened and the loop does not register a connection.
<1>a. ASSUME \A f \in Fds : /\ timer[f] # "none" => timer'[f] # "none"
                            /\ isClose_[f] => isClose_'[f],
             pc[Main] = "add" => pc'[Main] = "add" /\ client'[Main] = client[Main]
      PROVE  TimerCovers'
  BY <1>a, <1>n DEF TimerCovers, At
<1>b. ASSUME UNCHANGED <<timer, isClose_>>,
             pc[Main] = "add" => pc'[Main] = "add" /\ client'[Main] = client[Main]
      PROVE  TimerCovers'
  BY <1>a, <1>b
<1>1. CASE UNCHANGED vars
  BY <1>1, <1>b DEF vars, connVars, loopVars, threadVars
<1>2. CASE Connect \/ \E f \in Fds : PeerSend(f) \/ PeerClose(f) \/ PeerDrain(f)
  BY <1>2, <1>b DEF Connect, PeerSend, PeerClose, PeerDrain, connVars, loopVars, threadVars
<1>3. ASSUME NEW f \in Fds, Expire(f) PROVE TimerCovers'
  BY <1>3, <1>a, <1>k DEF Expire, connVars, threadVars
<1>4. CASE StaleItemsDone \/ GetNextTick \/ EpollWait \/ DispatchListen \/ EndOfEvents
  BY <1>4, <1>b, <1>k DEF StaleItemsDone, GetNextTick, EpollWait, DispatchListen, EndOfEvents,
                          At, Go, connVars, loopVars
<1>5. CASE AcceptFails \/ AcceptBusy
  BY <1>5, <1>b, <1>k DEF AcceptFails, AcceptBusy, At, Go, connVars, loopVars
<1>6. ASSUME NEW f \in Fds, ManageStaleItem_(f) \/ AcceptClient(f) \/ DispatchClose(f)
      PROVE  TimerCovers'
  BY <1>6, <1>b, <1>k DEF ManageStaleItem_, AcceptClient, DispatchClose, At, Go,
                          connVars, loopVars
<1>7. ASSUME NEW f \in Fds, DealRead_(f) \/ DealWrite_(f) PROVE TimerCovers'
  BY <1>7, <1>a, <1>k DEF DealRead_, DealWrite_, ExtentTime_, connVars
\* init() opens the HttpConn of the connection that the loop registers next.
<1>8. CASE HttpConnInit
  <2>1. PICK f \in Fds :
          /\ client[Main] = f /\ client' = client /\ pc'[Main] = "add"
          /\ timer' = timer /\ isClose_' = [isClose_ EXCEPT ![f] = FALSE]
          /\ pc[Main] = "init"
    BY <1>8, <1>k DEF HttpConnInit, Go, At, Inv, Clients, loopVars
  <2>2. \A g \in Fds \ {f} : isClose_'[g] = isClose_[g]
    BY <1>k, <2>1
  <2>. QED  BY <1>n, <2>1, <2>2 DEF TimerCovers, At
<1>9. CASE AddClient_
  <2>1. PICK f \in Fds :
          /\ client[Main] = f /\ isClose_' = isClose_
          /\ timer' = IF timeoutOn THEN [timer EXCEPT ![f] = "fresh"] ELSE timer
    BY <1>9, <1>k DEF AddClient_, AddItem, At, Inv, Clients, connVars
  <2>2. timeoutOn => timer'[f] = "fresh" /\ \A g \in Fds \ {f} : timer'[g] = timer[g]
    BY <1>k, <2>1
  <2>. QED  BY <1>n, <2>1, <2>2 DEF TimerCovers, At
<1>10. ASSUME NEW t \in Threads, CloseConn_(t) PROVE TimerCovers'
  BY <1>10, <1>b, <1>k DEF CloseConn_, At, Go, connVars, loopVars
<1>11. ASSUME NEW t \in Threads, CloseMark(t) PROVE TimerCovers'
  BY <1>11, <1>a, <1>k DEF CloseMark, At, Go, loopVars
\* The callback of a stale entry returns with the connection closed.
<1>12. ASSUME NEW t \in Threads, CloseReturn(t), pc[t] \in ClosePcs, client[t] \in Fds,
              isClose_[client[t]], isClose_' = isClose_
       PROVE  TimerCovers'
  <2>1. pc[Main] = "add" => t # Main
    BY <1>12 DEF ClosePcs
  <2>2. pc[Main] = "add" => pc'[Main] = "add" /\ client'[Main] = client[Main]
    BY <1>12, <1>k, <2>1 DEF CloseReturn, Leave, Go
  <2>3. \A g \in Fds : g # client[t] => timer'[g] = timer[g]
    BY <1>12, <1>k DEF CloseReturn
  <2>. QED  BY <1>12, <1>n, <2>2, <2>3 DEF TimerCovers, At
<1>13. ASSUME NEW t \in Threads, CloseTest(t) PROVE TimerCovers'
  <2>1. client[t] \in Fds /\ pc[t] = "closeTest" /\ isClose_' = isClose_
    BY <1>13, <1>k DEF CloseTest, At, Inv, Clients, ClosePcs, Threads
  <2>2. CASE Go(t, "closeMark") /\ UNCHANGED <<loopVars, client>>
    BY <1>b, <1>k, <2>1, <2>2 DEF Go, loopVars
  <2>3. CASE ~MayClose(client[t]) /\ CloseReturn(t)
    BY <1>12, <2>1, <2>3 DEF MayClose, ClosePcs
  <2>. QED  BY <1>13, <2>2, <2>3 DEF CloseTest
<1>14. ASSUME NEW t \in Threads, CloseFd(t) PROVE TimerCovers'
  <2>1. client[t] \in Fds /\ pc[t] = "closeFd" /\ isClose_' = isClose_
    BY <1>14, <1>k DEF CloseFd, At, Inv, Clients, ClosePcs, Threads, connVars
  <2>2. isClose_[client[t]]
    BY <2>1 DEF Inv, Marks
  <2>. QED  BY <1>12, <1>14, <2>1, <2>2 DEF CloseFd, ClosePcs
<1>15. ASSUME NEW w \in Workers, TakeTask(w) \/ EpollModify(w) PROVE TimerCovers'
  BY <1>15, <1>b, <1>k DEF TakeTask, EpollModify, Leave, At, Go, connVars, loopVars
<1>16. ASSUME NEW w \in Workers, OnRead_(w) \/ ProcessNothing(w) \/ OnWrite_(w) PROVE TimerCovers'
  BY <1>16, <1>b, <1>k DEF OnRead_, ProcessNothing, OnWrite_, WritevSome, WritevEnds, AfterWrite,
                           Sigpipe, Wrote, At, Go, connVars, loopVars, threadVars
<1>17. ASSUME NEW w \in Workers, NEW ka \in BOOLEAN, NEW file \in BOOLEAN,
              NEW left \in 0..MaxSends, Process(w, ka, file, left)
       PROVE  TimerCovers'
  BY <1>17, <1>b, <1>k DEF Process, At, Go, loopVars
<1>. QED
  BY <1>1, <1>2, <1>3, <1>4, <1>5, <1>6, <1>7, <1>8, <1>9, <1>10, <1>11, <1>13, <1>14,
     <1>15, <1>16, <1>17
  DEF Next, MainStep, WorkerStep, Environment, Close, Threads

(***************************************************************************)
(* The end of a response.                                                  *)
(***************************************************************************)

\* A worker that is writing leaves its loop only in OnWrite_.
LEMMA LeavesInOnWrite ==
  ASSUME TypeOK, [Next]_vars, NEW w \in Workers,
         pc[w] \in {"writev", "wrote"}, pc'[w] = "closeRemove"
  PROVE  WritevEnds(w) \/ Wrote(w)
<1>. USE ServerAssumption DEF At, Go, Leave
<1>k. pc \in [Threads -> MainPcs \cup WorkerPcs] /\ w \in Threads /\ w # Main
  BY DEF TypeOK, ThreadType, Threads
<1>1. ~(UNCHANGED vars) /\ ~Environment
  BY DEF vars, threadVars, Environment, Connect, PeerSend, PeerClose, PeerDrain, Expire
<1>2. ~MainStep
  <2>1. ~(StaleItemsDone \/ GetNextTick \/ EpollWait \/ DispatchListen \/ EndOfEvents)
    BY <1>k DEF StaleItemsDone, GetNextTick, EpollWait, DispatchListen, EndOfEvents
  <2>2. ~(AcceptFails \/ AcceptBusy \/ HttpConnInit \/ AddClient_)
    BY <1>k DEF AcceptFails, AcceptBusy, HttpConnInit, AddClient_
  <2>3. ~\E f \in Fds : \/ ManageStaleItem_(f) \/ AcceptClient(f)
                        \/ DispatchClose(f) \/ DealRead_(f) \/ DealWrite_(f)
    BY <1>k DEF ManageStaleItem_, AcceptClient, DispatchClose, DealRead_, DealWrite_
  <2>4. ~Close(Main)
    BY <1>k DEF Close, CloseConn_, CloseTest, CloseMark, CloseFd, CloseReturn
  <2>. QED  BY <2>1, <2>2, <2>3, <2>4 DEF MainStep
<1>3. ASSUME NEW u \in Workers, WorkerStep(u), u # w PROVE FALSE
  <2>1. u \in Threads
    BY DEF Threads
  <2>2. ~(TakeTask(u) \/ OnRead_(u) \/ ProcessNothing(u) \/ EpollModify(u))
    BY <1>3, <1>k, <2>1 DEF TakeTask, OnRead_, ProcessNothing, EpollModify
  <2>3. ~\E ka, file \in BOOLEAN, left \in 0..MaxSends : Process(u, ka, file, left)
    BY <1>3, <1>k, <2>1 DEF Process
  <2>4. ~OnWrite_(u)
    BY <1>3, <1>k, <2>1 DEF OnWrite_, WritevSome, WritevEnds, AfterWrite, Sigpipe, Wrote, threadVars
  <2>5. ~Close(u)
    BY <1>3, <1>k, <2>1 DEF Close, CloseConn_, CloseTest, CloseMark, CloseFd, CloseReturn
  <2>. QED  BY <1>3, <2>2, <2>3, <2>4, <2>5 DEF WorkerStep
<1>4. ASSUME WorkerStep(w) PROVE WritevEnds(w) \/ Wrote(w)
  <2>1. ~(TakeTask(w) \/ OnRead_(w) \/ ProcessNothing(w) \/ EpollModify(w))
    BY DEF TakeTask, OnRead_, ProcessNothing, EpollModify
  <2>2. ~\E ka, file \in BOOLEAN, left \in 0..MaxSends : Process(w, ka, file, left)
    BY DEF Process
  <2>3. ~Close(w)
    BY DEF Close, CloseConn_, CloseTest, CloseMark, CloseFd
  <2>4. ~(Sigpipe(w) \/ \E n \in 1..SizeT : WritevSome(w, n))
    BY <1>k DEF Sigpipe, WritevSome, threadVars
  <2>. QED  BY <1>4, <2>1, <2>2, <2>3, <2>4 DEF WorkerStep, OnWrite_
<1>. QED  BY <1>1, <1>2, <1>3, <1>4 DEF Next

\* What OnWrite_ and write() decide, and from which lengths.
LEMMA GivesUp ==
  ASSUME TypeOK, Clients, [Next]_vars, NEW w \in Workers,
         pc[w] \in {"writev", "wrote"}, pc'[w] = "closeRemove", sock[client[w]] = "open"
  PROVE  /\ client[w] \in Fds
         /\ UNCHANGED iovCnt_
         /\ \/ UNCHANGED <<iov0, iov1>> /\ Dangling(client[w]) /\ pc[w] = "writev"
            \/ UNCHANGED <<iov0, iov1>> /\ Unsent(client[w]) = 0
               /\ (ToWriteBytes(client[w]) = 0 => ~keepAlive[client[w]])
            \/ /\ iov0'[client[w]] = Iov0Left(w, client[w])
               /\ iov1'[client[w]] = Iov1Left(w, client[w])
               /\ ~(ToWriteBytes(client[w]) > 0 /\ ConnET)
               /\ Iov0Left(w, client[w]) + Iov1Left(w, client[w]) = 0 => ~keepAlive[client[w]]
<1>. USE ServerAssumption
<1>k. /\ pc \in [Threads -> MainPcs \cup WorkerPcs] /\ w \in Threads /\ w # Main
      /\ client \in [Threads -> Fds \cup {NoFd}]
      /\ iov0 \in [Fds -> Nat] /\ iov1 \in [Fds -> 0..(SizeT - 1)]
  BY DEF TypeOK, ThreadType, ConnType, Threads
<1>1. PICK f \in Fds : client[w] = f
  BY <1>k DEF Clients
<1>2. iov0[f] \in Nat /\ iov1[f] \in Nat
  BY <1>k
<1>3. CASE WritevEnds(w)
  <2>1. UNCHANGED <<iov0, iov1, iovCnt_>> /\ pc[w] = "writev"
    BY <1>3 DEF WritevEnds, At, connVars, writeVars
  <2>2. CASE Dangling(f)
    BY <1>1, <2>1, <2>2
  <2>3. CASE Unsent(f) = 0 /\ AfterWrite(w, f, FALSE)
    <3>1. ToWriteBytes(f) = 0 => ~keepAlive[f]
      BY <1>k, <2>3 DEF AfterWrite, Go
    <3>. QED  BY <1>1, <2>1, <2>3, <3>1
  <2>4. ~(Unsent(f) > 0 /\ AfterWrite(w, f, TRUE))
    <3>1. Unsent(f) > 0 => ToWriteBytes(f) # 0
      BY <1>2 DEF Unsent, ToWriteBytes
    <3>. QED  BY <1>k, <3>1 DEF AfterWrite, Go
  <2>. QED  BY <1>1, <1>3, <2>2, <2>3, <2>4 DEF WritevEnds
<1>4. CASE Wrote(w)
  <2>1. /\ UNCHANGED iovCnt_
        /\ iov0'[f] = Iov0Left(w, f) /\ iov1'[f] = Iov1Left(w, f)
    BY <1>1, <1>4, <1>k DEF Wrote
  <2>2. /\ ~(ToWriteBytes(f) > 0 /\ ConnET)
        /\ Iov0Left(w, f) + Iov1Left(w, f) = 0 => ~keepAlive[f]
    BY <1>1, <1>4, <1>k DEF Wrote, Go
  <2>. QED  BY <1>1, <2>1, <2>2
<1>. QED  BY <1>3, <1>4, LeavesInOnWrite

(***************************************************************************)
(* The theorems.                                                           *)
(***************************************************************************)

\* EPOLLONESHOT, the order of the steps in OnRead_, OnProcess and OnWrite_, and
\* Timely keep every HttpConn in at most one pair of hands: a running handler, a
\* queued task, a fetched event or an armed interest.
THEOREM OneHandlerCorrect == Timely => (Spec => []OneHandler)
<1>1. Inv => OneHandler
  BY OneHand DEF Inv
<1>. QED  BY Invariance, <1>1, PTL

\* No path through the handlers drops a connection: while it is not closed somebody
\* is due to handle it.
THEOREM NoOrphanCorrect == Timely => (Spec => []NoOrphan)
<1>1. Inv => NoOrphan
  BY DEF Inv
<1>. QED  BY Invariance, <1>1, PTL

\* init() and Close() count every connection once: the limit of DealListen_ compares
\* with the true number of connections.
THEOREM UserCountCorrect == Timely => (Spec => []UserCountExact)
<1>1. Inv => UserCountExact
  BY DEF Inv
<1>. QED  BY Invariance, <1>1, PTL

\* No descriptor leaks, and none is given back while its HttpConn is open.
THEOREM DescriptorsCorrect == Timely => (Spec => []DescriptorsTracked)
<1>1. Inv => DescriptorsTracked
  BY DEF Inv
<1>. QED  BY Invariance, <1>1, PTL

\* With a timeout no registered connection is without an entry in the heap.
THEOREM TimerCoversCorrect == Timely => (Spec => []TimerCovers)
<1>. SUFFICES ASSUME Timely PROVE Spec => []TimerCovers
  OBVIOUS
<1>1. Init => TimerCovers
  BY DEF Init, TimerCovers
<1>2. Inv /\ TimerCovers /\ [Next]_vars => TimerCovers'
  BY TimerStep
<1>3. Spec => []Inv
  BY Invariance
<1>. QED  BY <1>1, <1>2, <1>3, PTL DEF Spec

\* writev never gets a part of a file that is unmapped: a response stays in the hands
\* of one worker, or of nobody, from Process to its last unit.
THEOREM FilesStayMapped == Timely => (Spec => []NoDanglingFile)
<1>1. Inv /\ Responses => NoDanglingFile
  <2>1. ASSUME Inv, Responses, NEW w \in Workers, At(w, "writev") PROVE ~Dangling(client[w])
    <3>1. PICK f \in Fds : client[w] = f
      BY <2>1, ServerAssumption DEF Inv, TypeOK, ThreadType, Threads, Clients, At
    <3>. QED  BY <2>1, <3>1 DEF Responses, Sending, Prepared, Dangling, At, WritePcs
  <2>. QED  BY <2>1 DEF NoDanglingFile
<1>. QED  BY Invariance, ResponsesAlways, <1>1, PTL

\* The assertion of StringBuffer::Retrieve holds in HttpConn::write, whatever writev
\* returns: iov_[0] is never longer than what writeBuff_ holds.
THEOREM RetrievesInRange == Timely => (Spec => []RetrieveInRange)
<1>1. Inv /\ Responses => RetrieveInRange
  <2>1. ASSUME Inv, Responses, NEW w \in Workers, At(w, "wrote")
        PROVE  RetrieveOK(w, client[w])
    <3>1. PICK f \in Fds : client[w] = f
      BY <2>1, ServerAssumption DEF Inv, TypeOK, ThreadType, Threads, Clients, At
    <3>2. iov0[f] <= writeBuff_[f]
      BY <2>1, <3>1 DEF Responses, Sending, Prepared, At, WritePcs
    <3>3. Moved(w, f) \in Nat /\ iov0[f] \in Nat /\ writeBuff_[f] \in Nat
      BY <2>1 DEF Moved, Inv, TypeOK, ThreadType, ConnType
    <3>. QED  BY <3>1, <3>2, <3>3 DEF RetrieveOK
  <2>. QED  BY <2>1 DEF RetrieveInRange
<1>. QED  BY Invariance, ResponsesAlways, <1>1, PTL

\* With edge-triggered connections a response is sent to its last unit unless the peer
\* goes away first.
THEOREM ResponsesComplete == Timely /\ ConnET => (Spec => CompleteResponse)
<1>. SUFFICES ASSUME Timely, ConnET PROVE Spec => CompleteResponse
  OBVIOUS
<1>. DEFINE Whole == \A w \in Workers :
                       /\ pc[w] \in {"writev", "wrote"} /\ pc'[w] = "closeRemove"
                       /\ sock[client[w]] = "open"
                       => Unsent(client[w])' = 0
<1>1. Inv /\ Responses /\ [Next]_vars => Whole
  <2>1. ASSUME Inv, Responses, [Next]_vars, NEW w \in Workers,
               pc[w] \in {"writev", "wrote"}, pc'[w] = "closeRemove", sock[client[w]] = "open"
        PROVE  Unsent(client[w])' = 0
    <3>1. TypeOK /\ Clients
      BY <2>1 DEF Inv
    <3>2. PICK f \in Fds : client[w] = f
      BY <2>1, <3>1, GivesUp
    <3>3. client' = client
      BY <2>1, <3>1, LeavesInOnWrite DEF WritevEnds, Wrote
    <3>4. ~(Dangling(f) /\ pc[w] = "writev")
      BY <2>1, <3>2 DEF Responses, Sending, Prepared, Dangling, WritePcs
    <3>5. CASE UNCHANGED <<iov0, iov1, iovCnt_>> /\ Unsent(f) = 0
      BY <3>2, <3>3, <3>5 DEF Unsent
    <3>6. CASE /\ iov0'[f] = Iov0Left(w, f) /\ iov1'[f] = Iov1Left(w, f)
               /\ ~(ToWriteBytes(f) > 0)
      <4>1. iov0[f] \in Nat /\ iov1[f] \in 0..(SizeT - 1)
        BY <3>1 DEF TypeOK, ConnType
      <4>2. iov0[f] = 0 /\ iov1[f] = 0 /\ Moved(w, f) = 0
        BY <3>6, <4>1 DEF ToWriteBytes, Moved
      <4>3. Iov0Left(w, f) = 0 /\ Iov1Left(w, f) = 0
        BY <4>2 DEF Iov0Left, Iov1Left
      <4>. QED  BY <3>2, <3>3, <3>6, <4>3 DEF Unsent
    <3>. QED  BY <2>1, <3>1, <3>2, <3>4, <3>5, <3>6, GivesUp
  <2>. QED  BY <2>1
<1>2. Spec => []Inv
  BY Invariance
<1>3. Spec => []Responses
  BY ResponsesAlways
<1>. QED  BY <1>1, <1>2, <1>3, PTL DEF Spec, CompleteResponse
=============================================================================
