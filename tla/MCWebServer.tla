----------------------------- MODULE MCWebServer -----------------------------
(***************************************************************************)
(* WebServer on small instances.                                           *)
(***************************************************************************)
EXTENDS WebServer, TLC

Symmetry == Permutations(Fds) \cup Permutations(Workers)

\* Between process() and the end of write().  At all other times iov_[0], iovCnt_, mmFile_
\* and IsKeepAlive() do not matter before process() sets them again; timeMS only matters
\* in epoll_wait.
Responding(f) ==
  \/ interest[f] = "OUT" \/ event[f] = "out"
  \/ \E i \in Queued(f) : tasks[i].op = "writev"
  \/ \E w \in Workers : client[w] = f /\ pc[w] \in {"rearmOut", "writev", "wrote"}

\* The state without these values while nothing depends on them.
View ==
  <<timeoutOn, kernelVars, interest, isClose_, userCount, readBuff_, writeBuff_, iov1,
    [f \in Fds |-> IF Responding(f) THEN <<iov0[f], iovCnt_[f], keepAlive[f], mapped[f]>>
                                     ELSE <<>>],
    timer, IF At(Main, "wait") THEN timeMS ELSE "block", batchVars, back, threadVars>>
=============================================================================
