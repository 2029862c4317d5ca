------------------------------ MODULE HttpExchange ------------------------------
(***************************************************************************)
(* One HttpConn and its clients, from the bytes of the requests to the     *)
(* responses: HttpConn::read, process and the end of write, with the       *)
(* StringBuffer, the HttpRequest and the HttpResponse of the connection.   *)
(* The network cuts what a client sends wherever it likes.  Who runs the   *)
(* handlers, and how a response leaves, is the matter of WebServer.        *)
(***************************************************************************)
EXTENDS HttpRequest, HttpResponse

CONSTANTS
  Scripts,    \* what clients may send: sequences of [method, path, keep, form, body]
  MaxFailures \* bound: failures of open() and mmap()

\* The request line of a request is in no other's body: the number in a target is the one
\* of the request that it belongs to.
ASSUME ScriptsAssumption ==
  \A s \in Scripts :
    /\ s \in Seq(ToSet(s))
    /\ \A i \in DOMAIN s :
         /\ s[i].body \in Seq(ToSet(s[i].body))
         /\ \A c \in ToSet(s[i].body) : Kind(c) # "target"
         /\ {s[i].keep, s[i].form} \subseteq BOOLEAN

VARIABLES
  script,     \* the requests, fixed from the start
  isET,       \* HttpConn::isET, fixed by the constructor of WebServer
  whole,      \* the client sends a request in one piece when it has the last answer
  arrived,    \* symbols that have reached the socket,
  got,        \* that have been read,
  consumed,   \* that parse() has taken from readBuff_
  readBuff_,
  keepAlive,  \* request_.IsKeepAlive()
  response_,
  answers,    \* the responses sent
  failures,   \* how often open() or mmap() has failed for a file that is there
  pc          \* listen, read, process, write, closed, crashed

fixedVars == <<script, isET, whole>>
vars == <<fixedVars, arrived, got, consumed, readBuff_, keepAlive, response_, answers, failures, pc>>

-----------------------------------------------------------------------------
(* The clients.                                                            *)

Symbols(q, i) ==
  <<Verb(q.method), Target(q.path, i), Version>> \o CRLF
    \o (IF q.keep THEN <<Name, Colon, Value>> \o CRLF ELSE <<>>)
    \o (IF q.form THEN <<Form>> \o CRLF ELSE <<>>)
    \o CRLF \o q.body

Stream == FlattenSeq([i \in DOMAIN script |-> Symbols(script[i], i)])

\* Where the i-th request ends in the stream.
EndOf(i) == Len(FlattenSeq([j \in 1..i |-> Symbols(script[j], j)]))
Ends == {EndOf(i) : i \in 0..Len(script)}

Sent(i) == EndOf(i) <= arrived

Init ==
  /\ script \in Scripts /\ isET \in BOOLEAN /\ whole \in BOOLEAN
  /\ arrived = 0 /\ got = 0 /\ consumed = 0
  /\ readBuff_ = NewBuffer /\ keepAlive = FALSE /\ response_ = NewResponse
  /\ answers = <<>> /\ failures = 0 /\ pc = "listen"

\* More of the stream arrives.
Deliver(n) ==
  /\ pc \notin {"closed", "crashed"}
  /\ arrived < n
  /\ whole => /\ pc = "listen" /\ arrived = got
              /\ n \in Ends /\ \A e \in Ends : e <= arrived \/ n <= e
  /\ arrived' = n
  /\ UNCHANGED <<fixedVars, got, consumed, readBuff_, keepAlive, response_, answers, failures,
                 pc>>

\* The next client gets the descriptor, and with it the HttpConn: init() empties the
\* buffer.  It goes on with the first request of the script not yet begun.
NextClient ==
  /\ pc = "closed" /\ pc' = "listen"
  /\ \E e \in Ends \ {EndOf(Len(script))} :
       /\ arrived <= e /\ \A f \in Ends : f < arrived \/ e <= f
       /\ arrived' = e /\ got' = e /\ consumed' = e
  /\ readBuff_' = RetrieveAll(readBuff_)
  /\ UNCHANGED <<fixedVars, keepAlive, response_, answers, failures>>

-----------------------------------------------------------------------------
(* The handlers.                                                           *)

OnRead_ ==
  /\ pc = "listen" /\ got < arrived
  /\ pc' = "read"
  /\ UNCHANGED <<fixedVars, arrived, got, consumed, readBuff_, keepAlive, response_, answers,
                 failures>>

\* One turn of the loop in HttpConn::read; edge-triggered, it goes on to EAGAIN.
ReadSome ==
  LET n == Min({arrived, got + ReadMax(readBuff_)}) IN
  /\ pc = "read" /\ got < arrived
  /\ readBuff_' = ReadFromFd(readBuff_, SubSeq(Stream, got + 1, n))
  /\ got' = n
  /\ pc' = IF isET THEN "read" ELSE "process"
  /\ UNCHANGED <<fixedVars, arrived, consumed, keepAlive, response_, answers, failures>>

ReadEnds ==
  /\ pc = "read" /\ got = arrived
  /\ pc' = "process"
  /\ UNCHANGED <<fixedVars, arrived, got, consumed, readBuff_, keepAlive, response_, answers,
                 failures>>

ProcessNothing ==
  /\ pc = "process" /\ ReadableBytes(readBuff_) = 0
  /\ keepAlive' = FALSE
  /\ pc' = "listen"
  /\ UNCHANGED <<fixedVars, arrived, got, consumed, readBuff_, response_, answers, failures>>

Answer(q, r, outcome) ==
  [of |-> q.of, code |-> r.code, keep |-> IsKeepAlive(q),
   announced |-> Announced(r, outcome), follows |-> Follows(r, outcome)]

\* A line that is no request line leaves an empty path, which names the directory of
\* the site, and a status of 400.
Process(verified, outcome) ==
  LET p == Parse(Fresh, readBuff_, verified)
      chosen == Chosen(ResponseInit(response_, p.request.path, IF p.ok THEN 200 ELSE 400))
  IN
  /\ pc = "process" /\ ReadableBytes(readBuff_) > 0
  /\ \/ outcome = "done" /\ UNCHANGED failures
     \/ /\ outcome # "done" /\ chosen.path \in DOMAIN Site
        /\ failures < MaxFailures /\ failures' = failures + 1
  /\ readBuff_' = p.buff
  /\ consumed' = consumed + p.buff.read - readBuff_.read
  /\ keepAlive' = IsKeepAlive(p.request)
  /\ \/ /\ Crashes(chosen, outcome)
        /\ pc' = "crashed" /\ UNCHANGED <<response_, answers>>
     \/ /\ ~Crashes(chosen, outcome)
        /\ response_' = AddContent_(chosen, outcome)
        /\ answers' = Append(answers, Answer(p.request, response_', outcome))
        /\ pc' = "write"
  /\ UNCHANGED <<fixedVars, arrived, got>>

\* The response has been sent: OnProcess again, or Close, which unmaps the file.
OnWrite_ ==
  /\ pc = "write"
  /\ pc' = IF keepAlive THEN "process" ELSE "closed"
  /\ response_' = IF keepAlive THEN response_ ELSE [response_ EXCEPT !.mapped = 0]
  /\ UNCHANGED <<fixedVars, arrived, got, consumed, readBuff_, keepAlive, answers, failures>>

Next ==
  \/ \E n \in 1..Len(Stream) : Deliver(n)
  \/ NextClient
  \/ OnRead_ \/ ReadSome \/ ReadEnds \/ ProcessNothing \/ OnWrite_
  \/ \E verified \in BOOLEAN, outcome \in Outcomes : Process(verified, outcome)

Spec == Init /\ [][Next]_vars

-----------------------------------------------------------------------------
(* What a client may count on.                                             *)

\* readBuff_ holds exactly what has arrived and has not been parsed, in order, however
\* the buffer grew, moved its contents or spilled into the second buffer of ReadFromFd:
\* as long as no byte is zero.
BufferExact ==
  Nul \notin ToSet(Stream) => Readable(readBuff_) = SubSeq(Stream, consumed + 1, got)

\* However the network cuts the stream, and although parse() may leave lines of a
\* request in the buffer or swallow lines of the next one: every request is answered at
\* most once, in the order of the requests.
InOrder ==
  \A j, k \in DOMAIN answers :
    j < k /\ 0 \notin {answers[j].of, answers[k].of} => answers[j].of < answers[k].of

\* The connection has been kept so far, all that was sent is read, and ends with a request.
ListensOn ==
  /\ pc = "listen" /\ got = arrived /\ arrived \in Ends
  /\ \A k \in DOMAIN answers : answers[k].keep

\* The server does not go back to listening on a connection with fewer answers than there
\* were requests, so that no client that has sent all of its requests is left waiting.
EnoughAnswers ==
  ListensOn => Len(answers) >= Cardinality({i \in DOMAIN script : Sent(i)})

Page(path) == IF path \in DOMAIN Site THEN Site[path].size ELSE TextUnits

Answering(i, code, length) ==
  [of |-> i, code |-> code, keep |-> script[i].keep, announced |-> length, follows |-> length]

Intended(i) ==
  LET path == ParsePath_(script[i].path) IN
  IF script[i].form
    THEN {Answering(i, 200, Page("/welcome.html")), Answering(i, 404, Page("/404.html"))}
  ELSE IF path \notin DOMAIN Site THEN {Answering(i, 404, Page("/404.html"))}
  ELSE IF ~Site[path].public THEN {Answering(i, 403, TextUnits)}
  ELSE {Answering(i, 200, Site[path].size)}

Odd(i) == LET path == ParsePath_(script[i].path) IN
  path \in DOMAIN Site /\ (Site[path].minusOne \/ Site[path].size = 0)

\* In whole, the one answer that it should be is given to each request,
EachAnswered ==
  \A i \in DOMAIN script :
    Sent(i) /\ pc \in {"listen", "closed"} /\ got = arrived /\ ~Odd(i) =>
      \E k \in DOMAIN answers :
        /\ answers[k] \in Intended(i)
        /\ \A j \in DOMAIN answers : answers[j].of = i => j = k

\* what answers no request follows a form,
StrayAfterForm ==
  \A k \in DOMAIN answers :
    answers[k].of = 0 => k > 1 /\ answers[k - 1].of # 0 /\ script[answers[k - 1].of].form

\* and the server loses and maps only files that it should not have been asked for.
NothingLost ==
  response_.lost > 0 \/ pc = "crashed" => \E i \in DOMAIN script : Sent(i) /\ Odd(i)

\* No client is left waiting.  One that sends whole requests one by one gets the one answer
\* it should to each, with the body that the header announces; the server keeps nothing of
\* it.  The exceptions are files that are empty, taken for a failed mapping, or that open or
\* mmap fails for, and a form sent on a keep-alive connection: its body stays in the buffer
\* and is answered as well.
WholeServed ==
  EnoughAnswers /\ (whole /\ failures = 0 => EachAnswered /\ StrayAfterForm /\ NothingLost)

-----------------------------------------------------------------------------
(* What that takes of the clients and of the site, for theorems about any  *)
(* of them.                                                                *)

\* No body has a zero byte.
PlainBodies(s) == \A i \in DOMAIN s : Nul \notin ToSet(Symbols(s[i], i))

\* Only the two forms of the site have a body; nobody asks for a directory.
Ordinary(q) ==
  LET path == ParsePath_(q.path) IN
  /\ path \in DOMAIN Site => ~Site[path].dir
  /\ IF q.form
       THEN q.method = "POST" /\ path \in {"/register.html", "/login.html"} /\ q.body # <<>>
       ELSE q.body = <<>>

\* A level-triggered connection has one readv per request.
Fits(s) == \A i \in DOMAIN s : Len(Symbols(s[i], i)) <= Overflow

\* The clients that WholeServed is proved for.
Tame ==
  /\ PlainBodies(script) /\ \A i \in DOMAIN script : Ordinary(script[i])
  /\ isET \/ Fits(script)

\* The pages that the code names are there, or not there, as under website/.
OrdinarySite ==
  /\ \A p \in {"/404.html", "/welcome.html"} :
       /\ p \in DOMAIN Site
       /\ ~Site[p].dir /\ Site[p].public /\ ~Site[p].minusOne /\ Site[p].size > 0
  /\ "/403.html" \notin DOMAIN Site /\ "/error.html" \notin DOMAIN Site
=============================================================================
