------------------------------ MODULE HttpRequest ------------------------------
(***************************************************************************)
(* HttpRequest: the parser of requests.  Text is a sequence of symbols; a  *)
(* symbol is a pair of its kind and its value, and stands for a text that  *)
(* no regular expression of the parser looks into.  The pieces of a line   *)
(* are symbols of their own where a cut between them changes its meaning.  *)
(***************************************************************************)
EXTENDS StringBuffer

CR       == <<"cr", 0>>
LF       == <<"lf", 0>>
CRLF     == <<CR, LF>>
Verb(m)      == <<"verb", m>>           \* the method and a space
Target(p, i) == <<"target", <<p, i>>>>  \* the path of the i-th request, " HTTP/"
Version  == <<"version", "1.1">>
Name     == <<"name", "Connection">>
Colon    == <<"colon", ":">>
Value    == <<"value", " keep-alive">>
Form     == <<"form", "Content-Type: application/x-www-form-urlencoded">>
Username == <<"field", "username=u">>
Password == <<"field", "&password=p">>

Kind(s)   == s[1]
HasSpace(s) == Kind(s) \in {"verb", "target", "value", "form"}

\* A request: members of the class, with header_ cut down to the two entries that are
\* looked at, and the number of the request line it was made from.
Fresh == [state |-> "REQUEST_LINE", method |-> "", path |-> "", version |-> <<>>,
          connection |-> "", form |-> FALSE, of |-> 0]

\* Mutant: version 1.1 keeps the connection whatever the header says.
MutIsKeepAlive(q) == q.version = <<Version>>

IsKeepAlive(q) == q.connection = "keep-alive" /\ q.version = <<Version>>

\* ^([^ ]*) ([^ ]*) HTTP/([^ ]*)$ with the path at j.  What stands before the method without
\* a space, such as the body of the request before, is taken for a part of it.
MatchesAt(line, j) ==
  /\ j \in 2..Len(line)
  /\ Kind(line[j - 1]) = "verb" /\ Kind(line[j]) = "target"
  /\ \A i \in DOMAIN line \ {j - 1, j} : ~HasSpace(line[i])

RequestLineMatches(line) == \E j \in DOMAIN line : MatchesAt(line, j)

ParsePath_(path) ==
  CASE path = "/" -> "/index.html"
    [] path \in {"/index", "/register", "/login", "/welcome", "/video", "/picture"} ->
         path \o ".html"
    [] OTHER -> path

ParseRequestLine_(q, line) ==
  LET j == CHOOSE i \in DOMAIN line : MatchesAt(line, i) IN
  [q EXCEPT !.state = "HEADERS", !.method = IF j = 2 THEN line[1][2] ELSE "other",
            !.path = ParsePath_(line[j][2][1]), !.of = line[j][2][2],
            !.version = SubSeq(line, j + 1, Len(line))]

\* ^([^:]*): ?(.*)$, where the dot stands for all but CR and LF.
HeaderMatches(line) ==
  \E i \in DOMAIN line :
    /\ Kind(line[i]) \in {"colon", "form"}
    /\ \A j \in (i + 1)..Len(line) : line[j] \notin {CR, LF}

\* A line that is no header ends the headers.
ParseHeader_(q, line) ==
  IF ~HeaderMatches(line) THEN [q EXCEPT !.state = "BODY"]
  ELSE IF line[1] = Name
    THEN [q EXCEPT !.connection = IF line = <<Name, Colon, Value>> THEN "keep-alive" ELSE "other"]
  ELSE [q EXCEPT !.form = @ \/ line = <<Form>>]

\* ParsePost_: what UserVerify says of the two fields, if both are there, replaces
\* the path.
ParseBody_(q, line, verified) ==
  [q EXCEPT !.state = "FINISH",
            !.path = IF q.method = "POST" /\ q.form /\ @ \in {"/register.html", "/login.html"}
                     THEN IF verified /\ {Username, Password} \subseteq ToSet(line)
                          THEN "/welcome.html" ELSE "/error.html"
                     ELSE @]

\* The position of the first CRLF, or the end of the text.
LineEnd(text) ==
  LET ends == {i \in 1..(Len(text) - 1) : SubSeq(text, i, i + 1) = CRLF} IN
  IF ends = {} THEN Len(text) + 1 ELSE Min(ends)

AfterLine(q, line, left, verified) ==
  CASE q.state = "REQUEST_LINE" -> ParseRequestLine_(q, line)
    [] q.state = "HEADERS" -> IF left <= 2 THEN [ParseHeader_(q, line) EXCEPT !.state = "FINISH"]
                              ELSE ParseHeader_(q, line)
    [] OTHER -> ParseBody_(q, line, verified)

Line(text) == SubSeq(text, 1, LineEnd(text) - 1)

\* One more turn of the loop of parse(), if it goes on.  The line is taken out of the
\* buffer after it has been handled, unless it is not ended by CRLF.
Turn(x, verified) ==
  LET text == Readable(x.buff)
      next == AfterLine(x.request, Line(text), Len(text), verified)
  IN IF ~x.goes \/ text = <<>> \/ x.request.state = "FINISH" THEN [x EXCEPT !.goes = FALSE]
     ELSE IF x.request.state = "REQUEST_LINE" /\ ~RequestLineMatches(Line(text))
       THEN [x EXCEPT !.goes = FALSE, !.ok = FALSE]
     ELSE IF LineEnd(text) > Len(text) THEN [x EXCEPT !.goes = FALSE, !.request = next]
     ELSE [x EXCEPT !.request = next, !.buff = Retrieve(x.buff, Len(Line(text)) + 2)]

\* parse().  A turn that does not end the loop takes something out of the buffer.
Parse(q, b, verified) ==
  LET turn[n \in 0..ReadableBytes(b)] ==
        IF n = 0 THEN [goes |-> TRUE, ok |-> TRUE, request |-> q, buff |-> b]
        ELSE Turn(turn[n - 1], verified)
  IN turn[ReadableBytes(b)]
=============================================================================
