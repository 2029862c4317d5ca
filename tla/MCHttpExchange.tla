---------------------------- MODULE MCHttpExchange ----------------------------
(***************************************************************************)
(* HttpExchange with a small site and scripts of two and three requests.   *)
(***************************************************************************)
EXTENDS HttpExchange

MCNul == <<"nul", 0>>

File(size) == [dir |-> FALSE, public |-> TRUE, size |-> size, minusOne |-> FALSE]

MCSite ==
  [p \in {"", "/index.html", "/login.html", "/welcome.html", "/404.html",
          "/private", "/odd", "/empty"} |->
     CASE p = "" -> [File(9) EXCEPT !.dir = TRUE]
       [] p = "/private" -> [File(2) EXCEPT !.public = FALSE]
       [] p = "/odd" -> [File(2) EXCEPT !.minusOne = TRUE]
       [] p = "/empty" -> File(0)
       [] p = "/index.html" -> File(3)
       [] OTHER -> File(2)]

Get(path, keep) ==
  [method |-> "GET", path |-> path, keep |-> keep, form |-> FALSE, body |-> <<>>]
Post(path, keep, body) ==
  [method |-> "POST", path |-> path, keep |-> keep, form |-> TRUE, body |-> body]

Login == <<Username, Password>>

Requests ==
  {Get("/", TRUE), Get("/private", TRUE), Get("/video", FALSE),
   Post("/login", TRUE, Login), Post("/register", FALSE, Login)}

MCScripts ==
  ((Requests \cup {Get("/odd", TRUE), Get("/empty", TRUE),
                   Post("/login", FALSE, <<Username, Nul, Password>>)}) \X {Get("/", TRUE)})
    \cup {<<Get("/", TRUE), Post("/login", TRUE, Login)>>,
          <<Get("/", TRUE), Get("/private", TRUE)>>,
          <<Post("/login", TRUE, Login), Get("/index", TRUE), Get("/video", FALSE)>>}

\* What the theorem about WholeServed takes of the site and of the scripts: of all of these,
\* except for one with a zero byte in a body.
ASSUME OrdinarySiteAssumption == OrdinarySite

ASSUME TameScriptsAssumption ==
  \A s \in Scripts :
    \/ \E i \in DOMAIN s : Nul \in ToSet(s[i].body)
    \/ PlainBodies(s) /\ Fits(s) /\ \A i \in DOMAIN s : Ordinary(s[i])
=============================================================================
