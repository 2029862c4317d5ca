----------------------------- MODULE HttpResponse -----------------------------
(***************************************************************************)
(* HttpResponse: from a path to a status, a mapped file or an error text.  *)
(* The files of the server are a constant; lengths are counted in units.   *)
(***************************************************************************)
EXTENDS Naturals

CONSTANTS
  Site,       \* per path that stat() finds: [dir, public, size, minusOne]
  TextUnits   \* length of the page that ErrorContent writes

\* public is S_IROTH; minusOne, that the file begins with the bytes FF FF FF FF.
ASSUME SiteAssumption ==
  /\ \A p \in DOMAIN Site :
       /\ {Site[p].dir, Site[p].public, Site[p].minusOne} \subseteq BOOLEAN
       /\ Site[p].size \in Nat
  /\ "" \in DOMAIN Site /\ Site[""].dir    \* srcDir_ itself
  /\ TextUnits \in Nat \ {0}

\* mapped is the length mmFile_ was mapped with, 0 for a null pointer; lost counts
\* open files and mappings that nothing refers to any more.
NewResponse == [code |-> 200, path |-> "", size |-> 0, mapped |-> 0, lost |-> 0]

\* Mutant: Init leaves the file of the previous response in mmFile_.
MutResponseInit(r, path, code) == [r EXCEPT !.code = code, !.path = path, !.size = 0]

ResponseInit(r, path, code) ==
  [r EXCEPT !.code = code, !.path = path, !.size = 0, !.mapped = 0]

\* stat() changes mmFileStat_ only when it succeeds.
Stat(r) == [r EXCEPT !.size = IF r.path \in DOMAIN Site THEN Site[r.path].size ELSE @]

Status(r) ==
  IF r.path \notin DOMAIN Site \/ Site[r.path].dir THEN 404
  ELSE IF ~Site[r.path].public THEN 403
  ELSE r.code

ErrorHtml_(r) ==
  CASE r.code = 400 -> Stat([r EXCEPT !.path = "/400.html"])
    [] r.code = 403 -> Stat([r EXCEPT !.path = "/403.html"])
    [] r.code = 404 -> Stat([r EXCEPT !.path = "/404.html"])
    [] OTHER -> r

Chosen(r) == ErrorHtml_([Stat(r) EXCEPT !.code = Status(r)])

\* What becomes of a file that stat() has found: open() may fail for want of a descriptor or
\* of the right to read it, mmap for want of memory.
Outcomes == {"done", "unopened", "unmapped"}

Opens(r, outcome) == r.path \in DOMAIN Site /\ outcome # "unopened"

\* mmap refuses the length 0; its result, MAP_FAILED, is dereferenced.
Crashes(r, outcome) == Opens(r, outcome) /\ (r.size = 0 \/ outcome = "unmapped")

\* *mmRet == -1 is meant for a mapping that failed.
TakenForFailure(r, outcome) == Opens(r, outcome) /\ Site[r.path].minusOne

AddContent_(r, outcome) ==
  IF ~Opens(r, outcome) THEN r
  ELSE IF TakenForFailure(r, outcome) THEN [r EXCEPT !.lost = @ + 2]
  ELSE [r EXCEPT !.mapped = r.size]

Maps(r, outcome) == Opens(r, outcome) /\ ~TakenForFailure(r, outcome)

\* What the header announces as Content-length: the length of the file, or of the text
\* that ErrorContent writes to the buffer itself.
Announced(r, outcome) == IF Maps(r, outcome) THEN r.size ELSE TextUnits

\* What follows the header: that text, and the file that process() puts into iov_[1].
Follows(r, outcome) ==
  (IF Maps(r, outcome) THEN 0 ELSE TextUnits)
    + (IF r.size > 0 /\ r.mapped > 0 THEN r.size ELSE 0)
=============================================================================
