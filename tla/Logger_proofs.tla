----------------------------- MODULE Logger_proofs -----------------------------
(***************************************************************************)
(* Proofs about Logger for any number of writers, any capacity and any     *)
(* number of lines: a writer never waits while it holds mtx_, no line is   *)
(* lost or written twice, and few lines are written out of their order.    *)
(***************************************************************************)
EXTENDS Logger, SequenceTheorems, FiniteSetTheorems, TLAPS

Has(s, n) == \E i \in DOMAIN s : s[i] = n
Once(s)   == \A i, j \in DOMAIN s : s[i] = s[j] => i = j

Callers    == Writers \cup {Flusher}
WithLine   == {"test", "push", "direct"}
WithMutex  == WithLine \cup {"unlock"}
Destroying == {"destroy", "join", "close", "gone"}

CallType == call \in [Callers -> {"out", "pushAsleep", "popAsleep", "pushAwake", "popAwake"}]

TypeOK ==
  /\ que_ \in Seq(Lines) /\ file \in Seq(Lines)
  /\ call \in [Callers -> {"out", "pushAsleep", "popAsleep", "pushAwake", "popAwake"}]
  /\ wpc \in [Writers -> WithMutex \cup {"out", "flush"}]
  /\ line \in [Writers -> Lines \cup {NoLine}] /\ str \in Lines \cup {NoLine}
  /\ fpc \in {"pop", "write", "exit"} /\ dpc \in {"no", "drain"} \cup Destroying
  /\ logged \in 0..MaxLines

\* Who holds mtx_, and who holds a line.
Control ==
  /\ \A w \in Writers : /\ wpc[w] \in WithMutex => mtx_ = w
                        /\ line[w] # NoLine <=> wpc[w] \in WithLine
  /\ str # NoLine <=> fpc = "write"
  /\ dpc # "no" => \A w \in Writers : wpc[w] = "out"

\* Between the test of Full and the Push the place stays free.
Room == \A w \in Writers : wpc[w] = "push" => ~Que!Full

\* The destructor has the queue to itself and to the flush thread.
Ending ==
  /\ dpc \in Destroying => que_ = <<>>
  /\ dpc \in {"close", "gone"} => fpc = "exit"
  /\ dpc = "gone" => flushed = Len(file)

\* Where the lines are.
Buffered(n) == \E w \in Writers : line[w] = n

Where ==
  /\ Once(file) /\ Once(que_)
  /\ \A n \in Lines :
       /\ n <= logged <=> Has(file, n) \/ Has(que_, n) \/ str = n \/ Buffered(n)
       /\ Has(file, n) => ~Has(que_, n) /\ str # n /\ ~Buffered(n)
       /\ Has(que_, n) => str # n /\ ~Buffered(n)
       /\ str = n => ~Buffered(n)

\* How many there are.
Count ==
  Len(file) + Len(que_) + (IF str # NoLine THEN 1 ELSE 0)
    + (IF \E w \in Writers : line[w] # NoLine THEN 1 ELSE 0) = logged

Inv == TypeOK /\ Control /\ Room /\ PushNeverWaits /\ Ending /\ Where /\ Count

(***************************************************************************)
(* Sequences.                                                              *)
(***************************************************************************)
LEMMA Appended ==
  ASSUME NEW s \in Seq(Lines), NEW x \in Lines
  PROVE  /\ Append(s, x) \in Seq(Lines) /\ Len(Append(s, x)) = Len(s) + 1
         /\ \A n \in Lines : Has(Append(s, x), n) <=> Has(s, n) \/ n = x
         /\ Once(s) /\ ~Has(s, x) => Once(Append(s, x))
<1>1. /\ Append(s, x) \in Seq(Lines) /\ Len(Append(s, x)) = Len(s) + 1
      /\ DOMAIN s = 1..Len(s) /\ DOMAIN Append(s, x) = 1..(Len(s) + 1)
      /\ \A i \in 1..Len(s) : Append(s, x)[i] = s[i]
      /\ Append(s, x)[Len(s) + 1] = x
  OBVIOUS
<1>2. Len(s) \in Nat
  OBVIOUS
<1>3. \A n \in Lines : Has(Append(s, x), n) <=> Has(s, n) \/ n = x
  BY <1>1, <1>2 DEF Has
<1>4. ASSUME Once(s), ~Has(s, x) PROVE Once(Append(s, x))
  BY <1>1, <1>2, <1>4 DEF Has, Once
<1>. QED  BY <1>1, <1>3, <1>4

LEMMA Taken ==
  ASSUME NEW s \in Seq(Lines), s # <<>>
  PROVE  /\ Tail(s) \in Seq(Lines) /\ Head(s) \in Lines /\ Len(s) = Len(Tail(s)) + 1
         /\ Len(s) \in Nat /\ Len(Tail(s)) \in Nat
         /\ \A n \in Lines : Has(s, n) <=> Has(Tail(s), n) \/ n = Head(s)
         /\ Once(s) => Once(Tail(s)) /\ ~Has(Tail(s), Head(s))
<1>1. /\ Tail(s) \in Seq(Lines) /\ Head(s) \in Lines /\ Head(s) = s[1]
      /\ Len(s) \in Nat \ {0} /\ Len(Tail(s)) = Len(s) - 1
      /\ DOMAIN s = 1..Len(s) /\ DOMAIN Tail(s) = 1..(Len(s) - 1)
      /\ \A i \in 1..(Len(s) - 1) : Tail(s)[i] = s[i + 1]
  BY HeadTailProperties
<1>2. ASSUME NEW n \in Lines PROVE Has(s, n) <=> Has(Tail(s), n) \/ n = Head(s)
  <2>1. ASSUME NEW i \in 1..Len(s), s[i] = n PROVE Has(Tail(s), n) \/ n = Head(s)
    <3>1. CASE i = 1
      BY <1>1, <2>1, <3>1
    <3>2. CASE i # 1
      <4>1. i - 1 \in 1..(Len(s) - 1) /\ Tail(s)[i - 1] = s[i]
        BY <1>1, <3>2
      <4>. QED  BY <1>1, <2>1, <4>1 DEF Has
    <3>. QED  BY <3>1, <3>2
  <2>2. ASSUME NEW i \in 1..(Len(s) - 1), Tail(s)[i] = n PROVE Has(s, n)
    <3>1. i + 1 \in 1..Len(s) /\ s[i + 1] = n
      BY <1>1, <2>2
    <3>. QED  BY <1>1, <3>1 DEF Has
  <2>3. n = Head(s) => Has(s, n)
    BY <1>1 DEF Has
  <2>. QED  BY <1>1, <2>1, <2>2, <2>3 DEF Has
<1>3. ASSUME Once(s) PROVE Once(Tail(s))
  <2>1. ASSUME NEW i \in 1..(Len(s) - 1), NEW j \in 1..(Len(s) - 1), Tail(s)[i] = Tail(s)[j]
        PROVE  i = j
    <3>1. i + 1 = j + 1
      BY <1>1, <1>3, <2>1 DEF Once
    <3>. QED  BY <3>1
  <2>. QED  BY <1>1, <2>1 DEF Once
<1>4. ASSUME Once(s), NEW i \in 1..(Len(s) - 1), Tail(s)[i] = Head(s) PROVE FALSE
  <2>1. i + 1 = 1
    BY <1>1, <1>4 DEF Once
  <2>. QED  BY <2>1
<1>. QED  BY <1>1, <1>2, <1>3, <1>4 DEF Has

LEMMA Empty ==
  <<>> \in Seq(Lines) /\ Len(<<>>) = 0 /\ Once(<<>>) /\ \A n : ~Has(<<>>, n)
BY DEF Once, Has

(***************************************************************************)
(* The steps.                                                              *)
(***************************************************************************)
LEMMA InitInv == Init => Inv
<1>. SUFFICES ASSUME Init PROVE Inv
  OBVIOUS
<1>. USE LoggerAssumption DEF Init, Que!Init
<1>1. TypeOK
  BY Empty DEF TypeOK, Callers, WithMutex, Destroying
<1>2. Control /\ Room /\ PushNeverWaits /\ Ending
  BY DEF Control, WithMutex, WithLine, Room, PushNeverWaits, Ending, Destroying
<1>3. Where
  BY Empty DEF Where, Buffered, Lines
<1>4. Count
  BY Empty DEF Count
<1>. QED  BY <1>1, <1>2, <1>3, <1>4 DEF Inv

\* The lines stay where they are.
LEMMA Stay ==
  ASSUME Where, Count, UNCHANGED <<que_, file, str, line, logged>> PROVE Where' /\ Count'
BY DEF Where, Count, Buffered, Once, Has

LEMMA FormatInv == ASSUME Inv, NEW w \in Writers, Format(w) PROVE Inv'
<1>. USE LoggerAssumption
<1>k. TypeOK /\ Control /\ Room /\ PushNeverWaits /\ Ending /\ Where /\ Count
  BY DEF Inv
<1>t. /\ que_ \in Seq(Lines) /\ file \in Seq(Lines) /\ NoLine \notin Lines
      /\ wpc \in [Writers -> WithMutex \cup {"out", "flush"}]
      /\ line \in [Writers -> Lines \cup {NoLine}] /\ logged \in 0..MaxLines
  BY <1>k DEF TypeOK, Lines
<1>1. /\ wpc[w] = "out" /\ wpc' = [wpc EXCEPT ![w] = "test"] /\ dpc = "no" /\ mtx_ = NoThread
      /\ mtx_' = w /\ logged' = logged + 1 /\ logged < MaxLines
      /\ line' = [line EXCEPT ![w] = logged + 1]
      /\ UNCHANGED <<que_, call, fpc, str, dpc, file, flushed>>
  BY DEF Format, WGo, Free, queVars
<1>2. /\ logged \in Nat /\ logged' \in Lines /\ logged' \in 0..MaxLines
      /\ logged' # NoLine /\ logged + 1 = logged'
  BY <1>1, <1>t DEF Lines
<1>3. \A v \in Writers : wpc[v] \notin WithMutex
  BY <1>1, <1>k DEF Control
<1>4. /\ wpc'[w] = "test" /\ line'[w] = logged'
      /\ \A v \in Writers \ {w} : wpc'[v] = wpc[v] /\ line'[v] = line[v]
  BY <1>1, <1>2, <1>t
<1>5. \A v \in Writers : line[v] = NoLine
  BY <1>3, <1>k DEF Control, WithMutex
<1>6. TypeOK' /\ Control'
  <2>1. TypeOK'
    BY <1>1, <1>2, <1>k DEF TypeOK, WithMutex, WithLine
  <2>2. \A v \in Writers : wpc'[v] \in WithMutex => v = w
    BY <1>3, <1>4
  <2>3. \A v \in Writers : line'[v] # NoLine <=> wpc'[v] \in WithLine
    BY <1>2, <1>3, <1>4, <1>5 DEF WithMutex, WithLine
  <2>. QED  BY <1>1, <1>k, <2>1, <2>2, <2>3 DEF Control
<1>7. Room' /\ PushNeverWaits' /\ Ending'
  BY <1>1, <1>3, <1>4, <1>k DEF Room, PushNeverWaits, Ending, Que!Full, WithMutex, WithLine
<1>8. \A n \in Lines : ~Buffered(n)
  BY <1>5, <1>t DEF Buffered
<1>9. \A n \in Lines : Buffered(n)' <=> n = logged'
  <2>1. ASSUME NEW n \in Lines, NEW v \in Writers, line'[v] = n PROVE n = logged'
    BY <1>4, <1>5, <1>t, <2>1
  <2>2. ASSUME NEW n \in Lines PROVE Buffered(n)' <=> \E v \in Writers : line'[v] = n
    BY DEF Buffered
  <2>. QED  BY <1>4, <2>1, <2>2
<1>10. Where'
  <2>1. \A n \in Lines : n <= logged' <=> n <= logged \/ n = logged'
    BY <1>2 DEF Lines
  <2>2. ~(logged' <= logged)
    BY <1>2
  <2>3. \A n \in Lines : (Has(file, n)' <=> Has(file, n)) /\ (Has(que_, n)' <=> Has(que_, n))
    BY <1>1 DEF Has
  <2>4. ~Has(file, logged') /\ ~Has(que_, logged') /\ str # logged'
    BY <1>2, <1>k, <2>2 DEF Where
  <2>a. \A n \in Lines : n <= logged <=> Has(file, n) \/ Has(que_, n) \/ str = n \/ Buffered(n)
    BY <1>k DEF Where
  <2>5. \A n \in Lines :
          n <= logged' <=> Has(file, n)' \/ Has(que_, n)' \/ str' = n \/ Buffered(n)'
    BY <1>1, <1>8, <1>9, <2>1, <2>3, <2>a
  <2>6. Once(file)' /\ Once(que_)'
    BY <1>1, <1>k DEF Where, Once
  <2>7. \A n \in Lines : /\ Has(file, n)' => ~Has(que_, n)' /\ str' # n /\ ~Buffered(n)'
                         /\ Has(que_, n)' => str' # n /\ ~Buffered(n)'
                         /\ str' = n => ~Buffered(n)'
    BY <1>1, <1>9, <1>k, <2>3, <2>4 DEF Where
  <2>. QED  BY <2>5, <2>6, <2>7 DEF Where
<1>11. Count'
  <2>1. ~\E v \in Writers : line[v] # NoLine
    BY <1>5
  <2>2. \E v \in Writers : line'[v] # NoLine
    BY <1>2, <1>4
  <2>3. Len(file) + Len(que_) + (IF str # NoLine THEN 1 ELSE 0) = logged
    <3>1. /\ Len(file) + Len(que_) + (IF str # NoLine THEN 1 ELSE 0) + 0 = logged
          /\ Len(file) \in Nat /\ Len(que_) \in Nat
      BY <1>k, <1>t, <2>1 DEF Count
    <3>. QED  BY <3>1
  <2>. QED  BY <1>1, <1>2, <1>t, <2>2, <2>3 DEF Count
<1>. QED  BY <1>6, <1>7, <1>10, <1>11 DEF Inv

LEMMA TestFullInv == ASSUME Inv, NEW w \in Writers, TestFull(w) PROVE Inv'
<1>. USE LoggerAssumption
<1>k. TypeOK /\ Control /\ Room /\ PushNeverWaits /\ Ending /\ Where /\ Count
  BY DEF Inv
<1>1. /\ wpc[w] = "test"
      /\ UNCHANGED <<que_, call, mtx_, line, fpc, str, dpc, logged, file, flushed>>
  BY DEF TestFull, WGo, queVars
<1>2. PICK to \in {"push", "direct"} :
        wpc' = [wpc EXCEPT ![w] = to] /\ (to = "push" => ~Que!Full)
  BY DEF TestFull, WGo, MayPush
<1>t. wpc \in [Writers -> WithMutex \cup {"out", "flush"}]
  BY <1>k DEF TypeOK
<1>3. wpc'[w] = to /\ \A v \in Writers \ {w} : wpc'[v] = wpc[v]
  BY <1>2, <1>t
<1>4. TypeOK'
  BY <1>1, <1>2, <1>k DEF TypeOK, WithMutex, WithLine
<1>5. Control'
  <2>1. \A v \in Writers : wpc'[v] \in WithLine <=> wpc[v] \in WithLine
    BY <1>1, <1>3 DEF WithLine
  <2>2. \A v \in Writers : wpc'[v] \in WithMutex <=> wpc[v] \in WithMutex
    BY <1>1, <1>3 DEF WithMutex, WithLine
  <2>3. dpc = "no"
    BY <1>1, <1>k DEF Control
  <2>. QED  BY <1>1, <1>k, <2>1, <2>2, <2>3 DEF Control
<1>6. Room' /\ PushNeverWaits' /\ Ending'
  <2>1. Room'
    BY <1>1, <1>2, <1>3, <1>k DEF Room, Que!Full
  <2>. QED  BY <1>1, <1>k, <2>1 DEF PushNeverWaits, Ending
<1>. QED  BY <1>1, <1>4, <1>5, <1>6, <1>k, Stay DEF Inv

\* A writer lets go of its line, which the queue or the file takes.
LEMMA Hands ==
  ASSUME Inv, NEW w \in Writers, wpc[w] \in {"push", "direct"},
         wpc' = [wpc EXCEPT ![w] = "unlock"], line' = [line EXCEPT ![w] = NoLine],
         UNCHANGED <<mtx_, fpc, str, dpc, logged, flushed>>,
         \/ que_' = Append(que_, line[w]) /\ file' = file
         \/ file' = Append(file, line[w]) /\ que_' = que_,
         call' \in [Callers -> {"out", "pushAsleep", "popAsleep", "pushAwake", "popAwake"}],
         PushNeverWaits'
  PROVE  Inv'
<1>. USE LoggerAssumption
<1>0. TypeOK /\ Control /\ Room /\ Where /\ Count
  BY DEF Inv
<1>k. /\ que_ \in Seq(Lines) /\ file \in Seq(Lines) /\ NoLine \notin Lines
      /\ wpc \in [Writers -> WithMutex \cup {"out", "flush"}]
      /\ line \in [Writers -> Lines \cup {NoLine}]
  BY <1>0 DEF TypeOK, Lines
<1>1. wpc'[w] = "unlock" /\ line'[w] = NoLine
  BY <1>k
<1>c. /\ \A v \in Writers : wpc[v] \in WithMutex => v = w
      /\ \A v \in Writers : line[v] # NoLine <=> wpc[v] \in WithLine
      /\ wpc[w] \in WithLine /\ wpc[w] \in WithMutex /\ mtx_ = w /\ dpc = "no"
  BY <1>0 DEF Control, WithMutex, WithLine
<1>d. ASSUME NEW v \in Writers \ {w}
      PROVE  wpc'[v] = wpc[v] /\ line'[v] = line[v] /\ wpc[v] \notin WithMutex /\ line[v] = NoLine
  BY <1>k, <1>c DEF WithMutex
<1>2. PICK x \in Lines : line[w] = x
  BY <1>k, <1>c
<1>3. \A n \in Lines : (Buffered(n) <=> n = x) /\ ~Buffered(n)'
  BY <1>1, <1>2, <1>d, <1>k DEF Buffered
<1>4. x <= logged /\ ~Has(file, x) /\ ~Has(que_, x) /\ str # x
  BY <1>0, <1>2, <1>3 DEF Where
\* The two cases differ in which sequence takes the line.
<1>a. ASSUME NEW s \in Seq(Lines), ~Has(s, x), Once(s)
      PROVE  /\ Append(s, x) \in Seq(Lines) /\ Len(Append(s, x)) = Len(s) + 1 /\ Once(Append(s, x))
             /\ \A n \in Lines : Has(Append(s, x), n) <=> Has(s, n) \/ n = x
  BY <1>2, <1>a, Appended
<1>5. /\ que_' \in Seq(Lines) /\ file' \in Seq(Lines)
      /\ Once(que_') /\ Once(file')
      /\ Len(file') + Len(que_') = Len(file) + Len(que_) + 1
      /\ \A n \in Lines : Has(file', n) \/ Has(que_', n) <=> Has(file, n) \/ Has(que_, n) \/ n = x
      /\ \A n \in Lines : Has(file', n) /\ Has(que_', n) => Has(file, n) /\ Has(que_, n)
  <2>0. Once(que_) /\ Once(file) /\ Len(file) \in Nat /\ Len(que_) \in Nat
    BY <1>0, <1>k DEF Where
  <2>1. CASE que_' = Append(que_, x) /\ file' = file
    BY <1>4, <1>a, <1>k, <2>0, <2>1
  <2>2. CASE file' = Append(file, x) /\ que_' = que_
    BY <1>4, <1>a, <1>k, <2>0, <2>2
  <2>. QED  BY <1>2, <2>1, <2>2
<1>6. TypeOK'
  <2>1. wpc' \in [Writers -> WithMutex \cup {"out", "flush"}] /\ line' \in [Writers -> Lines \cup {NoLine}]
    BY <1>k DEF WithMutex
  <2>. QED  BY <1>0, <1>5, <2>1 DEF TypeOK
<1>7. Control'
  BY <1>0, <1>1, <1>c, <1>d DEF Control, WithMutex, WithLine
<1>8. Room' /\ Ending'
  BY <1>1, <1>c, <1>d DEF Room, Ending, Destroying, WithMutex, WithLine
<1>9. Where'
  <2>1. \A n \in Lines : /\ n <= logged <=> Has(file, n) \/ Has(que_, n) \/ str = n \/ n = x
                         /\ ~(Has(file, n) /\ Has(que_, n))
                         /\ str = n => ~Has(file, n) /\ ~Has(que_, n) /\ n # x
    BY <1>0, <1>3 DEF Where
  <2>2. \A n \in Lines :
          /\ n <= logged <=> Has(file', n) \/ Has(que_', n) \/ str = n
          /\ Has(file', n) => ~Has(que_', n) /\ str # n
          /\ Has(que_', n) => str # n
    BY <1>5, <2>1
  <2>3. \A n \in Lines : (Has(file, n)' <=> Has(file', n)) /\ (Has(que_, n)' <=> Has(que_', n))
    BY DEF Has
  <2>4. (Once(file)' <=> Once(file')) /\ (Once(que_)' <=> Once(que_'))
    BY DEF Once
  <2>5. \A n \in Lines :
          n <= logged' <=> Has(file, n)' \/ Has(que_, n)' \/ str' = n \/ Buffered(n)'
    BY <1>3, <2>2, <2>3
  <2>6. \A n \in Lines : /\ Has(file, n)' => ~Has(que_, n)' /\ str' # n /\ ~Buffered(n)'
                         /\ Has(que_, n)' => str' # n /\ ~Buffered(n)'
                         /\ str' = n => ~Buffered(n)'
    BY <1>3, <2>2, <2>3
  <2>. QED  BY <1>5, <2>4, <2>5, <2>6 DEF Where
<1>10. Count'
  <2>1. (\E v \in Writers : line[v] # NoLine) /\ ~\E v \in Writers : line'[v] # NoLine
    BY <1>1, <1>2, <1>d, <1>k
  <2>. DEFINE p == IF str # NoLine THEN 1 ELSE 0
  <2>3. Len(file) + Len(que_) + p + 1 = logged
    BY <1>0, <2>1 DEF Count
  <2>4. Len(file) \in Nat /\ Len(que_) \in Nat /\ Len(file') \in Nat /\ Len(que_') \in Nat
    BY <1>5, <1>k
  <2>5. Len(file') + Len(que_') = Len(file) + Len(que_) + 1
    BY <1>5
  <2>6. p \in {0, 1}
    OBVIOUS
  <2>7. Len(file') + Len(que_') + p + 0 = logged
    <3>. HIDE DEF p
    <3>. QED  BY <2>3, <2>4, <2>5, <2>6
  <2>8. str' = str /\ logged' = logged
    OBVIOUS
  <2>. QED  BY <2>1, <2>7, <2>8 DEF Count
<1>. QED  BY <1>6, <1>7, <1>8, <1>9, <1>10 DEF Inv

\* A notification reaches the flush thread or nobody: no writer sleeps.
LEMMA Notified ==
  ASSUME CallType, PushNeverWaits, NEW c, c = call \/ (\E t \in Callers : c = [call EXCEPT ![t] = "out"]),
         Que!ConsumerNotified(c) \/ Que!ProducerNotified(c)
  PROVE  CallType' /\ PushNeverWaits'
<1>. USE LoggerAssumption DEF CallType, PushNeverWaits, Callers
<1>1. c \in [Callers -> {"out", "pushAsleep", "popAsleep", "pushAwake", "popAwake"}]
      /\ \A w \in Writers : c[w] = "out"
  OBVIOUS
<1>2. \/ call' = c
      \/ \E u \in Callers, awake \in {"pushAwake", "popAwake"} :
           /\ call[u] # "out" /\ call' = [c EXCEPT ![u] = awake]
  BY DEF Que!ConsumerNotified, Que!ProducerNotified, Que!NotifyOne, Que!Waiting
<1>3. CASE call' = c
  BY <1>1, <1>3
<1>4. ASSUME NEW u \in Callers, NEW awake \in {"pushAwake", "popAwake"},
             call[u] # "out", call' = [c EXCEPT ![u] = awake]
      PROVE  CallType' /\ PushNeverWaits'
  <2>1. u \notin Writers
    BY <1>4
  <2>. QED  BY <1>1, <1>4, <2>1
<1>. QED  BY <1>2, <1>3, <1>4

LEMMA PushLineInv == ASSUME Inv, NEW w \in Writers, PushLine(w) PROVE Inv'
<1>. USE LoggerAssumption
<1>1. wpc[w] = "push" /\ ~Que!Full /\ call[w] = "out" /\ CallType /\ PushNeverWaits
  BY DEF PushLine, Inv, Room, PushNeverWaits, TypeOK, CallType
<1>2. /\ que_' = Append(que_, line[w]) /\ Que!ConsumerNotified([call EXCEPT ![w] = "out"])
      /\ wpc' = [wpc EXCEPT ![w] = "unlock"] /\ line' = [line EXCEPT ![w] = NoLine]
      /\ UNCHANGED <<mtx_, fpc, str, dpc, logged, file, flushed>>
  BY <1>1 DEF PushLine, Que!Push, WGo
<1>3. CallType' /\ PushNeverWaits'
  BY <1>1, <1>2, Notified DEF Callers
<1>. QED  BY <1>1, <1>2, <1>3, Hands DEF CallType

LEMMA WriteDirectInv == ASSUME Inv, NEW w \in Writers, WriteDirect(w) PROVE Inv'
<1>1. /\ wpc[w] = "direct" /\ file' = Append(file, line[w]) /\ UNCHANGED <<que_, call>>
      /\ wpc' = [wpc EXCEPT ![w] = "unlock"] /\ line' = [line EXCEPT ![w] = NoLine]
      /\ UNCHANGED <<mtx_, fpc, str, dpc, logged, flushed>>
  BY DEF WriteDirect, WGo, PutDirect, queVars
<1>2. call' \in [Callers -> {"out", "pushAsleep", "popAsleep", "pushAwake", "popAwake"}]
      /\ PushNeverWaits'
  BY <1>1 DEF Inv, TypeOK, PushNeverWaits
<1>. QED  BY <1>1, <1>2, Hands

LEMMA UnlockInv ==
  ASSUME Inv, NEW w \in Writers, Unlock(w) \/ FlushToFile(w) PROVE Inv'
<1>. USE LoggerAssumption
<1>1. PICK from \in {"unlock", "flush"}, to \in {"flush", "out"} :
        wpc[w] = from /\ wpc' = [wpc EXCEPT ![w] = to]
  BY DEF Unlock, FlushToFile, WGo
<1>2. /\ UNCHANGED <<que_, call, line, fpc, str, dpc, logged, file>>
      /\ mtx_' = mtx_ \/ wpc[w] = "unlock"
  BY DEF Unlock, FlushToFile, WGo, queVars
<1>k. TypeOK /\ Control /\ Room /\ PushNeverWaits /\ Ending /\ Where /\ Count
  BY DEF Inv
<1>3. wpc'[w] = to /\ \A v \in Writers \ {w} : wpc'[v] = wpc[v]
  BY <1>1, <1>k DEF TypeOK
<1>4. TypeOK'
  BY <1>1, <1>2, <1>k DEF TypeOK, WithMutex
<1>5. dpc = "no"
  BY <1>1, <1>k DEF Control
<1>6. \A v \in Writers : /\ wpc'[v] \in WithMutex => wpc[v] \in WithMutex /\ v # w
                         /\ wpc'[v] \in WithLine <=> wpc[v] \in WithLine
                         /\ wpc'[v] = "push" => wpc[v] = "push"
  BY <1>1, <1>3 DEF WithMutex, WithLine
<1>7. \A v \in Writers : wpc'[v] \in WithMutex => mtx_' = v
  <2>1. \A v \in Writers : wpc[v] \in WithMutex => mtx_ = v
    BY <1>k DEF Control
  <2>2. wpc[w] = "unlock" => mtx_ = w
    BY <2>1 DEF WithMutex
  <2>. QED  BY <1>2, <1>6, <2>1, <2>2
<1>8. Control' /\ Room' /\ PushNeverWaits' /\ Ending'
  <2>1. Control'
    BY <1>2, <1>5, <1>6, <1>7, <1>k DEF Control
  <2>2. Room' /\ PushNeverWaits'
    BY <1>2, <1>6, <1>k DEF Room, PushNeverWaits, Que!Full
  <2>3. Ending'
    BY <1>2, <1>5, <1>k DEF Ending, Destroying
  <2>. QED  BY <2>1, <2>2, <2>3
<1>. QED  BY <1>2, <1>4, <1>8, <1>k, Stay DEF Inv

\* The flush thread takes the front of the queue.
LEMMA PopInv == ASSUME Inv, Pop PROVE Inv'
<1>. USE LoggerAssumption
<1>k. TypeOK /\ Control /\ Room /\ PushNeverWaits /\ Ending /\ Where /\ Count
  BY DEF Inv
<1>t. /\ que_ \in Seq(Lines) /\ file \in Seq(Lines) /\ CallType /\ NoLine \notin Lines
      /\ Flusher \in Callers /\ Flusher \notin Writers
  BY <1>k DEF TypeOK, CallType, Callers, Lines
<1>1. fpc = "pop" /\ str = NoLine /\ UNCHANGED <<mtx_, wpc, line, dpc, logged, file, flushed>>
  BY <1>k DEF Pop, Control
<1>2. CASE Que!Pop(Flusher) /\ fpc' = "write" /\ str' = Head(que_)
  <2>1. que_ # <<>> /\ que_' = Tail(que_) /\ Que!ProducerNotified([call EXCEPT ![Flusher] = "out"])
    BY <1>2 DEF Que!Pop
  <2>2. CallType' /\ PushNeverWaits'
    BY <1>k, <1>t, <2>1, Notified
  <2>3. PICK x \in Lines : Head(que_) = x
    BY <1>t, <2>1, Taken
  <2>4. /\ que_' \in Seq(Lines) /\ Len(que_) = Len(que_') + 1
        /\ Len(que_) \in Nat /\ Len(que_') \in Nat
        /\ \A n \in Lines : Has(que_, n) <=> Has(que_', n) \/ n = x
        /\ Once(que_) => Once(que_') /\ ~Has(que_', x)
    BY <1>t, <2>1, <2>3, Taken
  <2>5. TypeOK'
    BY <1>1, <1>2, <1>k, <2>2, <2>3, <2>4 DEF TypeOK, CallType
  <2>6. Control'
    BY <1>1, <1>2, <1>k, <1>t, <2>3 DEF Control
  <2>7. Room'
    <3>1. \A w \in Writers : wpc[w] = "push" => ~(Len(que_) >= capacity_)
      BY <1>k DEF Room, Que!Full
    <3>. QED  BY <1>1, <2>4, <3>1 DEF Room, Que!Full
  <2>8. Ending'
    BY <1>1, <1>k, <2>1 DEF Ending, Destroying
  <2>9. Where'
    <3>1. \A n \in Lines : /\ n <= logged <=> Has(file, n) \/ Has(que_, n) \/ Buffered(n)
                           /\ Has(file, n) => ~Has(que_, n) /\ ~Buffered(n)
                           /\ Has(que_, n) => ~Buffered(n)
      BY <1>1, <1>k, <1>t DEF Where
    <3>2. \A n \in Lines : /\ Has(file, n)' <=> Has(file, n)
                           /\ Has(que_, n)' <=> Has(que_', n)
                           /\ Buffered(n)' <=> Buffered(n)
      BY <1>1 DEF Has, Buffered
    <3>3. Once(file)' /\ Once(que_)' /\ ~Has(que_', x)
      BY <1>1, <1>k, <2>4 DEF Where, Once
    <3>4. \A n \in Lines : str' = n <=> n = x
      BY <1>2, <2>3
    <3>5. \A n \in Lines :
            n <= logged' <=> Has(file, n)' \/ Has(que_, n)' \/ str' = n \/ Buffered(n)'
      BY <1>1, <2>4, <3>1, <3>2, <3>4
    <3>6. \A n \in Lines : /\ Has(file, n)' => ~Has(que_, n)' /\ str' # n /\ ~Buffered(n)'
                           /\ Has(que_, n)' => str' # n /\ ~Buffered(n)'
                           /\ str' = n => ~Buffered(n)'
      BY <2>4, <3>1, <3>2, <3>3, <3>4
    <3>. QED  BY <3>3, <3>5, <3>6 DEF Where
  <2>10. Count'
    <3>. DEFINE p == IF \E w \in Writers : line[w] # NoLine THEN 1 ELSE 0
    <3>1. Len(file) + Len(que_) + 0 + p = logged
      BY <1>1, <1>k DEF Count
    <3>2. Len(file) \in Nat /\ p \in {0, 1}
      BY <1>t
    <3>3. Len(file) + Len(que_') + 1 + p = logged
      <4>. HIDE DEF p
      <4>. QED  BY <2>4, <3>1, <3>2
    <3>4. str' # NoLine /\ UNCHANGED <<file, line, logged>>
      BY <1>1, <1>2, <1>t, <2>3
    <3>. QED  BY <3>3, <3>4 DEF Count
  <2>. QED  BY <2>2, <2>5, <2>6, <2>7, <2>8, <2>9, <2>10 DEF Inv
<1>3. CASE \/ Que!PopWait(Flusher) /\ UNCHANGED <<fpc, str>>
           \/ Que!PopFalse(Flusher) /\ fpc' = "exit" /\ UNCHANGED str
  <2>1. /\ que_' = que_ /\ str' = str /\ fpc' \in {"pop", "exit"}
        /\ \E c \in {"popAsleep", "out"} : call' = [call EXCEPT ![Flusher] = c]
    BY <1>1, <1>3 DEF Que!PopWait, Que!PopFalse
  <2>2. CallType' /\ PushNeverWaits'
    BY <1>k, <1>t, <2>1 DEF CallType, PushNeverWaits, Callers
  <2>3. TypeOK' /\ Control'
    BY <1>1, <1>k, <2>1, <2>2 DEF TypeOK, CallType, Control
  <2>4. Room' /\ Ending'
    BY <1>1, <1>k, <2>1 DEF Room, Ending, Que!Full
  <2>. QED  BY <1>1, <1>k, <2>1, <2>2, <2>3, <2>4, Stay DEF Inv
<1>. QED  BY <1>2, <1>3 DEF Pop

\* ... and writes it.
LEMMA PutPoppedInv == ASSUME Inv, PutPopped PROVE Inv'
<1>. USE LoggerAssumption
<1>k. TypeOK /\ Control /\ Room /\ PushNeverWaits /\ Ending /\ Where /\ Count
  BY DEF Inv
<1>t. que_ \in Seq(Lines) /\ file \in Seq(Lines) /\ NoLine \notin Lines
  BY <1>k DEF TypeOK, Lines
<1>1. /\ fpc = "write" /\ fpc' = "pop" /\ file' = Append(file, str) /\ str' = NoLine
      /\ UNCHANGED <<que_, call, mtx_, wpc, line, dpc, logged, flushed>>
  BY DEF PutPopped, queVars
<1>2. PICK x \in Lines : str = x
  BY <1>1, <1>k DEF TypeOK, Control
<1>3. ~Has(file, x)
  BY <1>2, <1>k DEF Where
<1>4. /\ file' \in Seq(Lines) /\ Len(file') = Len(file) + 1
      /\ \A n \in Lines : Has(file', n) <=> Has(file, n) \/ n = x
      /\ Once(file) => Once(file')
  BY <1>1, <1>2, <1>3, <1>t, Appended
<1>5. TypeOK'
  BY <1>1, <1>4, <1>k DEF TypeOK
<1>6. Control' /\ Room' /\ PushNeverWaits' /\ Ending'
  BY <1>1, <1>k DEF Control, Room, PushNeverWaits, Ending, Que!Full
<1>7. Where'
  <2>1. \A n \in Lines : /\ n <= logged <=> Has(file, n) \/ Has(que_, n) \/ n = x \/ Buffered(n)
                         /\ Has(file, n) => ~Has(que_, n) /\ ~Buffered(n)
                         /\ Has(que_, n) => x # n /\ ~Buffered(n)
                         /\ x = n => ~Buffered(n)
    BY <1>2, <1>k DEF Where
  <2>2. \A n \in Lines : /\ Has(file, n)' <=> Has(file', n)
                         /\ Has(que_, n)' <=> Has(que_, n)
                         /\ Buffered(n)' <=> Buffered(n)
                         /\ str' # n
    BY <1>1, <1>t DEF Has, Buffered
  <2>3. Once(file)' /\ Once(que_)'
    BY <1>1, <1>4, <1>k DEF Where, Once
  <2>4. \A n \in Lines :
          n <= logged' <=> Has(file, n)' \/ Has(que_, n)' \/ str' = n \/ Buffered(n)'
    BY <1>1, <1>4, <2>1, <2>2
  <2>5. \A n \in Lines : /\ Has(file, n)' => ~Has(que_, n)' /\ str' # n /\ ~Buffered(n)'
                         /\ Has(que_, n)' => str' # n /\ ~Buffered(n)'
                         /\ str' = n => ~Buffered(n)'
    BY <1>4, <2>1, <2>2
  <2>. QED  BY <2>3, <2>4, <2>5 DEF Where
<1>8. Count'
  <2>. DEFINE p == IF \E w \in Writers : line[w] # NoLine THEN 1 ELSE 0
  <2>1. Len(file) + Len(que_) + 1 + p = logged
    BY <1>2, <1>k, <1>t DEF Count
  <2>2. Len(file) \in Nat /\ Len(que_) \in Nat /\ p \in {0, 1}
    BY <1>t
  <2>3. Len(file') + Len(que_) + 0 + p = logged
    <3>. HIDE DEF p
    <3>. QED  BY <1>4, <2>1, <2>2
  <2>. QED  BY <1>1, <2>3 DEF Count
<1>. QED  BY <1>5, <1>6, <1>7, <1>8 DEF Inv

LEMMA WakeupInv == ASSUME Inv, SpuriousWakeup PROVE Inv'
<1>. USE LoggerAssumption
<1>k. TypeOK /\ Control /\ Room /\ PushNeverWaits /\ Ending /\ Where /\ Count
  BY DEF Inv
<1>1. PICK t \in Callers : Que!SpuriousWakeup(t)
  BY DEF SpuriousWakeup, Callers
<1>2. /\ call[t] # "out" /\ que_' = que_
      /\ \E c \in {"pushAwake", "popAwake"} : call' = [call EXCEPT ![t] = c]
  BY <1>1 DEF Que!SpuriousWakeup
<1>3. UNCHANGED <<mtx_, wpc, line, fpc, str, dpc, logged, file, flushed>>
  BY DEF SpuriousWakeup
<1>4. TypeOK' /\ PushNeverWaits'
  BY <1>2, <1>3, <1>k DEF TypeOK, PushNeverWaits, Callers
<1>5. Control' /\ Room' /\ Ending'
  BY <1>2, <1>3, <1>k DEF Control, Room, Ending, Que!Full
<1>. QED  BY <1>2, <1>3, <1>4, <1>5, <1>k, Stay DEF Inv

LEMMA DestructorInv == ASSUME Inv, Destructor PROVE Inv'
<1>. USE LoggerAssumption
<1>k. TypeOK /\ Control /\ Room /\ PushNeverWaits /\ Ending /\ Where /\ Count
  BY DEF Inv
\* Whatever the step, only the destructor, the sleepers and flushed change.
<1>a. ASSUME UNCHANGED <<que_, mtx_, wpc, line, fpc, str, logged, file>>,
             CallType', PushNeverWaits', dpc' \in {"drain"} \cup Destroying,
             \A w \in Writers : wpc[w] = "out",
             dpc' \in Destroying => que_ = <<>>, dpc' \in {"close", "gone"} => fpc = "exit",
             dpc' = "gone" => flushed' = Len(file)
      PROVE  Inv'
  <2>1. TypeOK'
    BY <1>a, <1>k DEF TypeOK, CallType
  <2>2. Control' /\ Room' /\ Ending'
    BY <1>a, <1>k DEF Control, Room, Ending, Que!Full
  <2>. QED  BY <1>a, <1>k, <2>1, <2>2, Stay DEF Inv
<1>b. CallType /\ (call' = call => CallType' /\ PushNeverWaits')
  BY <1>k DEF TypeOK, CallType, PushNeverWaits
<1>o. dpc # "no" => \A w \in Writers : wpc[w] = "out"
  BY <1>k DEF Control
<1>1. CASE DestructorBegins
  BY <1>1, <1>a, <1>b DEF DestructorBegins, DGo, queVars, Destroying
<1>2. CASE Drain
  <2>1. CASE Drained /\ DGo("drain", "destroy") /\ UNCHANGED <<queVars, flushed>>
    BY <1>a, <1>b, <1>o, <2>1 DEF Drained, DGo, queVars, Destroying
  <2>2. CASE DGo("drain", "drain") /\ Que!Flush /\ UNCHANGED flushed
    <3>1. Que!ConsumerNotified(call) /\ que_' = que_
      BY <2>2 DEF Que!Flush
    <3>2. CallType' /\ PushNeverWaits'
      BY <1>b, <1>k, <3>1, Notified
    <3>. QED  BY <1>a, <1>o, <2>2, <3>1, <3>2 DEF DGo, Destroying
  <2>. QED  BY <1>2, <2>1, <2>2 DEF Drain
<1>3. CASE DestroyQueue
  <2>1. /\ dpc = "destroy" /\ dpc' \in {"destroy", "join"} /\ flushed' = flushed
        /\ UNCHANGED <<mtx_, wpc, line, fpc, str, logged, file>>
        /\ Que!DestroyQueue \/ Que!NotifyProducers \/ Que!NotifyConsumers
    BY <1>3 DEF DestroyQueue, DGo
  <2>2. que_ = <<>>
    BY <1>k, <2>1 DEF Ending, Destroying
  <2>3. que_' = que_
    BY <2>1, <2>2 DEF Que!DestroyQueue, Que!NotifyProducers, Que!NotifyConsumers
  <2>4. \/ call' = call
        \/ \E asleep, awake \in {"pushAsleep", "pushAwake", "popAsleep", "popAwake"} :
             call' = [t \in Callers |-> IF call[t] = asleep THEN awake ELSE call[t]]
    BY <2>1 DEF Que!DestroyQueue, Que!NotifyProducers, Que!NotifyConsumers, Que!WakeAll, Callers
  <2>5. CallType' /\ PushNeverWaits'
    BY <1>b, <1>k, <2>4 DEF CallType, PushNeverWaits, Callers
  <2>. QED  BY <1>a, <1>o, <2>1, <2>2, <2>3, <2>5 DEF Destroying
<1>4. CASE Join
  BY <1>4, <1>a, <1>b, <1>k, <1>o DEF Join, DGo, queVars, Ending, Destroying
<1>5. CASE CloseFile
  BY <1>5, <1>a, <1>b, <1>k, <1>o DEF CloseFile, DGo, queVars, Ending, Destroying
<1>. QED  BY <1>1, <1>2, <1>3, <1>4, <1>5 DEF Destructor

LEMMA StutterInv == ASSUME Inv, UNCHANGED vars PROVE Inv'
BY Stay DEF vars, queVars, Inv, TypeOK, Control, Room, PushNeverWaits, Ending, Que!Full

LEMMA InvStep == ASSUME Inv, [Next]_vars PROVE Inv'
BY FormatInv, TestFullInv, PushLineInv, WriteDirectInv, UnlockInv, PopInv, PutPoppedInv,
   WakeupInv, DestructorInv, StutterInv DEF Next, WriteLog, AsyncWrite_

LEMMA Invariance == Spec => []Inv
<1>1. Inv /\ [Next]_vars => Inv'
  BY InvStep
<1>. QED  BY InitInv, <1>1, PTL DEF Spec

(***************************************************************************)
(* From the places of the lines to their number.                           *)
(***************************************************************************)
LEMMA OneElement == ASSUME NEW x PROVE Cardinality({x}) = 1
<1>1. IsFiniteSet({}) /\ Cardinality({}) = 0 /\ {} \cup {x} = {x} /\ x \notin {}
  BY FS_EmptySet
<1>. QED  BY <1>1, FS_AddElement

LEMMA HowOften ==
  ASSUME NEW s \in Seq(Lines), Once(s), NEW n \in Lines
  PROVE  Cardinality(Positions(s, n)) = IF Has(s, n) THEN 1 ELSE 0
<1>1. CASE ~Has(s, n)
  <2>1. Positions(s, n) = {}
    BY <1>1 DEF Positions, Has
  <2>. QED  BY <1>1, <2>1, FS_EmptySet
<1>2. CASE Has(s, n)
  <2>1. PICK i \in DOMAIN s : s[i] = n
    BY <1>2 DEF Has
  <2>2. Positions(s, n) = {i}
    BY <2>1 DEF Positions, Once
  <2>. QED  BY <1>2, <2>2, OneElement
<1>. QED  BY <1>1, <1>2

LEMMA PendingLines ==
  ASSUME TypeOK, Where
  PROVE  /\ Pending \in Seq(Lines) /\ Once(Pending)
         /\ \A n \in Lines : Has(Pending, n) <=> str = n \/ Has(que_, n)
<1>. USE LoggerAssumption
<1>k. que_ \in Seq(Lines) /\ str \in Lines \cup {NoLine} /\ NoLine \notin Lines /\ Once(que_)
  BY DEF TypeOK, Lines, Where
<1>1. CASE str = NoLine
  <2>1. Pending = que_
    BY <1>1, <1>k DEF Pending
  <2>. QED  BY <1>1, <1>k, <2>1
<1>2. CASE str # NoLine
  <2>0. PICK x \in Lines : str = x
    BY <1>2, <1>k
  <2>. DEFINE p == <<x>> \o que_
  <2>1. /\ p \in Seq(Lines) /\ DOMAIN p = 1..(Len(que_) + 1) /\ DOMAIN que_ = 1..Len(que_)
        /\ Len(que_) \in Nat /\ p[1] = x /\ \A i \in 1..Len(que_) : p[i + 1] = que_[i]
    BY <1>k
  <2>2. ~Has(que_, x)
    BY <2>0 DEF Where
  <2>. HIDE DEF p
  <2>3. \A i \in DOMAIN p : i = 1 \/ (i - 1 \in DOMAIN que_ /\ p[i] = que_[i - 1])
    BY <2>1
  <2>4. Once(p)
    <3>1. ASSUME NEW i \in DOMAIN p, NEW j \in DOMAIN p, p[i] = p[j] PROVE i = j
      <4>1. CASE i = 1 /\ j = 1
        BY <4>1
      <4>2. CASE i # 1 /\ j # 1
        <5>1. i - 1 = j - 1
          BY <1>k, <2>3, <3>1, <4>2 DEF Once
        <5>. QED  BY <2>1, <5>1
      <4>3. CASE (i = 1) # (j = 1)
        BY <2>1, <2>2, <2>3, <3>1, <4>3 DEF Has
      <4>. QED  BY <4>1, <4>2, <4>3
    <3>. QED  BY <3>1 DEF Once
  <2>5. ASSUME NEW n \in Lines PROVE Has(p, n) <=> x = n \/ Has(que_, n)
    <3>1. Has(p, n) => x = n \/ Has(que_, n)
      BY <2>1, <2>3 DEF Has
    <3>2. x = n => Has(p, n)
      BY <2>1 DEF Has
    <3>3. ASSUME NEW i \in DOMAIN que_, que_[i] = n PROVE Has(p, n)
      <4>1. i + 1 \in DOMAIN p /\ p[i + 1] = n
        BY <2>1, <3>3
      <4>. QED  BY <4>1 DEF Has
    <3>. QED  BY <3>1, <3>2, <3>3 DEF Has
  <2>6. Pending = p
    BY <1>2, <2>0 DEF Pending, p
  <2>. QED  BY <2>0, <2>1, <2>4, <2>5, <2>6
<1>. QED  BY <1>1, <1>2

\* A writer that has found a free place under mtx_ never waits in Push: with mtx_ held
\* while it waits, the flush thread could not write what it has popped, and nobody
\* could log.
THEOREM PushNeverWaitsCorrect == Spec => []PushNeverWaits
<1>1. Inv => PushNeverWaits
  BY DEF Inv
<1>. QED  BY Invariance, <1>1, PTL

\* Every line is in exactly one place and reaches the disk if the destructor returns,
\* whatever the writers, the flush thread and the destructor do.
THEOREM NothingLostCorrect == Spec => []NothingLost
<1>1. ASSUME Inv PROVE NothingLost
  <2>. USE LoggerAssumption
  <2>k. TypeOK /\ Control /\ Ending /\ Where /\ Count
    BY <1>1 DEF Inv
  <2>1. ASSUME NEW n \in 1..logged
        PROVE  Cardinality(Positions(file, n)) + Cardinality(Positions(Pending, n))
                 + Cardinality({w \in Writers : line[w] = n}) = 1
    <3>1. n \in Lines /\ n <= logged /\ n # NoLine /\ file \in Seq(Lines) /\ Once(file)
      BY <2>k DEF TypeOK, Lines, Where
    <3>2. /\ Cardinality(Positions(file, n)) = IF Has(file, n) THEN 1 ELSE 0
          /\ Cardinality(Positions(Pending, n)) = IF str = n \/ Has(que_, n) THEN 1 ELSE 0
      BY <2>k, <3>1, HowOften, PendingLines
    <3>3. Cardinality({w \in Writers : line[w] = n}) = IF Buffered(n) THEN 1 ELSE 0
      <4>1. CASE ~Buffered(n)
        <5>1. {w \in Writers : line[w] = n} = {}
          BY <4>1 DEF Buffered
        <5>. QED  BY <4>1, <5>1, FS_EmptySet
      <4>2. CASE Buffered(n)
        <5>1. PICK w \in Writers : line[w] = n
          BY <4>2 DEF Buffered
        <5>2. \A v \in Writers : line[v] = n => v = w
          BY <2>k, <3>1, <5>1 DEF Control, WithMutex
        <5>3. {v \in Writers : line[v] = n} = {w}
          BY <5>1, <5>2
        <5>. QED  BY <4>2, <5>3, OneElement
      <4>. QED  BY <4>1, <4>2
    <3>4. /\ Has(file, n) \/ Has(que_, n) \/ str = n \/ Buffered(n)
          /\ Has(file, n) => ~Has(que_, n) /\ str # n /\ ~Buffered(n)
          /\ Has(que_, n) \/ str = n => ~Buffered(n)
      BY <2>k, <3>1 DEF Where
    <3>. QED  BY <3>2, <3>3, <3>4
  <2>2. ASSUME dpc = "gone" PROVE flushed = logged
    <3>1. que_ = <<>> /\ str = NoLine /\ flushed = Len(file) /\ \A w \in Writers : line[w] = NoLine
      BY <2>2, <2>k DEF Ending, Control, Destroying, WithLine
    <3>2. Len(file) + 0 + 0 + 0 = logged /\ Len(file) \in Nat
      BY <2>k, <3>1, Empty DEF Count, TypeOK
    <3>. QED  BY <3>1, <3>2
  <2>. QED  BY <2>1, <2>2 DEF NothingLost
<1>. QED  BY Invariance, <1>1, PTL

(***************************************************************************)
(* The order of the lines.                                                 *)
(***************************************************************************)
Ascends(s)    == \A i, j \in DOMAIN s : i < j => s[i] < s[j]
Missing(s, i) == {n \in 1..s[i] : \A j \in 1..i : s[j] # n}
FewMissing(s) == \A i \in DOMAIN s : Cardinality(Missing(s, i)) <= capacity_ + 1

\* What is in buff_ is the newest line, what is with the flush thread is older than
\* what is in the queue.
Ordered ==
  /\ Ascends(que_) /\ Len(que_) <= capacity_
  /\ str # NoLine => \A n \in Lines : Has(que_, n) => str < n
  /\ \A w \in Writers : line[w] # NoLine => line[w] = logged
  /\ FewMissing(file)

LEMMA AscendsAppend ==
  ASSUME NEW s \in Seq(Lines), NEW x \in Lines, Ascends(s), \A n \in Lines : Has(s, n) => n < x
  PROVE  Ascends(Append(s, x))
<1>1. /\ DOMAIN s = 1..Len(s) /\ DOMAIN Append(s, x) = 1..(Len(s) + 1) /\ Len(s) \in Nat
      /\ \A i \in 1..Len(s) : Append(s, x)[i] = s[i] /\ s[i] \in Lines
      /\ Append(s, x)[Len(s) + 1] = x
  OBVIOUS
<1>2. \A i \in 1..Len(s) : s[i] < x
  BY <1>1 DEF Has
<1>3. ASSUME NEW i \in 1..(Len(s) + 1), NEW j \in 1..(Len(s) + 1), i < j
      PROVE  Append(s, x)[i] < Append(s, x)[j]
  <2>1. i \in 1..Len(s)
    BY <1>1, <1>3
  <2>2. CASE j = Len(s) + 1
    BY <1>1, <1>2, <2>1, <2>2
  <2>3. CASE j \in 1..Len(s)
    <3>1. s[i] < s[j]
      BY <1>1, <1>3, <2>1, <2>3 DEF Ascends
    <3>. QED  BY <1>1, <2>1, <2>3, <3>1
  <2>. QED  BY <1>1, <2>2, <2>3
<1>. QED  BY <1>1, <1>3 DEF Ascends

LEMMA AscendsTail ==
  ASSUME NEW s \in Seq(Lines), s # <<>>, Ascends(s)
  PROVE  Ascends(Tail(s)) /\ \A n \in Lines : Has(Tail(s), n) => Head(s) < n
<1>1. /\ Head(s) = s[1] /\ Len(s) \in Nat \ {0} /\ Len(Tail(s)) = Len(s) - 1
      /\ DOMAIN s = 1..Len(s) /\ DOMAIN Tail(s) = 1..(Len(s) - 1)
      /\ \A i \in 1..(Len(s) - 1) : Tail(s)[i] = s[i + 1]
  BY HeadTailProperties
<1>2. ASSUME NEW i \in 1..(Len(s) - 1), NEW j \in 1..(Len(s) - 1), i < j
      PROVE  Tail(s)[i] < Tail(s)[j]
  <2>1. i + 1 \in 1..Len(s) /\ j + 1 \in 1..Len(s) /\ i + 1 < j + 1
    BY <1>1, <1>2
  <2>2. s[i + 1] < s[j + 1]
    BY <1>1, <2>1 DEF Ascends
  <2>. QED  BY <1>1, <2>2
<1>3. ASSUME NEW i \in 1..(Len(s) - 1) PROVE Head(s) < Tail(s)[i]
  <2>1. 1 \in 1..Len(s) /\ i + 1 \in 1..Len(s) /\ 1 < i + 1
    BY <1>1
  <2>2. s[1] < s[i + 1]
    BY <1>1, <2>1 DEF Ascends
  <2>. QED  BY <1>1, <2>2
<1>. QED  BY <1>1, <1>2, <1>3 DEF Ascends, Has

\* The lines of a queue are at most as many as its places.
LEMMA HowMany ==
  ASSUME NEW s \in Seq(Lines)
  PROVE  LET T == {n \in Lines : Has(s, n)}
         IN  IsFiniteSet(T) /\ Cardinality(T) <= Len(s)
<1>. DEFINE T == {n \in Lines : Has(s, n)}
<1>1. Len(s) \in Nat /\ s \in [1..Len(s) -> Lines] /\ DOMAIN s = 1..Len(s)
  OBVIOUS
<1>2. s \in Surjection(1..Len(s), T)
  <2>1. s \in [1..Len(s) -> T]
    BY <1>1 DEF Has
  <2>2. \A n \in T : \E i \in 1..Len(s) : s[i] = n
    BY <1>1 DEF Has
  <2>. QED  BY <2>1, <2>2 DEF Surjection
<1>3. IsFiniteSet(1..Len(s)) /\ Cardinality(1..Len(s)) = Len(s)
  <2>1. /\ IsFiniteSet(1..Len(s))
        /\ Cardinality(1..Len(s)) = IF 1 > Len(s) THEN 0 ELSE Len(s) - 1 + 1
    BY <1>1, FS_Interval
  <2>. QED  BY <1>1, <2>1
<1>. QED  BY <1>2, <1>3, FS_Surjection

\* A new line of the file leaves what was written before as it was.
LEMMA FewMissingAppend ==
  ASSUME NEW s \in Seq(Lines), NEW x \in Lines, FewMissing(s),
         Cardinality({n \in 1..x : n # x /\ ~Has(s, n)}) <= capacity_ + 1
  PROVE  FewMissing(Append(s, x))
<1>. DEFINE t == Append(s, x)
<1>1. /\ DOMAIN s = 1..Len(s) /\ DOMAIN t = 1..(Len(s) + 1) /\ Len(s) \in Nat
      /\ \A i \in 1..Len(s) : t[i] = s[i]
      /\ t[Len(s) + 1] = x
  OBVIOUS
<1>. HIDE DEF t
<1>2. ASSUME NEW i \in 1..Len(s) PROVE Missing(t, i) = Missing(s, i)
  <2>1. \A j \in 1..i : j \in 1..Len(s)
    BY <1>1
  <2>. QED  BY <1>1, <2>1 DEF Missing
<1>3. Missing(t, Len(s) + 1) = {n \in 1..x : n # x /\ ~Has(s, n)}
  <2>1. \A j \in 1..(Len(s) + 1) : j \in 1..Len(s) \/ j = Len(s) + 1
    BY <1>1
  <2>2. Len(s) + 1 \in 1..(Len(s) + 1) /\ 1..Len(s) \subseteq 1..(Len(s) + 1)
    BY <1>1
  <2>3. ASSUME NEW n
        PROVE  (\A j \in 1..(Len(s) + 1) : t[j] # n) <=> n # x /\ ~Has(s, n)
    BY <1>1, <2>1, <2>2 DEF Has
  <2>. QED  BY <1>1, <2>3 DEF Missing
<1>4. ASSUME NEW i \in DOMAIN t PROVE Cardinality(Missing(t, i)) <= capacity_ + 1
  <2>1. CASE i \in 1..Len(s)
    BY <1>1, <1>2, <2>1 DEF FewMissing
  <2>2. CASE i = Len(s) + 1
    BY <1>3, <2>2
  <2>. QED  BY <1>1, <2>1, <2>2
<1>. QED  BY <1>4 DEF FewMissing, t

LEMMA OrderedInit == Init => Ordered
<1>. SUFFICES ASSUME Init PROVE Ordered
  OBVIOUS
<1>. QED
  BY LoggerAssumption DEF Init, Que!Init, Ordered, Ascends, FewMissing

LEMMA OrderedFormat == ASSUME Inv, Ordered, NEW w \in Writers, Format(w) PROVE Ordered'
<1>. USE LoggerAssumption
<1>1. /\ mtx_ = NoThread /\ logged' = logged + 1 /\ line' = [line EXCEPT ![w] = logged + 1]
      /\ UNCHANGED <<que_, str, file>>
  BY DEF Format, Free, queVars
<1>2. \A v \in Writers : line[v] = NoLine
  BY <1>1 DEF Inv, Control, WithMutex
<1>3. \A v \in Writers : line'[v] # NoLine => line'[v] = logged'
  BY <1>1, <1>2 DEF Inv, TypeOK
<1>. QED  BY <1>1, <1>3 DEF Ordered, Ascends, FewMissing, Missing, Has

\* The line of the writer is the newest one; the flush thread and the queue have others.
LEMMA NewestLine ==
  ASSUME Inv, Ordered, NEW w \in Writers, wpc[w] \in WithLine
  PROVE  /\ line[w] = logged /\ logged \in Lines
         /\ \A n \in Lines : Has(que_, n) \/ str = n => n < logged
         /\ \A n \in Lines : Buffered(n) => n = logged
<1>1. line[w] # NoLine /\ line[w] = logged /\ logged \in Lines /\ logged \in Nat
  BY LoggerAssumption DEF Inv, TypeOK, Control, Ordered, Lines
<1>2. Buffered(logged)
  BY <1>1 DEF Buffered
<1>3. \A n \in Lines : Has(que_, n) \/ str = n => n <= logged /\ n # logged
  BY <1>1, <1>2 DEF Inv, Where
<1>4. \A n \in Lines : Buffered(n) => n = logged
  BY LoggerAssumption DEF Buffered, Ordered, Lines
<1>. QED  BY <1>1, <1>3, <1>4 DEF Lines

LEMMA OrderedPush == ASSUME Inv, Ordered, NEW w \in Writers, PushLine(w) PROVE Ordered'
<1>1. wpc[w] = "push" /\ ~Que!Full
  BY DEF PushLine, Inv, Room
<1>2. /\ que_' = Append(que_, line[w]) /\ line' = [line EXCEPT ![w] = NoLine]
      /\ UNCHANGED <<str, logged, file>>
  BY <1>1 DEF PushLine, Que!Push
<1>3. /\ line[w] = logged /\ logged \in Lines
      /\ \A n \in Lines : Has(que_, n) \/ str = n => n < logged
  BY <1>1, NewestLine DEF WithLine
<1>4. que_ \in Seq(Lines) /\ line \in [Writers -> Lines \cup {NoLine}] /\ str \in Lines \cup {NoLine}
  BY DEF Inv, TypeOK
<1>5. Ascends(que_')
  BY <1>2, <1>3, <1>4, AscendsAppend DEF Ordered
<1>6. Len(que_') <= capacity_
  <2>1. ~(Len(que_) >= capacity_) /\ Len(que_) \in Nat /\ Len(que_') = Len(que_) + 1
    BY <1>1, <1>2, <1>4 DEF Que!Full
  <2>. QED  BY <2>1, LoggerAssumption
<1>7. ASSUME str # NoLine, NEW n \in Lines, Has(que_', n) PROVE str < n
  <2>1. Has(que_, n) \/ n = logged
    BY <1>2, <1>3, <1>4, <1>7, Appended
  <2>. QED  BY <1>3, <1>4, <1>7, <2>1 DEF Ordered
<1>8. \A v \in Writers : line'[v] # NoLine => line'[v] = logged
  BY <1>2, <1>4 DEF Ordered
<1>9. Ascends(que_)' /\ FewMissing(file)' /\ \A n : Has(que_, n)' <=> Has(que_', n)
  BY <1>2, <1>5 DEF Ordered, Ascends, FewMissing, Missing, Has
<1>. QED  BY <1>2, <1>6, <1>7, <1>8, <1>9 DEF Ordered

\* A line that is written directly overtakes what is in the queue and with the flush
\* thread.
LEMMA OrderedDirect == ASSUME Inv, Ordered, NEW w \in Writers, WriteDirect(w) PROVE Ordered'
<1>. USE LoggerAssumption
<1>1. /\ wpc[w] = "direct" /\ file' = Append(file, line[w])
      /\ line' = [line EXCEPT ![w] = NoLine] /\ UNCHANGED <<que_, str, logged>>
  BY DEF WriteDirect, WGo, PutDirect, queVars
<1>2. line[w] = logged /\ logged \in Lines /\ \A n \in Lines : Buffered(n) => n = logged
  BY <1>1, NewestLine DEF WithLine
<1>3. /\ que_ \in Seq(Lines) /\ file \in Seq(Lines) /\ line \in [Writers -> Lines \cup {NoLine}]
      /\ Len(que_) \in Nat /\ Len(que_) <= capacity_ /\ logged \in 0..MaxLines
  BY DEF Inv, TypeOK, Ordered
<1>. DEFINE T == {n \in Lines : Has(que_, n)}
            M == {n \in 1..logged : n # logged /\ ~Has(file, n)}
<1>4. M \subseteq T \cup {str}
  <2>1. \A n \in 1..logged : n \in Lines /\ n <= logged
    BY <1>2, <1>3 DEF Lines
  <2>2. \A n \in Lines : n <= logged => Has(file, n) \/ Has(que_, n) \/ str = n \/ n = logged
    BY <1>2 DEF Inv, Where
  <2>. QED  BY <2>1, <2>2
<1>5. IsFiniteSet(T) /\ Cardinality(T) <= Len(que_)
  BY <1>3, HowMany
<1>6. Cardinality(M) <= capacity_ + 1
  <2>. HIDE DEF T, M
  <2>1. IsFiniteSet(T \cup {str}) /\ Cardinality(T \cup {str}) <= Cardinality(T) + 1
    <3>1. /\ IsFiniteSet(T \cup {str}) /\ Cardinality(T) \in Nat
          /\ Cardinality(T \cup {str}) = IF str \in T THEN Cardinality(T) ELSE Cardinality(T) + 1
      BY <1>5, FS_AddElement, FS_CardinalityType
    <3>. QED  BY <3>1
  <2>2. /\ Cardinality(M) <= Cardinality(T \cup {str})
        /\ Cardinality(M) \in Nat /\ Cardinality(T) \in Nat /\ Cardinality(T \cup {str}) \in Nat
    BY <1>4, <1>5, <2>1, FS_Subset, FS_CardinalityType
  <2>. QED  BY <1>3, <1>5, <2>1, <2>2
<1>7. FewMissing(file')
  BY <1>1, <1>2, <1>3, <1>6, FewMissingAppend DEF Ordered
<1>8. \A v \in Writers : line'[v] # NoLine => line'[v] = logged
  BY <1>1, <1>3 DEF Ordered
<1>9. FewMissing(file)' /\ Ascends(que_)' /\ \A n : Has(que_, n)' <=> Has(que_, n)
  BY <1>1, <1>7 DEF Ordered, Ascends, FewMissing, Missing, Has
<1>. QED  BY <1>1, <1>8, <1>9 DEF Ordered

LEMMA OrderedPop == ASSUME Inv, Ordered, Pop PROVE Ordered'
<1>1. UNCHANGED <<line, logged, file>> /\ que_ \in Seq(Lines)
  BY DEF Pop, Inv, TypeOK
<1>2. CASE Que!Pop(Flusher) /\ str' = Head(que_)
  <2>1. que_ # <<>> /\ que_' = Tail(que_)
    BY <1>2 DEF Que!Pop
  <2>2. Ascends(que_') /\ \A n \in Lines : Has(que_', n) => str' < n
    BY <1>1, <1>2, <2>1, AscendsTail DEF Ordered
  <2>3. Len(que_') <= capacity_
    <3>1. Len(que_) = Len(que_') + 1 /\ Len(que_) \in Nat /\ Len(que_') \in Nat
      BY <1>1, <2>1, Taken
    <3>. QED  BY <3>1, LoggerAssumption DEF Ordered
  <2>4. Ascends(que_)' /\ FewMissing(file)' /\ \A n : Has(que_, n)' <=> Has(que_', n)
    BY <1>1, <2>2 DEF Ordered, Ascends, FewMissing, Missing, Has
  <2>. QED  BY <1>1, <2>2, <2>3, <2>4 DEF Ordered
<1>3. CASE UNCHANGED <<que_, str>>
  BY <1>1, <1>3 DEF Ordered, Ascends, FewMissing, Missing, Has
<1>. QED  BY <1>2, <1>3 DEF Pop, Que!PopWait, Que!PopFalse

\* A line from the queue is written when everything older is.
LEMMA OrderedPut == ASSUME Inv, Ordered, PutPopped PROVE Ordered'
<1>. USE LoggerAssumption
<1>1. /\ fpc = "write" /\ mtx_ = NoThread /\ file' = Append(file, str) /\ str' = NoLine
      /\ UNCHANGED <<que_, line, logged>>
  BY DEF PutPopped, Free, queVars
<1>2. str \in Lines /\ str # NoLine /\ file \in Seq(Lines) /\ logged \in 0..MaxLines
  BY <1>1 DEF Inv, TypeOK, Control
<1>3. \A n \in Lines : ~Buffered(n)
  BY <1>1 DEF Inv, Control, Buffered, WithMutex, Lines
<1>4. str <= logged
  BY <1>2 DEF Inv, Where
<1>5. ASSUME NEW n \in 1..str, n # str, ~Has(file, n) PROVE FALSE
  <2>1. n \in Lines /\ n <= logged /\ n < str
    BY <1>2, <1>4, <1>5 DEF Lines
  <2>2. Has(que_, n)
    BY <1>3, <1>5, <2>1 DEF Inv, Where
  <2>3. str < n
    BY <1>2, <2>1, <2>2 DEF Ordered
  <2>. QED  BY <1>2, <2>1, <2>3 DEF Lines
<1>6. Cardinality({n \in 1..str : n # str /\ ~Has(file, n)}) <= capacity_ + 1
  <2>1. {n \in 1..str : n # str /\ ~Has(file, n)} = {}
    BY <1>5
  <2>2. Cardinality({}) = 0 /\ 0 <= capacity_ + 1
    BY FS_EmptySet
  <2>. QED  BY <2>1, <2>2
<1>7. FewMissing(file')
  BY <1>1, <1>2, <1>6, FewMissingAppend DEF Ordered
<1>8. FewMissing(file)' /\ Ascends(que_)'
  BY <1>1, <1>7 DEF Ordered, Ascends, FewMissing, Missing
<1>. QED  BY <1>1, <1>8 DEF Ordered

LEMMA OrderedStep == ASSUME Inv, Ordered, [Next]_vars PROVE Ordered'
<1>1. ASSUME UNCHANGED <<que_, str, line, logged, file>> PROVE Ordered'
  BY <1>1 DEF Ordered, Ascends, FewMissing, Missing, Has
<1>2. ASSUME NEW w \in Writers, TestFull(w) \/ Unlock(w) \/ FlushToFile(w) PROVE Ordered'
  BY <1>1, <1>2 DEF TestFull, Unlock, FlushToFile, WGo, queVars
<1>3. CASE SpuriousWakeup
  BY <1>1, <1>3 DEF SpuriousWakeup, Que!SpuriousWakeup
<1>4. CASE Destructor
  <2>1. UNCHANGED <<str, line, logged, file>>
    BY <1>4 DEF Destructor, DestructorBegins, Drain, DestroyQueue, Join, CloseFile, DGo
  <2>2. CASE DestroyQueue
    <3>1. dpc = "destroy"
      BY <2>2 DEF DestroyQueue, DGo
    <3>2. que_ = <<>>
      BY <3>1 DEF Inv, Ending, Destroying
    <3>3. que_' = que_
      BY <2>2, <3>2 DEF DestroyQueue, Que!DestroyQueue, Que!NotifyProducers, Que!NotifyConsumers
    <3>. QED  BY <1>1, <2>1, <3>3
  <2>3. CASE DestructorBegins \/ Drain \/ Join \/ CloseFile
    <3>1. que_' = que_
      BY <2>3 DEF DestructorBegins, Drain, Join, CloseFile, Que!Flush, queVars
    <3>. QED  BY <1>1, <2>1, <3>1
  <2>. QED  BY <1>4, <2>2, <2>3 DEF Destructor
<1>5. CASE UNCHANGED vars
  BY <1>1, <1>5 DEF vars, queVars
<1>. QED
  BY <1>2, <1>3, <1>4, <1>5, OrderedFormat, OrderedPush, OrderedDirect, OrderedPop, OrderedPut
  DEF Next, WriteLog, AsyncWrite_

\* What waits is written in the order of the time stamps, and a line of the file has at
\* most a queue of older lines and one more behind it, for any number of writers.
THEOREM OvertakesFewCorrect == Spec => []OvertakesFew
<1>1. ASSUME Inv, Ordered PROVE OvertakesFew
  <2>1. que_ \in Seq(Lines) /\ str \in Lines \cup {NoLine} /\ NoLine \notin Lines
    BY <1>1, LoggerAssumption DEF Inv, TypeOK, Lines
  <2>2. Ascends(Pending)
    <3>1. CASE str = NoLine
      BY <1>1, <2>1, <3>1 DEF Ordered, Pending
    <3>2. CASE str # NoLine
      <4>0. PICK x \in Lines : str = x
        BY <2>1, <3>2
      <4>. DEFINE p == <<x>> \o que_
      <4>1. /\ DOMAIN p = 1..(Len(que_) + 1) /\ DOMAIN que_ = 1..Len(que_)
            /\ Len(que_) \in Nat /\ p[1] = x /\ \A i \in 1..Len(que_) : p[i + 1] = que_[i]
            /\ \A i \in 1..Len(que_) : que_[i] \in Lines
        BY <2>1
      <4>. HIDE DEF p
      <4>2. \A i \in 1..Len(que_) : x < que_[i]
        BY <1>1, <3>2, <4>0, <4>1 DEF Ordered, Has
      <4>3. \A i \in DOMAIN p : i = 1 \/ (i - 1 \in 1..Len(que_) /\ p[i] = que_[i - 1])
        BY <4>1
      <4>4. ASSUME NEW i \in DOMAIN p, NEW j \in DOMAIN p, i < j PROVE p[i] < p[j]
        <5>1. j - 1 \in 1..Len(que_) /\ p[j] = que_[j - 1]
          BY <4>1, <4>3, <4>4
        <5>2. CASE i = 1
          BY <4>1, <4>2, <5>1, <5>2
        <5>3. CASE i # 1
          <6>1. i - 1 \in 1..Len(que_) /\ p[i] = que_[i - 1] /\ i - 1 < j - 1
            BY <4>1, <4>3, <4>4, <5>3
          <6>. QED  BY <1>1, <4>1, <5>1, <6>1 DEF Ordered, Ascends
        <5>. QED  BY <5>2, <5>3
      <4>5. Pending = p
        BY <3>2, <4>0 DEF Pending, p
      <4>. QED  BY <4>4, <4>5 DEF Ascends
    <3>. QED  BY <3>1, <3>2
  <2>. QED  BY <1>1, <2>2 DEF Ordered, OvertakesFew, Ascends, FewMissing, Missing
<1>2. Inv /\ Ordered /\ [Next]_vars => Ordered'
  BY OrderedStep
<1>. QED  BY OrderedInit, Invariance, <1>1, <1>2, PTL DEF Spec
=============================================================================
