-------------------------- MODULE HttpExchange_proofs --------------------------
(***************************************************************************)
(* Proofs about the buffer, the parser, the responses and the requests of  *)
(* a connection, for buffers of any size, any site, any scripts and any    *)
(* cuts.                                                                   *)
(***************************************************************************)
EXTENDS HttpExchange, FiniteSetTheorems, NaturalsInduction, WellFoundedInduction,
        SequenceTheorems, TLAPS

(***************************************************************************)
(* Induction, without an operator as a parameter: over a set of numbers.   *)
(***************************************************************************)
LEMMA Minimum ==
  ASSUME NEW T \in SUBSET Nat, T # {}
  PROVE  \E m \in T : \A n \in T : m <= n
<1>1. IsWellFoundedOn(OpToRel(<, Nat), Nat)
  BY NatLessThanWellFounded
<1>2. PICK m \in T : \A n \in T : ~ (<<n, m>> \in OpToRel(<, Nat))
  BY <1>1, WFMin
<1>3. \A n \in T : ~(n < m)
  BY <1>2 DEF OpToRel
<1>. QED  BY <1>3

LEMMA Induction ==
  ASSUME NEW I, 0 \in I, \A n \in Nat : n \in I => n + 1 \in I
  PROVE  \A n \in Nat : n \in I
<1>1. ASSUME Nat \ I # {} PROVE FALSE
  <2>1. PICK m \in Nat \ I : \A n \in Nat \ I : m <= n
    BY <1>1, Minimum
  <2>2. m # 0 /\ m - 1 \in Nat /\ m - 1 < m
    BY <2>1
  <2>3. m - 1 \in I
    BY <2>1, <2>2
  <2>4. m = (m - 1) + 1
    BY <2>1
  <2>. QED  BY <2>1, <2>2, <2>3, <2>4
<1>. QED  BY <1>1

LEMMA FirstOf ==
  ASSUME NEW T \in SUBSET Nat, T # {} PROVE Min(T) \in T /\ \A n \in T : Min(T) <= n
<1>1. \E m \in T : \A n \in T : m <= n
  BY Minimum, Zenon
<1>. QED  BY <1>1 DEF Min

LEMMA Slice ==
  ASSUME NEW S, NEW s \in Seq(S), NEW m \in Nat, NEW n \in Nat, m <= n, n <= Len(s)
  PROVE  /\ SubSeq(s, m + 1, n) \in Seq(S)
         /\ Len(SubSeq(s, m + 1, n)) = n - m
         /\ \A i \in 1..(n - m) : SubSeq(s, m + 1, n)[i] = s[m + i]
  OBVIOUS

LEMMA SameSeq ==
  ASSUME NEW S, NEW s \in Seq(S), NEW t \in Seq(S), Len(s) = Len(t),
         \A i \in 1..Len(s) : s[i] = t[i]
  PROVE  s = t
  OBVIOUS

-----------------------------------------------------------------------------
(***************************************************************************)
(* StringBuffer.                                                           *)
(***************************************************************************)
\* A buffer over the symbols S: its positions are in order and within the vector.
Buffer(b, S) ==
  /\ b = [cells |-> b.cells, read |-> b.read, write |-> b.write]
  /\ b.cells \in Seq(S) /\ b.read \in Nat /\ b.write \in Nat
  /\ b.read <= b.write /\ b.write <= Len(b.cells)

\* Readable, cell by cell.
LEMMA Content ==
  ASSUME NEW S, NEW b, Buffer(b, S)
  PROVE  /\ Readable(b) \in Seq(S) /\ Len(Readable(b)) = b.write - b.read
         /\ Len(b.cells) \in Nat
         /\ \A i \in 1..(b.write - b.read) : Readable(b)[i] = b.cells[b.read + i]
  BY Slice DEF Buffer, Readable

LEMMA ZerosType ==
  ASSUME NEW S, Nul \in S, NEW n \in Nat
  PROVE  Zeros(n) \in Seq(S) /\ Len(Zeros(n)) = n
  BY DEF Zeros

LEMMA EmptyBuffers ==
  ASSUME NEW S, Nul \in S, NEW b, Buffer(b, S)
  PROVE  /\ Buffer(NewBuffer, S) /\ Readable(NewBuffer) = <<>>
         /\ Buffer(RetrieveAll(b), S) /\ Readable(RetrieveAll(b)) = <<>>
<1>1. Len(b.cells) \in Nat /\ InitSize \in Nat
  BY BufferAssumption DEF Buffer
<1>2. \A n \in Nat : Zeros(n) \in Seq(S) /\ Len(Zeros(n)) = n
  BY ZerosType
<1>3. Buffer(NewBuffer, S) /\ Buffer(RetrieveAll(b), S)
  BY <1>1, <1>2 DEF Buffer, NewBuffer, RetrieveAll
<1>4. Len(Readable(NewBuffer)) = 0 /\ Len(Readable(RetrieveAll(b))) = 0
  BY <1>3, Content DEF NewBuffer, RetrieveAll
<1>. QED  BY <1>3, <1>4, Content

\* Retrieve drops from the front of what is readable.
LEMMA Retrieved ==
  ASSUME NEW S, NEW b, Buffer(b, S), NEW r \in b.read..b.write
  PROVE  LET u == [b EXCEPT !.read = r] IN
         /\ Buffer(u, S) /\ u = [cells |-> b.cells, read |-> r, write |-> b.write]
         /\ Readable(u) = SubSeq(Readable(b), r - b.read + 1, Len(Readable(b)))
<1>. DEFINE u == [b EXCEPT !.read = r]
            s == SubSeq(Readable(b), r - b.read + 1, Len(Readable(b)))
<1>1. u = [cells |-> b.cells, read |-> r, write |-> b.write]
  BY DEF Buffer
<1>. HIDE DEF u
<1>2. Buffer(u, S)
  BY <1>1 DEF Buffer
<1>3. /\ Readable(u) \in Seq(S) /\ Len(Readable(u)) = b.write - r
      /\ \A i \in 1..(b.write - r) : Readable(u)[i] = b.cells[r + i]
  BY <1>1, <1>2, Content
<1>4. /\ b.read \in Nat /\ b.write \in Nat /\ r \in Nat /\ r - b.read \in Nat
      /\ r - b.read <= b.write - b.read /\ b.write - b.read \in Nat
  BY DEF Buffer
<1>5. /\ Readable(b) \in Seq(S) /\ Len(Readable(b)) = b.write - b.read
      /\ \A i \in 1..(b.write - b.read) : Readable(b)[i] = b.cells[b.read + i]
  BY Content
<1>6. /\ s \in Seq(S) /\ Len(s) = b.write - r
      /\ \A i \in 1..(b.write - r) : s[i] = Readable(b)[r - b.read + i]
  <2>. DEFINE t == Readable(b)
              k == r - b.read
              n == Len(t)
  <2>1. t \in Seq(S) /\ k \in Nat /\ n \in Nat /\ k <= n /\ n <= Len(t) /\ n - k = b.write - r
    BY <1>4, <1>5
  <2>2. s = SubSeq(t, k + 1, n)
    OBVIOUS
  <2>. HIDE DEF s, t, k, n
  <2>3. /\ s \in Seq(S) /\ Len(s) = n - k
        /\ \A i \in 1..(n - k) : s[i] = t[k + i]
    BY <2>1, <2>2, Slice
  <2>. QED  BY <2>1, <2>3 DEF t, k
<1>. HIDE DEF s
<1>7. ASSUME NEW i \in 1..(b.write - r) PROVE Readable(u)[i] = s[i]
  <2>1. /\ r - b.read + i \in 1..(b.write - b.read) /\ b.read + (r - b.read + i) = r + i
    BY <1>4
  <2>. QED  BY <1>3, <1>5, <1>6, <2>1
<1>8. Readable(u) = s
  BY <1>3, <1>6, <1>7, SameSeq
<1>. QED  BY <1>1, <1>2, <1>8 DEF u, s

\* Neither way of making room changes what is readable.
LEMMA ResizedKeeps ==
  ASSUME NEW S, Nul \in S, NEW b, Buffer(b, S), NEW n \in Nat, Len(b.cells) <= n
  PROVE  LET u == Resized(b, n) IN
         Buffer(u, S) /\ Readable(u) = Readable(b) /\ u.write = b.write /\ Len(u.cells) = n
<1>. DEFINE u == Resized(b, n)
            z == Zeros(n - Len(b.cells))
<1>1. Len(b.cells) \in Nat /\ n - Len(b.cells) \in Nat
  BY DEF Buffer
<1>2. z \in Seq(S) /\ Len(z) = n - Len(b.cells)
  BY <1>1, ZerosType
<1>3. u = [cells |-> b.cells \o z, read |-> b.read, write |-> b.write]
  <2>1. u = [b EXCEPT !.cells = b.cells \o z]
    BY Zenon DEF Resized
  <2>. HIDE DEF u, z
  <2>. QED  BY <2>1 DEF Buffer
<1>. HIDE DEF u, z
<1>4. /\ b.cells \o z \in Seq(S) /\ Len(b.cells \o z) = n
      /\ \A i \in 1..Len(b.cells) : (b.cells \o z)[i] = b.cells[i]
  BY <1>1, <1>2 DEF Buffer
<1>5. Buffer(u, S)
  BY <1>1, <1>3, <1>4 DEF Buffer
<1>6. \A i \in 1..(b.write - b.read) : b.read + i \in 1..Len(b.cells)
  BY <1>1 DEF Buffer
<1>7. Readable(u) = Readable(b)
  <2>1. /\ Readable(u) \in Seq(S) /\ Len(Readable(u)) = b.write - b.read
        /\ \A i \in 1..(b.write - b.read) : Readable(u)[i] = (b.cells \o z)[b.read + i]
    <3>. DEFINE v == b.cells \o z
    <3>1. u.cells = v /\ u.read = b.read /\ u.write = b.write
      BY <1>3
    <3>2. /\ Readable(u) \in Seq(S) /\ Len(Readable(u)) = u.write - u.read
          /\ \A i \in 1..(u.write - u.read) : Readable(u)[i] = u.cells[u.read + i]
      BY <1>5, Content
    <3>. HIDE DEF v
    <3>. QED  BY <3>1, <3>2 DEF v
  <2>2. /\ Readable(b) \in Seq(S) /\ Len(Readable(b)) = b.write - b.read
        /\ \A i \in 1..(b.write - b.read) : Readable(b)[i] = b.cells[b.read + i]
    BY Content
  <2>. QED  BY <1>4, <1>6, <2>1, <2>2, SameSeq
<1>. QED  BY <1>3, <1>4, <1>5, <1>7 DEF u

LEMMA CopiedThere ==
  ASSUME NEW S, NEW cells \in Seq(S), NEW data \in Seq(S), NEW at \in Nat,
         at + Len(data) <= Len(cells)
  PROVE  LET c == Copied(cells, data, at) IN
         /\ c \in Seq(S) /\ Len(c) = Len(cells)
         /\ \A i \in 1..at : c[i] = cells[i]
         /\ \A i \in 1..Len(data) : c[at + i] = data[i]
<1>. DEFINE c == Copied(cells, data, at)
<1>1. c = [i \in 1..Len(cells) |-> IF i - at \in 1..Len(data) THEN data[i - at] ELSE cells[i]]
  BY DEF Copied
<1>. HIDE DEF c
<1>2. ASSUME NEW i \in 1..Len(cells) PROVE c[i] \in S
  BY <1>1
<1>3. c \in Seq(S) /\ Len(c) = Len(cells)
  BY <1>1, <1>2
<1>4. ASSUME NEW i \in 1..at PROVE c[i] = cells[i]
  <2>1. i \in 1..Len(cells) /\ i - at \notin 1..Len(data)
    OBVIOUS
  <2>. QED  BY <1>1, <2>1
<1>5. ASSUME NEW i \in 1..Len(data) PROVE c[at + i] = data[i]
  <2>1. at + i \in 1..Len(cells) /\ (at + i) - at = i
    OBVIOUS
  <2>. QED  BY <1>1, <2>1
<1>. QED  BY <1>3, <1>4, <1>5 DEF c

LEMMA CompactedKeeps ==
  ASSUME NEW S, NEW b, Buffer(b, S)
  PROVE  LET u == Compacted(b) IN
         /\ Buffer(u, S) /\ Readable(u) = Readable(b)
         /\ u.write = b.write - b.read /\ Len(u.cells) = Len(b.cells)
<1>. DEFINE u == Compacted(b)
            c == Copied(b.cells, Readable(b), 0)
            n == b.write - b.read
<1>1. /\ n \in Nat /\ n <= Len(b.cells) /\ Len(b.cells) \in Nat
      /\ Readable(b) \in Seq(S) /\ Len(Readable(b)) = n
  BY Content DEF Buffer
<1>2. u = [cells |-> c, read |-> 0, write |-> n]
  BY DEF Compacted, ReadableBytes
<1>3. /\ c \in Seq(S) /\ Len(c) = Len(b.cells)
      /\ \A i \in 1..n : c[i] = Readable(b)[i]
  <2>1. b.cells \in Seq(S)
    BY DEF Buffer
  <2>2. \A i \in 1..n : 0 + i = i
    BY <1>1
  <2>. HIDE DEF n
  <2>. QED  BY <1>1, <2>1, <2>2, CopiedThere, SMTT(30)
<1>. HIDE DEF u, c, n
<1>4. Buffer(u, S)
  BY <1>1, <1>2, <1>3 DEF Buffer
<1>5. /\ Readable(u) \in Seq(S) /\ Len(Readable(u)) = n
      /\ \A i \in 1..n : Readable(u)[i] = c[i]
  <2>1. n - 0 = n /\ \A i \in 1..n : 0 + i = i
    BY <1>1
  <2>. QED  BY <1>2, <1>4, <2>1, Content
<1>6. Readable(u) = Readable(b)
  BY <1>1, <1>3, <1>5, SameSeq
<1>. QED  BY <1>2, <1>3, <1>4, <1>6 DEF u, n

\* The assertion of EnsureWritable: there is room afterwards, and nothing is lost.
LEMMA Ensured ==
  ASSUME NEW S, Nul \in S, NEW b, Buffer(b, S), NEW len \in Nat
  PROVE  LET u == EnsureWritable(b, len) IN
         Buffer(u, S) /\ Readable(u) = Readable(b) /\ PostWritableBytes(u) >= len
<1>1. b.read \in Nat /\ b.write \in Nat /\ Len(b.cells) \in Nat /\ b.read <= b.write
  BY DEF Buffer
<1>2. CASE ~(PostWritableBytes(b) < len)
  BY <1>1, <1>2 DEF EnsureWritable, PostWritableBytes
<1>3. CASE PostWritableBytes(b) < len /\ PreWritableBytes(b) + PostWritableBytes(b) < len
  <2>1. EnsureWritable(b, len) = Resized(b, b.write + len + 1)
    BY <1>3 DEF EnsureWritable, ManageSpace_
  <2>2. b.write + len + 1 \in Nat /\ Len(b.cells) <= b.write + len + 1
    BY <1>1, <1>3 DEF PostWritableBytes
  <2>. QED  BY <1>1, <2>1, <2>2, ResizedKeeps DEF PostWritableBytes
<1>4. CASE PostWritableBytes(b) < len /\ ~(PreWritableBytes(b) + PostWritableBytes(b) < len)
  <2>1. EnsureWritable(b, len) = Compacted(b)
    BY <1>4 DEF EnsureWritable, ManageSpace_
  <2>. DEFINE u == Compacted(b)
  <2>2. /\ Buffer(u, S) /\ Readable(u) = Readable(b)
        /\ u.write = b.write - b.read /\ Len(u.cells) = Len(b.cells)
    BY CompactedKeeps
  <2>. HIDE DEF u
  <2>3. PostWritableBytes(u) >= len
    BY <1>1, <1>4, <2>2 DEF PostWritableBytes, PreWritableBytes
  <2>. QED  BY <2>1, <2>2, <2>3 DEF u
<1>. QED  BY <1>2, <1>3, <1>4

\* What fits is written behind what is readable.
LEMMA WrittenBehind ==
  ASSUME NEW S, NEW b, Buffer(b, S), NEW data \in Seq(S), Len(data) <= PostWritableBytes(b)
  PROVE  Buffer(Written(b, data), S) /\ Readable(Written(b, data)) = Readable(b) \o data
<1>. DEFINE u == Written(b, data)
            c == Copied(b.cells, data, b.write)
            n == b.write - b.read
            d == Len(data)
<1>1. /\ b.read \in Nat /\ b.write \in Nat /\ n \in Nat /\ d \in Nat /\ Len(b.cells) \in Nat
      /\ b.write + d <= Len(b.cells) /\ b.cells \in Seq(S) /\ b.read + n = b.write
  BY DEF Buffer, PostWritableBytes
<1>2. u = [cells |-> c, read |-> b.read, write |-> b.write + d]
  <2>1. u = [b EXCEPT !.cells = c, !.write = b.write + d]
    BY Zenon DEF Written
  <2>. HIDE DEF u, c, d
  <2>. QED  BY <2>1 DEF Buffer
<1>. HIDE DEF n, d
<1>3. /\ c \in Seq(S) /\ Len(c) = Len(b.cells)
      /\ \A i \in 1..b.write : c[i] = b.cells[i]
      /\ \A i \in 1..d : c[b.write + i] = data[i]
  <2>. DEFINE cells == b.cells
              at == b.write
  <2>1. at + Len(data) <= Len(cells) /\ at \in Nat /\ cells \in Seq(S)
    BY <1>1 DEF d
  <2>. HIDE DEF cells, at
  <2>2. /\ Copied(cells, data, at) \in Seq(S) /\ Len(Copied(cells, data, at)) = Len(cells)
        /\ \A i \in 1..at : Copied(cells, data, at)[i] = cells[i]
        /\ \A i \in 1..Len(data) : Copied(cells, data, at)[at + i] = data[i]
    BY <2>1, CopiedThere
  <2>. QED  BY <2>2 DEF d, cells, at
<1>. HIDE DEF u, c
<1>4. Buffer(u, S)
  BY <1>1, <1>2, <1>3 DEF Buffer
<1>5. /\ Readable(u) \in Seq(S) /\ Len(Readable(u)) = n + d
      /\ \A i \in 1..(n + d) : Readable(u)[i] = c[b.read + i]
  <2>1. u.cells = c /\ u.read = b.read /\ u.write - u.read = n + d
    BY <1>1, <1>2
  <2>2. /\ Readable(u) \in Seq(S) /\ Len(Readable(u)) = u.write - u.read
        /\ \A i \in 1..(u.write - u.read) : Readable(u)[i] = u.cells[u.read + i]
    BY <1>4, Content
  <2>. QED  BY <2>1, <2>2
<1>6. /\ Readable(b) \in Seq(S) /\ Len(Readable(b)) = n
      /\ \A i \in 1..n : Readable(b)[i] = b.cells[b.read + i]
  BY Content DEF n
<1>7. /\ Readable(b) \o data \in Seq(S) /\ Len(Readable(b) \o data) = n + d
      /\ \A i \in 1..(n + d) :
           (Readable(b) \o data)[i] = IF i <= n THEN Readable(b)[i] ELSE data[i - n]
  BY <1>6, ConcatProperties DEF d
<1>8. ASSUME NEW i \in 1..(n + d) PROVE Readable(u)[i] = (Readable(b) \o data)[i]
  <2>1. CASE i <= n
    <3>1. i \in 1..n /\ b.read + i \in 1..b.write
      BY <1>1, <2>1
    <3>. QED  BY <1>3, <1>5, <1>6, <1>7, <2>1, <3>1
  <2>2. CASE ~(i <= n)
    <3>1. i - n \in 1..d /\ b.read + i = b.write + (i - n)
      BY <1>1, <2>2
    <3>. QED  BY <1>3, <1>5, <1>7, <2>2, <3>1
  <2>. QED  BY <2>1, <2>2
<1>9. Readable(u) = Readable(b) \o data
  BY <1>5, <1>7, <1>8, SameSeq
<1>. QED  BY <1>4, <1>9 DEF u

\* strlen: all of the data, if no byte of it is zero.
LEMMA TextOf ==
  ASSUME NEW S, NEW data \in Seq(S)
  PROVE  /\ Text(data) \in Seq(S) /\ Len(Text(data)) <= Len(data)
         /\ \A i \in 1..Len(Text(data)) : Text(data)[i] = data[i]
         /\ Nul \notin ToSet(data) => Text(data) = data
<1>. DEFINE I == {i \in 1..Len(data) : data[i] = Nul}
            zero == SelectInSeq(data, LAMBDA c : c = Nul)
<1>1. zero = IF I # {} THEN Min(I) ELSE 0
  BY DEF SelectInSeq
<1>2. I \in SUBSET Nat /\ Len(data) \in Nat
  OBVIOUS
<1>3. Text(data) = IF zero = 0 THEN data ELSE SubSeq(data, 1, zero - 1)
  BY DEF Text
<1>. HIDE DEF zero
<1>4. CASE I = {}
  <2>1. Text(data) = data
    BY <1>1, <1>3, <1>4
  <2>. QED  BY <1>2, <2>1
<1>5. CASE I # {}
  <2>1. zero \in I
    BY <1>1, <1>2, <1>5, FirstOf
  <2>2. zero \in 1..Len(data) /\ data[zero] = Nul
    BY <2>1
  <2>3. Text(data) = SubSeq(data, 0 + 1, zero - 1)
    BY <1>3, <2>2
  <2>4. /\ Text(data) \in Seq(S) /\ Len(Text(data)) = zero - 1
        /\ \A i \in 1..(zero - 1) : Text(data)[i] = data[i]
    <3>1. 0 \in Nat /\ zero - 1 \in Nat /\ 0 <= zero - 1 /\ zero - 1 <= Len(data)
      BY <1>2, <2>2
    <3>2. (zero - 1) - 0 = zero - 1 /\ \A i \in 1..(zero - 1) : 0 + i = i
      BY <3>1
    <3>. QED  BY <2>3, <3>1, <3>2, Slice
  <2>5. Nul \in ToSet(data)
    BY <2>2 DEF ToSet
  <2>. QED  BY <1>2, <2>2, <2>4, <2>5
<1>. QED  BY <1>4, <1>5

\* One readv: what is read, or what comes before a zero byte of what did not fit, goes behind
\* what is readable.
LEMMA ReadsFrom ==
  ASSUME NEW S, Nul \in S, NEW b, Buffer(b, S), NEW data \in Seq(S)
  PROVE  LET u == ReadFromFd(b, data) IN
         /\ Buffer(u, S)
         /\ \E k \in 0..Len(data) : Readable(u) = Readable(b) \o SubSeq(data, 1, k)
         /\ Nul \notin ToSet(data) => Readable(u) = Readable(b) \o data
<1>. DEFINE p == PostWritableBytes(b)
            fits == SubSeq(data, 1, p)
            rest == SubSeq(data, p + 1, Len(data))
            u == ReadFromFd(b, data)
<1>1. p \in Nat /\ Len(data) \in Nat /\ SubSeq(data, 1, Len(data)) = data
  BY SubSeqFull DEF PostWritableBytes, Buffer
<1>2. CASE Len(data) <= p
  <2>1. rest = <<>>
    BY <1>1, <1>2, SubSeqEmpty
  <2>2. u = Written(b, data)
    BY <2>1 DEF ReadFromFd
  <2>3. Buffer(u, S) /\ Readable(u) = Readable(b) \o data
    BY <1>2, <2>2, WrittenBehind
  <2>. QED  BY <1>1, <2>3
<1>3. CASE ~(Len(data) <= p)
  <2>. HIDE DEF p
  <2>1. /\ fits \in Seq(S) /\ Len(fits) = p
        /\ \A i \in 1..p : fits[i] = data[i]
    <3>1. 0 \in Nat /\ 0 <= p /\ p <= Len(data) /\ p - 0 = p
      BY <1>1, <1>3
    <3>2. \A i \in 1..p : 0 + i = i
      BY <1>1
    <3>3. fits = SubSeq(data, 0 + 1, p)
      OBVIOUS
    <3>. HIDE DEF fits
    <3>4. fits \in Seq(S) /\ Len(fits) = p - 0 /\ \A i \in 1..(p - 0) : fits[i] = data[0 + i]
      BY <1>1, <3>1, <3>3, Slice
    <3>. QED  BY <3>1, <3>2, <3>4
  <2>2. /\ rest \in Seq(S) /\ Len(rest) = Len(data) - p
        /\ \A i \in 1..(Len(data) - p) : rest[i] = data[p + i]
    <3>. DEFINE n == Len(data)
    <3>1. n \in Nat /\ p \in Nat /\ p <= n /\ n <= Len(data) /\ rest = SubSeq(data, p + 1, n)
      BY <1>1, <1>3
    <3>. HIDE DEF n, rest
    <3>2. rest \in Seq(S) /\ Len(rest) = n - p /\ \A i \in 1..(n - p) : rest[i] = data[p + i]
      BY <3>1, Slice
    <3>. QED  BY <3>2 DEF n
  <2>. HIDE DEF fits, rest
  <2>3. rest # <<>>
    BY <1>1, <1>3, <2>2
  <2>. DEFINE v == Written(b, fits)
              t == Text(rest)
              w == EnsureWritable(v, Len(t))
  <2>4. Buffer(v, S) /\ Readable(v) = Readable(b) \o fits
    BY <1>1, <2>1, WrittenBehind DEF p
  <2>5. /\ t \in Seq(S) /\ Len(t) \in Nat /\ Len(t) <= Len(rest)
        /\ \A i \in 1..Len(t) : t[i] = rest[i]
        /\ Nul \notin ToSet(rest) => t = rest
    BY <2>2, TextOf
  <2>6. u = Written(w, t)
    BY <2>3 DEF ReadFromFd, AppendData, fits, rest, p
  <2>. HIDE DEF v, t
  <2>7. Buffer(w, S) /\ Readable(w) = Readable(v) /\ PostWritableBytes(w) >= Len(t)
    BY <2>4, <2>5, Ensured
  <2>. HIDE DEF w, u
  <2>8. Buffer(u, S) /\ Readable(u) = Readable(w) \o t
    <3>1. PostWritableBytes(w) \in Int
      BY <2>7 DEF PostWritableBytes, Buffer
    <3>2. Len(t) <= PostWritableBytes(w)
      BY <2>5, <2>7, <3>1
    <3>. QED  BY <2>5, <2>6, <2>7, <3>2, WrittenBehind
  <2>9. Readable(b) \in Seq(S)
    BY Content
  <2>10. Readable(u) = Readable(b) \o (fits \o t)
    BY <2>1, <2>4, <2>5, <2>7, <2>8, <2>9, ConcatAssociative, SMTT(30)
  <2>. DEFINE k == p + Len(t)
  <2>11. k \in 0..Len(data)
    BY <1>1, <1>3, <2>2, <2>5
  <2>12. fits \o t = SubSeq(data, 1, k)
    <3>1. /\ SubSeq(data, 0 + 1, k) \in Seq(S) /\ Len(SubSeq(data, 0 + 1, k)) = k - 0
          /\ \A i \in 1..(k - 0) : SubSeq(data, 0 + 1, k)[i] = data[0 + i]
      BY <1>1, <2>11, Slice
    <3>2. /\ fits \o t \in Seq(S) /\ Len(fits \o t) = k
          /\ \A i \in 1..k : (fits \o t)[i] = IF i <= p THEN fits[i] ELSE t[i - p]
      BY <2>1, <2>5, ConcatProperties
    <3>. HIDE DEF k
    <3>3. ASSUME NEW i \in 1..k PROVE (fits \o t)[i] = data[i]
      <4>1. CASE i <= p
        BY <1>1, <2>1, <2>11, <3>2, <4>1
      <4>2. CASE ~(i <= p)
        <5>1. i - p \in 1..Len(t) /\ i - p \in 1..(Len(data) - p) /\ p + (i - p) = i
          BY <1>1, <1>3, <2>2, <2>5, <2>11, <4>2 DEF k
        <5>. QED  BY <2>2, <2>5, <3>2, <4>2, <5>1
      <4>. QED  BY <4>1, <4>2
    <3>4. k - 0 = k /\ 0 + 1 = 1 /\ \A i \in 1..k : 0 + i = i
      BY <2>11
    <3>. QED  BY <3>1, <3>2, <3>3, <3>4, SameSeq
  <2>13. ASSUME Nul \notin ToSet(data) PROVE SubSeq(data, 1, k) = data
    <3>1. Nul \notin ToSet(rest)
      <4>1. ASSUME NEW i \in 1..Len(rest) PROVE rest[i] # Nul
        <5>1. p + i \in 1..Len(data) /\ rest[i] = data[p + i]
          BY <1>1, <1>3, <2>2
        <5>. QED  BY <2>13, <5>1 DEF ToSet
      <4>. QED  BY <2>2, <4>1 DEF ToSet
    <3>2. k = Len(data)
      <4>1. Len(t) = Len(data) - p
        BY <2>2, <2>5, <3>1
      <4>. QED  BY <1>1, <4>1
    <3>. QED  BY <1>1, <3>2
  <2>. QED  BY <2>8, <2>10, <2>11, <2>12, <2>13 DEF u
<1>. QED  BY <1>2, <1>3

-----------------------------------------------------------------------------
(***************************************************************************)
(* parse().                                                                *)
(***************************************************************************)
\* The end of a line leaves room for the CRLF, or is the end of the text.
LEMMA LineEnds ==
  ASSUME NEW S, NEW text \in Seq(S)
  PROVE  /\ LineEnd(text) \in 1..(Len(text) + 1)
         /\ LineEnd(text) <= Len(text) => LineEnd(text) + 1 <= Len(text)
<1>. DEFINE ends == {i \in 1..(Len(text) - 1) : SubSeq(text, i, i + 1) = CRLF}
<1>1. LineEnd(text) = IF ends = {} THEN Len(text) + 1 ELSE Min(ends)
  BY DEF LineEnd
<1>2. ends \in SUBSET Nat /\ Len(text) \in Nat
  OBVIOUS
<1>. HIDE DEF ends
<1>3. CASE ends = {}
  BY <1>1, <1>2, <1>3
<1>4. CASE ends # {}
  <2>1. LineEnd(text) \in ends
    BY <1>1, <1>2, <1>4, FirstOf
  <2>2. LineEnd(text) \in 1..(Len(text) - 1)
    BY <2>1 DEF ends
  <2>. QED  BY <1>2, <2>2
<1>. QED  BY <1>3, <1>4

\* The turns of the loop are what their recursive definition says.
Start(q, b) == [goes |-> TRUE, ok |-> TRUE, request |-> q, buff |-> b]

IsParsing(f, q, b, verified, m) ==
  f = [n \in 0..m |-> IF n = 0 THEN Start(q, b) ELSE Turn(f[n - 1], verified)]

LEMMA ParsingExists ==
  ASSUME NEW q, NEW b, NEW verified, NEW m \in Nat PROVE \E f : IsParsing(f, q, b, verified, m)
<1>. DEFINE I == {k \in Nat : \E f : IsParsing(f, q, b, verified, k)}
<1>1. 0 \in I
  <2>1. IsParsing([n \in 0..0 |-> Start(q, b)], q, b, verified, 0)
    BY DEF IsParsing
  <2>. QED  BY <2>1
<1>2. ASSUME NEW k \in Nat, k \in I PROVE k + 1 \in I
  <2>1. PICK f : IsParsing(f, q, b, verified, k)
    BY <1>2
  <2>. DEFINE h == [n \in 0..(k + 1) |-> IF n = k + 1 THEN Turn(f[k], verified) ELSE f[n]]
  <2>2. ASSUME NEW n \in 0..(k + 1)
        PROVE  h[n] = IF n = 0 THEN Start(q, b) ELSE Turn(h[n - 1], verified)
    <3>1. CASE n = k + 1
      BY <3>1
    <3>2. CASE n \in 0..k
      <4>1. h[n] = f[n] /\ (n # 0 => n - 1 \in 0..k /\ h[n - 1] = f[n - 1])
        BY <3>2
      <4>2. f[n] = IF n = 0 THEN Start(q, b) ELSE Turn(f[n - 1], verified)
        BY <2>1, <3>2 DEF IsParsing
      <4>. QED  BY <4>1, <4>2
    <3>. QED  BY <3>1, <3>2
  <2>3. h = [n \in 0..(k + 1) |-> h[n]]
    OBVIOUS
  <2>. HIDE DEF h
  <2>4. IsParsing(h, q, b, verified, k + 1)
    BY <2>2, <2>3 DEF IsParsing
  <2>. QED  BY <2>4
<1>. HIDE DEF I
<1>3. m \in I
  BY <1>1, <1>2, Induction
<1>. QED  BY <1>3 DEF I

LEMMA ParseUnfolds ==
  ASSUME NEW q, NEW b, NEW verified, ReadableBytes(b) \in Nat
  PROVE  \E turn :
           /\ Parse(q, b, verified) = turn[ReadableBytes(b)]
           /\ turn[0] = Start(q, b)
           /\ \A n \in 0..(ReadableBytes(b) - 1) : turn[n + 1] = Turn(turn[n], verified)
<1>. DEFINE m == ReadableBytes(b)
            g == CHOOSE f : f = [n \in 0..m |->
             IF n = 0 THEN [goes |-> TRUE, ok |-> TRUE, request |-> q, buff |-> b]
             ELSE Turn(f[n - 1], verified)]
<1>1. \E f : f = [n \in 0..m |->
             IF n = 0 THEN [goes |-> TRUE, ok |-> TRUE, request |-> q, buff |-> b]
             ELSE Turn(f[n - 1], verified)]
  <2>1. PICK f : IsParsing(f, q, b, verified, m)
    BY ParsingExists
  <2>2. f = [n \in 0..m |->
             IF n = 0 THEN [goes |-> TRUE, ok |-> TRUE, request |-> q, buff |-> b]
             ELSE Turn(f[n - 1], verified)]
    BY <2>1 DEF IsParsing, Start
  <2>. QED  BY <2>2
<1>2. g = [n \in 0..m |->
             IF n = 0 THEN [goes |-> TRUE, ok |-> TRUE, request |-> q, buff |-> b]
             ELSE Turn(g[n - 1], verified)]
  BY <1>1
<1>3. Parse(q, b, verified) = g[m]
  BY DEF Parse
<1>. HIDE DEF g, m
<1>4. ASSUME NEW n \in 0..(m - 1) PROVE g[n + 1] = Turn(g[n], verified)
  <2>1. n + 1 \in 0..m /\ n + 1 # 0 /\ (n + 1) - 1 = n
    BY DEF m
  <2>. QED  BY <1>2, <2>1
<1>5. g[0] = Start(q, b)
  <2>1. 0 \in 0..m
    BY DEF m
  <2>. QED  BY <1>2, <2>1 DEF Start
<1>. QED  BY <1>3, <1>4, <1>5 DEF m

Num(c) == c[2][2]

IsRequest(q) ==
  q = [state |-> q.state, method |-> q.method, path |-> q.path, version |-> q.version,
       connection |-> q.connection, form |-> q.form, of |-> q.of]

\* A request got its number from the target at symbol j, in the first line of a text.
Named(text, of, j) ==
  /\ j \in 2..Len(text) /\ j <= Len(Line(text))
  /\ Kind(text[j]) = "target" /\ of = Num(text[j])

\* What a turn leaves of the request and of the buffer that parse() began with: nothing has
\* been parsed; the request line has, with more in the buffer; or it has, without an end.
Parsed(x, b) ==
  LET text == Readable(b)
      of == x.request.of
      r == x.buff.read
  IN
  /\ x = [goes |-> x.goes, ok |-> x.ok, request |-> x.request, buff |-> x.buff]
  /\ IsRequest(x.request)
  /\ r \in b.read..b.write /\ x.buff = [cells |-> b.cells, read |-> r, write |-> b.write]
  /\ \/ x.request = Fresh /\ r = b.read
     \/ x.request.state # "REQUEST_LINE" /\ \E j : Named(text, of, j) /\ r >= b.read + j
     \/ /\ ~x.goes /\ r = b.read /\ x.request.connection = ""
        /\ \E j : Named(text, of, j)

LEMMA LineHandled ==
  ASSUME NEW q, IsRequest(q), NEW line, NEW left, NEW verified, q.state # "REQUEST_LINE"
  PROVE  LET next == AfterLine(q, line, left, verified) IN
         IsRequest(next) /\ next.state # "REQUEST_LINE" /\ next.of = q.of
<1>. DEFINE next == AfterLine(q, line, left, verified)
            h == ParseHeader_(q, line)
<1>1. IsRequest(h) /\ h.state # "REQUEST_LINE" /\ h.of = q.of
  <2>1. CASE ~HeaderMatches(line)
    BY <2>1 DEF IsRequest, ParseHeader_
  <2>2. CASE HeaderMatches(line) /\ line[1] = Name
    BY <2>2 DEF IsRequest, ParseHeader_
  <2>3. CASE HeaderMatches(line) /\ line[1] # Name
    BY <2>3 DEF IsRequest, ParseHeader_
  <2>. QED  BY <2>1, <2>2, <2>3
<1>2. CASE q.state = "HEADERS" /\ left <= 2
  <2>1. next = [h EXCEPT !.state = "FINISH"]
    BY <1>2 DEF AfterLine
  <2>. HIDE DEF next, h
  <2>2. IsRequest(next) /\ next.state # "REQUEST_LINE" /\ next.of = q.of
    BY <1>1, <2>1 DEF IsRequest
  <2>. QED  BY <2>2 DEF next
<1>3. CASE q.state = "HEADERS" /\ ~(left <= 2)
  <2>1. next = h
    BY <1>3 DEF AfterLine
  <2>. HIDE DEF next, h
  <2>. QED  BY <1>1, <2>1 DEF next
<1>4. CASE q.state # "HEADERS"
  <2>1. next = ParseBody_(q, line, verified)
    BY <1>4 DEF AfterLine
  <2>. DEFINE path == IF q.method = "POST" /\ q.form
                         /\ q.path \in {"/register.html", "/login.html"}
                      THEN IF verified /\ {Username, Password} \subseteq ToSet(line)
                           THEN "/welcome.html" ELSE "/error.html"
                      ELSE q.path
  <2>2. next = [q EXCEPT !.state = "FINISH", !.path = path]
    BY <2>1, Zenon DEF ParseBody_
  <2>. HIDE DEF next, path
  <2>3. IsRequest(next) /\ next.state # "REQUEST_LINE" /\ next.of = q.of
    BY <2>2 DEF IsRequest
  <2>. QED  BY <2>3 DEF next
<1>. QED  BY <1>2, <1>3, <1>4

LEMMA RequestLine ==
  ASSUME NEW line, NEW left, NEW verified, RequestLineMatches(line)
  PROVE  LET next == AfterLine(Fresh, line, left, verified) IN
         /\ IsRequest(next) /\ next.state # "REQUEST_LINE" /\ next.connection = ""
         /\ \E j : MatchesAt(line, j) /\ next.of = Num(line[j])
<1>. DEFINE next == AfterLine(Fresh, line, left, verified)
            j == CHOOSE i \in DOMAIN line : MatchesAt(line, i)
<1>1. MatchesAt(line, j)
  BY DEF RequestLineMatches
<1>2. next = [Fresh EXCEPT !.state = "HEADERS",
                !.method = IF j = 2 THEN line[1][2] ELSE "other",
                !.path = ParsePath_(line[j][2][1]), !.of = line[j][2][2],
                !.version = SubSeq(line, j + 1, Len(line))]
  <2>1. next = ParseRequestLine_(Fresh, line)
    BY DEF AfterLine, Fresh
  <2>. QED  BY <2>1, Zenon DEF ParseRequestLine_
<1>. HIDE DEF next, j
<1>3. /\ IsRequest(next) /\ next.state # "REQUEST_LINE" /\ next.connection = ""
      /\ next.of = Num(line[j])
  BY <1>2 DEF IsRequest, Fresh, Num
<1>. QED  BY <1>1, <1>3 DEF next

\* One turn of the loop of parse(): the line it takes is the front of what is left.
LEMMA TurnParsed ==
  ASSUME NEW S, NEW b, Buffer(b, S), NEW x, Parsed(x, b), NEW verified
  PROVE  Parsed(Turn(x, verified), b)
<1>. DEFINE text == Readable(x.buff)
            line == Line(text)
            next == AfterLine(x.request, line, Len(text), verified)
            y == Turn(x, verified)
            n == Len(line) + 2
<1>0. Fresh.state = "REQUEST_LINE"
  BY DEF Fresh
<1>1. /\ x = [goes |-> x.goes, ok |-> x.ok, request |-> x.request, buff |-> x.buff]
      /\ IsRequest(x.request) /\ x.buff.read \in b.read..b.write
      /\ x.buff = [cells |-> b.cells, read |-> x.buff.read, write |-> b.write]
  BY DEF Parsed
<1>2. /\ Buffer(x.buff, S)
      /\ text = SubSeq(Readable(b), x.buff.read - b.read + 1, Len(Readable(b)))
  <2>1. x.buff = [b EXCEPT !.read = x.buff.read]
    BY <1>1 DEF Buffer
  <2>. QED  BY <1>1, <2>1, Retrieved
<1>3. /\ text \in Seq(S) /\ Len(text) = b.write - x.buff.read
      /\ Len(text) \in Nat /\ b.read \in Nat /\ b.write \in Nat /\ b.read <= b.write
      /\ x.buff.read \in Nat
  <2>. DEFINE c == x.buff
  <2>1. c.write = b.write /\ Buffer(c, S) /\ text = Readable(c)
    BY <1>1, <1>2
  <2>. HIDE DEF c, text
  <2>2. /\ text \in Seq(S) /\ Len(text) = b.write - c.read
        /\ c.read \in Nat /\ c.write \in Nat /\ c.read <= c.write
    BY <2>1, Content DEF Buffer
  <2>3. b.read \in Nat /\ b.write \in Nat /\ b.read <= b.write
    BY DEF Buffer
  <2>. QED  BY <2>1, <2>2, <2>3 DEF c
<1>4. /\ LineEnd(text) \in 1..(Len(text) + 1)
      /\ LineEnd(text) <= Len(text) => LineEnd(text) + 1 <= Len(text)
  BY <1>3, LineEnds
<1>5. line \in Seq(S) /\ Len(line) = LineEnd(text) - 1
      /\ \A i \in 1..Len(line) : line[i] = text[i]
  <2>1. LineEnd(text) - 1 \in Nat /\ LineEnd(text) - 1 <= Len(text)
    BY <1>3, <1>4
  <2>. DEFINE e == LineEnd(text) - 1
  <2>2. e \in Nat /\ e <= Len(text)
    BY <2>1
  <2>3. line = SubSeq(text, 0 + 1, e)
    BY DEF Line
  <2>. HIDE DEF e, line, text
  <2>4. /\ line \in Seq(S) /\ Len(line) = e - 0
        /\ \A i \in 1..(e - 0) : line[i] = text[0 + i]
    BY <1>3, <2>2, <2>3, Slice
  <2>5. e - 0 = e /\ \A i \in 1..e : 0 + i = i
    BY <2>2
  <2>. QED  BY <2>4, <2>5 DEF e
<1>. HIDE DEF line
<1>6. ASSUME x.request = Fresh, x.buff.read = b.read
      PROVE  text = Readable(b)
  BY <1>2, <1>3, <1>6, Content, SubSeqFull
<1>. HIDE DEF text
<1>7. y = IF ~x.goes \/ text = <<>> \/ x.request.state = "FINISH" THEN [x EXCEPT !.goes = FALSE]
          ELSE IF x.request.state = "REQUEST_LINE" /\ ~RequestLineMatches(line)
            THEN [x EXCEPT !.goes = FALSE, !.ok = FALSE]
          ELSE IF LineEnd(text) > Len(text)
            THEN [x EXCEPT !.goes = FALSE, !.request = next]
          ELSE [x EXCEPT !.request = next, !.buff = Retrieve(x.buff, n)]
  BY Zenon DEF Turn, text, line
<1>. HIDE DEF y, n, next
<1>8. ASSUME \/ y = [x EXCEPT !.goes = FALSE]
             \/ y = [x EXCEPT !.goes = FALSE, !.ok = FALSE]
      PROVE  Parsed(y, b)
  BY <1>1, <1>8 DEF Parsed
<1>9. ASSUME ~(~x.goes \/ text = <<>> \/ x.request.state = "FINISH"),
             ~(x.request.state = "REQUEST_LINE" /\ ~RequestLineMatches(line))
      PROVE  Parsed(y, b)
  <2>1. IsRequest(next) /\ next.state # "REQUEST_LINE"
    <3>1. CASE x.request.state # "REQUEST_LINE"
      BY <1>1, <3>1, LineHandled DEF next
    <3>2. CASE x.request.state = "REQUEST_LINE"
      <4>1. x.request = Fresh /\ RequestLineMatches(line)
        BY <1>9, <3>2 DEF Parsed
      <4>. QED  BY <4>1, RequestLine DEF next
    <3>. QED  BY <3>1, <3>2
  <2>. DEFINE front == Readable(b)
              of == next.of
  <2>2. CASE x.request = Fresh /\ x.buff.read = b.read
    <3>1. RequestLineMatches(line)
      BY <1>0, <1>9, <2>2
    <3>2. next.connection = "" /\ \E j : MatchesAt(line, j) /\ of = Num(line[j])
      BY <2>2, <3>1, RequestLine DEF next
    <3>3. PICK j : MatchesAt(line, j) /\ of = Num(line[j])
      BY <3>2
    <3>4. j \in 2..Len(line) /\ Kind(line[j]) = "target" /\ Len(line) <= Len(text)
      BY <1>3, <1>4, <1>5, <3>3 DEF MatchesAt
    <3>5. Named(front, of, j)
      <4>1. front = text /\ line = Line(text)
        BY <1>6, <2>2 DEF line
      <4>2. j \in 1..Len(line) /\ j \in 2..Len(text) /\ j <= Len(line)
        BY <1>3, <1>5, <3>4
      <4>3. line[j] = text[j]
        BY <1>5, <4>2
      <4>. HIDE DEF front, of
      <4>. QED  BY <3>3, <3>4, <4>1, <4>2, <4>3 DEF Named
    <3>. HIDE DEF front, of
    <3>6. CASE LineEnd(text) > Len(text)
      <4>1. y = [x EXCEPT !.goes = FALSE, !.request = next]
        BY <1>7, <1>9, <3>6
      <4>. QED  BY <1>1, <2>1, <2>2, <3>2, <3>5, <4>1 DEF Parsed, front, of
    <3>7. CASE ~(LineEnd(text) > Len(text))
      <4>1. y = [x EXCEPT !.request = next, !.buff = Retrieve(x.buff, n)]
        BY <1>7, <1>9, <3>7
      <4>2. /\ x.buff.read + n \in b.read..b.write /\ x.buff.read + n >= b.read + j
        BY <1>1, <1>3, <1>4, <1>5, <3>4, <3>7, SMTT(30) DEF n
      <4>3. Retrieve(x.buff, n) = [cells |-> b.cells, read |-> x.buff.read + n, write |-> b.write]
        BY <1>1 DEF Retrieve
      <4>4. y = [goes |-> x.goes, ok |-> x.ok, request |-> next, buff |->
                  [cells |-> b.cells, read |-> x.buff.read + n, write |-> b.write]]
        BY <1>1, <4>1, <4>3
      <4>. QED  BY <2>1, <3>5, <4>2, <4>4 DEF Parsed, front, of
    <3>. QED  BY <3>6, <3>7
  <2>3. CASE x.request.state # "REQUEST_LINE" /\ x.goes
    <3>1. PICK j : Named(front, of, j) /\ x.buff.read >= b.read + j
      <4>1. next.of = x.request.of
        BY <1>1, <2>3, LineHandled DEF next
      <4>2. x.request # Fresh
        BY <1>0, <2>3
      <4>. QED  BY <2>3, <4>1, <4>2 DEF Parsed
    <3>2. j \in Nat
      BY <3>1 DEF Named
    <3>. HIDE DEF front, of
    <3>6. CASE LineEnd(text) > Len(text)
      <4>1. y = [x EXCEPT !.goes = FALSE, !.request = next]
        BY <1>7, <1>9, <3>6
      <4>. QED  BY <1>1, <2>1, <3>1, <4>1 DEF Parsed, front, of
    <3>7. CASE ~(LineEnd(text) > Len(text))
      <4>1. y = [x EXCEPT !.request = next, !.buff = Retrieve(x.buff, n)]
        BY <1>7, <1>9, <3>7
      <4>2. /\ x.buff.read + n \in b.read..b.write /\ x.buff.read + n >= b.read + j
        BY <1>1, <1>3, <1>4, <1>5, <3>1, <3>2, <3>7, SMTT(30) DEF n
      <4>3. Retrieve(x.buff, n) = [cells |-> b.cells, read |-> x.buff.read + n, write |-> b.write]
        BY <1>1 DEF Retrieve
      <4>4. y = [goes |-> x.goes, ok |-> x.ok, request |-> next, buff |->
                  [cells |-> b.cells, read |-> x.buff.read + n, write |-> b.write]]
        BY <1>1, <4>1, <4>3
      <4>. QED  BY <2>1, <3>1, <4>2, <4>4 DEF Parsed, front, of
    <3>. QED  BY <3>6, <3>7
  <2>. QED  BY <1>9, <2>2, <2>3 DEF Parsed
<1>. QED  BY <1>7, <1>8, <1>9 DEF y

LEMMA ParseParsed ==
  ASSUME NEW S, NEW b, Buffer(b, S), NEW verified
  PROVE  Parsed(Parse(Fresh, b, verified), b)
<1>. DEFINE m == ReadableBytes(b)
<1>1. m \in Nat /\ b.read \in b.read..b.write
  BY DEF ReadableBytes, Buffer
<1>2. PICK turn :
        /\ Parse(Fresh, b, verified) = turn[m]
        /\ turn[0] = Start(Fresh, b)
        /\ \A n \in 0..(m - 1) : turn[n + 1] = Turn(turn[n], verified)
  BY <1>1, ParseUnfolds
<1>. DEFINE I == {n \in Nat : n <= m => Parsed(turn[n], b)}
<1>3. 0 \in I
  <2>1. Parsed(Start(Fresh, b), b)
    <3>1. IsRequest(Fresh)
      BY DEF IsRequest, Fresh
    <3>2. b = [cells |-> b.cells, read |-> b.read, write |-> b.write]
      BY DEF Buffer
    <3>. QED  BY <1>1, <3>1, <3>2 DEF Start, Parsed
  <2>. QED  BY <1>2, <2>1
<1>. HIDE DEF m
<1>4. ASSUME NEW n \in Nat, n \in I PROVE n + 1 \in I
  <2>1. ASSUME n + 1 <= m PROVE Parsed(turn[n + 1], b)
    <3>1. n \in 0..(m - 1) /\ n <= m
      BY <1>1, <2>1
    <3>2. Parsed(turn[n], b)
      BY <1>4, <3>1
    <3>3. turn[n + 1] = Turn(turn[n], verified)
      BY <1>2, <3>1
    <3>. QED  BY <3>2, <3>3, TurnParsed
  <2>. QED  BY <2>1
<1>. HIDE DEF I
<1>5. m \in I
  BY <1>1, <1>3, <1>4, Induction
<1>6. m <= m
  BY <1>1
<1>. QED  BY <1>2, <1>5, <1>6 DEF I

-----------------------------------------------------------------------------
(***************************************************************************)
(* The stream: what the clients send, one request after the other.         *)
(***************************************************************************)
IsFlattening(f, g, n) == f = [i \in 1..n |-> IF i = 1 THEN g[i] ELSE f[i - 1] \o g[i]]

LEMMA FlatteningAt ==
  ASSUME NEW f, NEW g, NEW n, IsFlattening(f, g, n), NEW i \in 1..n
  PROVE  f[i] = IF i = 1 THEN g[i] ELSE f[i - 1] \o g[i]
<1>1. f = [k \in 1..n |-> IF k = 1 THEN g[k] ELSE f[k - 1] \o g[k]]
  BY DEF IsFlattening
<1>. QED  BY <1>1

LEMMA FlatteningExists == ASSUME NEW g, NEW n \in Nat PROVE \E f : IsFlattening(f, g, n)
<1>. DEFINE I == {k \in Nat : \E f : IsFlattening(f, g, k)}
<1>1. 0 \in I
  <2>1. IsFlattening([i \in 1..0 |-> g[i]], g, 0)
    BY DEF IsFlattening
  <2>. QED  BY <2>1
<1>2. ASSUME NEW k \in Nat, k \in I PROVE k + 1 \in I
  <2>1. PICK f : IsFlattening(f, g, k)
    BY <1>2
  <2>. DEFINE last == IF k = 0 THEN g[1] ELSE f[k] \o g[k + 1]
              h == [i \in 1..(k + 1) |-> IF i = k + 1 THEN last ELSE f[i]]
  <2>2. ASSUME NEW i \in 1..(k + 1)
        PROVE  h[i] = IF i = 1 THEN g[i] ELSE h[i - 1] \o g[i]
    <3>1. CASE i = k + 1
      <4>1. h[i] = last /\ (i # 1 => i - 1 \in 1..k /\ h[i - 1] = f[k])
        BY <3>1
      <4>. QED  BY <3>1, <4>1
    <3>2. CASE i \in 1..k
      <4>1. h[i] = f[i] /\ (i # 1 => i - 1 \in 1..k /\ h[i - 1] = f[i - 1])
        BY <3>2
      <4>2. f[i] = IF i = 1 THEN g[i] ELSE f[i - 1] \o g[i]
        BY <2>1, <3>2 DEF IsFlattening
      <4>. QED  BY <4>1, <4>2
    <3>. QED  BY <3>1, <3>2
  <2>3. h = [i \in 1..(k + 1) |-> h[i]]
    OBVIOUS
  <2>. HIDE DEF h
  <2>4. IsFlattening(h, g, k + 1)
    BY <2>2, <2>3 DEF IsFlattening
  <2>. QED  BY <2>4
<1>. HIDE DEF I
<1>3. n \in I
  BY <1>1, <1>2, Induction
<1>. QED  BY <1>3 DEF I

LEMMA Flattened ==
  ASSUME NEW S, NEW n \in Nat, NEW g \in [1..n -> Seq(S)]
  PROVE  \E f : /\ IsFlattening(f, g, n)
                /\ FlattenSeq(g) = IF n = 0 THEN <<>> ELSE f[n]
<1>1. g \in Seq(Seq(S)) /\ Len(g) = n
  OBVIOUS
<1>2. CASE n = 0
  <2>1. FlattenSeq(g) = g /\ g = <<>>
    BY <1>1, <1>2 DEF FlattenSeq
  <2>. QED  BY <1>2, <2>1, FlatteningExists
<1>3. CASE n # 0
  <2>. DEFINE f == CHOOSE e :
                e = [i \in 1..Len(g) |-> IF i = 1 THEN g[i] ELSE e[i - 1] \o g[i]]
  <2>1. FlattenSeq(g) = f[Len(g)]
    BY <1>1, <1>3 DEF FlattenSeq
  <2>2. \E e : e = [i \in 1..Len(g) |-> IF i = 1 THEN g[i] ELSE e[i - 1] \o g[i]]
    <3>1. PICK e : IsFlattening(e, g, n)
      BY FlatteningExists
    <3>. QED  BY <1>1, <3>1 DEF IsFlattening
  <2>3. f = [i \in 1..Len(g) |-> IF i = 1 THEN g[i] ELSE f[i - 1] \o g[i]]
    BY <2>2
  <2>. HIDE DEF f
  <2>4. IsFlattening(f, g, n)
    BY <1>1, <2>3 DEF IsFlattening
  <2>. QED  BY <1>1, <1>3, <2>1, <2>4
<1>. QED  BY <1>2, <1>3

\* One more sequence goes behind.
LEMMA FlattenedNext ==
  ASSUME NEW S, NEW n \in Nat, NEW g \in [1..(n + 1) -> Seq(S)],
         NEW h \in [1..n -> Seq(S)], \A i \in 1..n : h[i] = g[i]
  PROVE  FlattenSeq(g) = FlattenSeq(h) \o g[n + 1]
<1>1. PICK f : IsFlattening(f, g, n + 1) /\ FlattenSeq(g) = f[n + 1]
  <2>1. n + 1 \in Nat /\ n + 1 # 0
    OBVIOUS
  <2>. QED  BY <2>1, Flattened
<1>2. PICK e : IsFlattening(e, h, n) /\ FlattenSeq(h) = IF n = 0 THEN <<>> ELSE e[n]
  BY Flattened
<1>. DEFINE I == {k \in Nat : k \in 1..n => f[k] = e[k]}
<1>3. 0 \in I
  OBVIOUS
<1>4. ASSUME NEW k \in Nat, k \in I PROVE k + 1 \in I
  <2>1. ASSUME k + 1 \in 1..n PROVE f[k + 1] = e[k + 1]
    <3>1. f[k + 1] = IF k + 1 = 1 THEN g[k + 1] ELSE f[(k + 1) - 1] \o g[k + 1]
      <4>. DEFINE i == k + 1
                  m == n + 1
      <4>1. i \in 1..m
        BY <2>1
      <4>2. IsFlattening(f, g, m)
        BY <1>1
      <4>. HIDE DEF i, m
      <4>3. f[i] = IF i = 1 THEN g[i] ELSE f[i - 1] \o g[i]
        BY <4>1, <4>2, FlatteningAt
      <4>. QED  BY <4>3 DEF i
    <3>2. e[k + 1] = IF k + 1 = 1 THEN h[k + 1] ELSE e[(k + 1) - 1] \o h[k + 1]
      BY <1>2, <2>1, FlatteningAt, SMTT(30)
    <3>3. k + 1 # 1 => f[(k + 1) - 1] = e[(k + 1) - 1]
      BY <1>4, <2>1
    <3>. QED  BY <2>1, <3>1, <3>2, <3>3
  <2>. QED  BY <2>1
<1>. HIDE DEF I
<1>5. n \in I
  BY <1>3, <1>4, Induction
<1>6. f[n + 1] = IF n + 1 = 1 THEN g[n + 1] ELSE f[(n + 1) - 1] \o g[n + 1]
  <2>1. n + 1 \in 1..(n + 1)
    OBVIOUS
  <2>. QED  BY <1>1, <2>1, FlatteningAt
<1>7. CASE n = 0
  <2>1. g[n + 1] \in Seq(S)
    OBVIOUS
  <2>. QED  BY <1>1, <1>2, <1>6, <1>7, <2>1, ConcatEmptySeq
<1>8. CASE n # 0
  <2>1. f[n] = e[n]
    BY <1>5, <1>8 DEF I
  <2>2. (n + 1) - 1 = n /\ n + 1 # 1
    BY <1>8
  <2>. QED  BY <1>1, <1>2, <1>6, <1>8, <2>1, <2>2
<1>. QED  BY <1>7, <1>8

\* The numbers of the targets of a text, and that they follow each other.
Targets(t) == {Num(t[i]) : i \in {j \in 1..Len(t) : Kind(t[j]) = "target"}}

Ascending(t) ==
  \A i, j \in 1..Len(t) :
    i < j /\ Kind(t[i]) = "target" /\ Kind(t[j]) = "target" => Num(t[i]) < Num(t[j])

Before(t, u) == \A m \in Targets(t), n \in Targets(u) : m < n

\* Slices keep the order, one slice comes before the next, and joining is the converse.
LEMMA Part ==
  ASSUME NEW S, NEW t \in Seq(S), NEW m \in Nat, NEW n \in Nat, m <= n, n <= Len(t)
  PROVE  /\ Targets(SubSeq(t, m + 1, n)) \subseteq Targets(t)
         /\ Ascending(t) => Ascending(SubSeq(t, m + 1, n))
<1>. DEFINE u == SubSeq(t, m + 1, n)
<1>1. Len(u) = n - m /\ \A i \in 1..(n - m) : u[i] = t[m + i]
  BY Slice
<1>. HIDE DEF u
<1>2. \A i \in 1..(n - m) : m + i \in 1..Len(t)
  OBVIOUS
<1>3. Targets(u) \subseteq Targets(t)
  BY <1>1, <1>2 DEF Targets
<1>4. \A i, j \in 1..(n - m) : i < j => m + i < m + j
  OBVIOUS
<1>5. Ascending(t) => Ascending(u)
  BY <1>1, <1>2, <1>4 DEF Ascending
<1>. QED  BY <1>3, <1>5 DEF u

LEMMA Parted ==
  ASSUME NEW S, NEW t \in Seq(S), Ascending(t), NEW m \in Nat, NEW n \in Nat, NEW p \in Nat,
         m <= n, n <= p, p <= Len(t)
  PROVE  Before(SubSeq(t, m + 1, n), SubSeq(t, n + 1, p))
<1>. DEFINE u == SubSeq(t, m + 1, n)
            v == SubSeq(t, n + 1, p)
<1>1. Len(u) = n - m /\ \A i \in 1..(n - m) : u[i] = t[m + i]
  <2>1. n <= Len(t)
    OBVIOUS
  <2>. QED  BY <2>1, Slice
<1>2. Len(v) = p - n /\ \A i \in 1..(p - n) : v[i] = t[n + i]
  BY Slice
<1>. HIDE DEF u, v
<1>3. ASSUME NEW i \in 1..(n - m), NEW j \in 1..(p - n),
             Kind(u[i]) = "target", Kind(v[j]) = "target"
      PROVE  Num(u[i]) < Num(v[j])
  <2>1. m + i \in 1..Len(t) /\ n + j \in 1..Len(t) /\ m + i < n + j
    OBVIOUS
  <2>. QED  BY <1>1, <1>2, <1>3, <2>1 DEF Ascending
<1>4. ASSUME NEW a \in Targets(u), NEW b \in Targets(v) PROVE a < b
  <2>1. PICK i \in 1..Len(u) : Kind(u[i]) = "target" /\ a = Num(u[i])
    BY DEF Targets
  <2>2. PICK j \in 1..Len(v) : Kind(v[j]) = "target" /\ b = Num(v[j])
    BY DEF Targets
  <2>. QED  BY <1>1, <1>2, <1>3, <2>1, <2>2
<1>5. Before(u, v)
  BY <1>4 DEF Before
<1>. QED  BY <1>5 DEF u, v

LEMMA Joined ==
  ASSUME NEW S, NEW t \in Seq(S), NEW u \in Seq(S)
  PROVE  /\ Targets(t \o u) \subseteq Targets(t) \cup Targets(u)
         /\ Ascending(t) /\ Ascending(u) /\ Before(t, u) => Ascending(t \o u)
<1>. DEFINE v == t \o u
<1>1. /\ v \in Seq(S) /\ Len(v) = Len(t) + Len(u) /\ Len(t) \in Nat /\ Len(u) \in Nat
      /\ \A i \in 1..(Len(t) + Len(u)) : v[i] = IF i <= Len(t) THEN t[i] ELSE u[i - Len(t)]
  BY ConcatProperties
<1>. HIDE DEF v
<1>2. \A i \in 1..Len(v) :
        \/ i \in 1..Len(t) /\ v[i] = t[i]
        \/ i > Len(t) /\ i - Len(t) \in 1..Len(u) /\ v[i] = u[i - Len(t)]
  BY <1>1
<1>3. Targets(v) \subseteq Targets(t) \cup Targets(u)
  BY <1>2 DEF Targets
<1>4. ASSUME Ascending(t), Ascending(u), Before(t, u), NEW i \in 1..Len(v), NEW j \in 1..Len(v),
             i < j, Kind(v[i]) = "target", Kind(v[j]) = "target"
      PROVE  Num(v[i]) < Num(v[j])
  <2>1. CASE i \in 1..Len(t) /\ v[i] = t[i] /\ j \in 1..Len(t) /\ v[j] = t[j]
    BY <1>4, <2>1 DEF Ascending
  <2>2. CASE /\ i \in 1..Len(t) /\ v[i] = t[i]
             /\ j > Len(t) /\ j - Len(t) \in 1..Len(u) /\ v[j] = u[j - Len(t)]
    BY <1>4, <2>2 DEF Before, Targets
  <2>3. CASE /\ i > Len(t) /\ i - Len(t) \in 1..Len(u) /\ v[i] = u[i - Len(t)]
             /\ j > Len(t) /\ j - Len(t) \in 1..Len(u) /\ v[j] = u[j - Len(t)]
    <3>1. i - Len(t) < j - Len(t)
      BY <1>1, <1>4
    <3>. QED  BY <1>4, <2>3, <3>1 DEF Ascending
  <2>4. ~(i > Len(t) /\ j \in 1..Len(t))
    BY <1>1, <1>4
  <2>. QED  BY <1>2, <2>1, <2>2, <2>3, <2>4
<1>5. Ascending(t) /\ Ascending(u) /\ Before(t, u) => Ascending(v)
  BY <1>4 DEF Ascending
<1>. QED  BY <1>3, <1>5 DEF v

LEMMA Inner ==
  ASSUME NEW S, NEW t \in Seq(S), NEW m \in Nat, NEW n \in Nat, NEW p \in Nat, NEW q \in Nat,
         m <= n, n <= p, p <= q, q <= Len(t)
  PROVE  Targets(SubSeq(t, n + 1, p)) \subseteq Targets(SubSeq(t, m + 1, q))
<1>. DEFINE u == SubSeq(t, n + 1, p)
            v == SubSeq(t, m + 1, q)
<1>1. Len(u) = p - n /\ \A i \in 1..(p - n) : u[i] = t[n + i]
  <2>1. p <= Len(t)
    OBVIOUS
  <2>. QED  BY <2>1, Slice
<1>2. Len(v) = q - m /\ \A i \in 1..(q - m) : v[i] = t[m + i]
  <2>1. m <= q
    OBVIOUS
  <2>. QED  BY <2>1, Slice
<1>. HIDE DEF u, v
<1>3. ASSUME NEW i \in 1..(p - n)
      PROVE  /\ (n - m) + i \in 1..(q - m) /\ u[i] = v[(n - m) + i]
  <2>1. (n - m) + i \in 1..(q - m) /\ m + ((n - m) + i) = n + i
    OBVIOUS
  <2>. QED  BY <1>1, <1>2, <2>1
<1>4. Targets(u) \subseteq Targets(v)
  BY <1>1, <1>2, <1>3 DEF Targets
<1>. QED  BY <1>4 DEF u, v

\* A slice of a slice.
LEMMA Sliced ==
  ASSUME NEW S, NEW t \in Seq(S), NEW m \in Nat, NEW n \in Nat, m <= n, n <= Len(t),
         NEW i \in Nat, NEW j \in Nat, i <= j, j <= n - m
  PROVE  SubSeq(SubSeq(t, m + 1, n), i + 1, j) = SubSeq(t, (m + i) + 1, m + j)
<1>. DEFINE u == SubSeq(t, m + 1, n)
            v == SubSeq(u, i + 1, j)
            w == SubSeq(t, (m + i) + 1, m + j)
<1>1. u \in Seq(S) /\ Len(u) = n - m /\ \A k \in 1..(n - m) : u[k] = t[m + k]
  BY Slice
<1>. HIDE DEF u
<1>2. v \in Seq(S) /\ Len(v) = j - i /\ \A k \in 1..(j - i) : v[k] = u[i + k]
  <2>1. i \in Nat /\ j \in Nat /\ i <= j /\ j <= Len(u)
    BY <1>1
  <2>2. u \in Seq(S)
    BY <1>1
  <2>. HIDE DEF v
  <2>3. /\ SubSeq(u, i + 1, j) \in Seq(S) /\ Len(SubSeq(u, i + 1, j)) = j - i
        /\ \A k \in 1..(j - i) : SubSeq(u, i + 1, j)[k] = u[i + k]
    BY <2>1, <2>2, Slice
  <2>. QED  BY <2>3 DEF v
<1>3. w \in Seq(S) /\ Len(w) = j - i /\ \A k \in 1..(j - i) : w[k] = t[(m + i) + k]
  <2>. DEFINE a == m + i
              b == m + j
  <2>1. a \in Nat /\ b \in Nat /\ a <= b /\ b <= Len(t) /\ b - a = j - i
    OBVIOUS
  <2>2. w = SubSeq(t, a + 1, b)
    OBVIOUS
  <2>. HIDE DEF a, b, w
  <2>3. /\ w \in Seq(S) /\ Len(w) = b - a /\ \A k \in 1..(b - a) : w[k] = t[a + k]
    BY <2>1, <2>2, Slice
  <2>. QED  BY <2>1, <2>3 DEF a
<1>. HIDE DEF v, w
<1>4. ASSUME NEW k \in 1..(j - i) PROVE v[k] = w[k]
  <2>1. i + k \in 1..(n - m) /\ m + (i + k) = (m + i) + k
    OBVIOUS
  <2>. QED  BY <1>1, <1>2, <1>3, <2>1
<1>5. v = w
  BY <1>2, <1>3, <1>4, SameSeq
<1>. QED  BY <1>5 DEF u, v, w

\* What a client sends for one request has one target, with the number of the request.
Alphabet(q, i) ==
  {Verb(q.method), Target(q.path, i), Version, CR, LF, Name, Colon, Value, Form}
    \cup ToSet(q.body)

Plain(t, S) == t \in Seq(S) /\ \A i \in 1..Len(t) : Kind(t[i]) # "target"

LEMMA PlainJoined ==
  ASSUME NEW S, NEW t, NEW u, Plain(t, S), Plain(u, S) PROVE Plain(t \o u, S)
<1>1. /\ t \o u \in Seq(S) /\ Len(t \o u) = Len(t) + Len(u)
      /\ \A i \in 1..(Len(t) + Len(u)) :
           (t \o u)[i] = IF i <= Len(t) THEN t[i] ELSE u[i - Len(t)]
      /\ Len(t) \in Nat /\ Len(u) \in Nat
  BY ConcatProperties DEF Plain
<1>. DEFINE v == t \o u
<1>. HIDE DEF v
<1>2. ASSUME NEW i \in 1..Len(v) PROVE Kind(v[i]) # "target"
  BY <1>1 DEF Plain, v
<1>. QED  BY <1>1, <1>2 DEF Plain, v

\* The only target of the text is its second symbol.
Headed(t, c, S) ==
  /\ t \in Seq(S) /\ Len(t) >= 2 /\ t[2] = c
  /\ \A i \in 1..Len(t) : Kind(t[i]) = "target" => i = 2

LEMMA HeadedJoined ==
  ASSUME NEW S, NEW c, NEW t, NEW u, Headed(t, c, S), Plain(u, S) PROVE Headed(t \o u, c, S)
<1>. DEFINE v == t \o u
<1>1. /\ v \in Seq(S) /\ Len(v) = Len(t) + Len(u) /\ Len(t) \in Nat /\ Len(u) \in Nat
      /\ \A i \in 1..(Len(t) + Len(u)) : v[i] = IF i <= Len(t) THEN t[i] ELSE u[i - Len(t)]
  BY ConcatProperties DEF Headed, Plain
<1>. HIDE DEF v
<1>2. ASSUME NEW i \in 1..Len(v), Kind(v[i]) = "target" PROVE i = 2
  <2>1. CASE i <= Len(t)
    <3>1. i \in 1..Len(t) /\ v[i] = t[i]
      BY <1>1, <2>1
    <3>. QED  BY <1>2, <3>1 DEF Headed
  <2>2. CASE ~(i <= Len(t))
    <3>1. i - Len(t) \in 1..Len(u) /\ v[i] = u[i - Len(t)]
      BY <1>1, <2>2
    <3>. QED  BY <1>2, <3>1 DEF Plain
  <2>. QED  BY <2>1, <2>2
<1>3. v[2] = c /\ Len(v) >= 2
  BY <1>1 DEF Headed
<1>. QED  BY <1>1, <1>2, <1>3 DEF Headed, v

LEMMA SymbolsSent ==
  ASSUME NEW q, NEW i \in Nat, q.body \in Seq(ToSet(q.body)),
         \A c \in ToSet(q.body) : Kind(c) # "target"
  PROVE  /\ Symbols(q, i) \in Seq(Alphabet(q, i))
         /\ Targets(Symbols(q, i)) \subseteq {i} /\ Ascending(Symbols(q, i))
<1>. DEFINE S == Alphabet(q, i)
            front == <<Verb(q.method), Target(q.path, i), Version>>
            kept == IF q.keep THEN <<Name, Colon, Value>> \o CRLF ELSE <<>>
            typed == IF q.form THEN <<Form>> \o CRLF ELSE <<>>
<1>1. Plain(CRLF, S)
  BY DEF Plain, CRLF, CR, LF, Kind, Alphabet
<1>2. Plain(<<>>, S)
  BY DEF Plain
<1>3. Plain(kept, S)
  <2>1. Plain(<<Name, Colon, Value>>, S)
    <3>1. {Name, Colon, Value} \subseteq S
      BY DEF Alphabet
    <3>2. Kind(Name) # "target" /\ Kind(Colon) # "target" /\ Kind(Value) # "target"
      BY DEF Name, Colon, Value, Kind
    <3>. HIDE DEF S
    <3>3. <<Name, Colon, Value>> \in Seq(S) /\ Len(<<Name, Colon, Value>>) = 3
      BY <3>1
    <3>. QED  BY <3>2, <3>3 DEF Plain
  <2>. QED  BY <1>1, <1>2, <2>1, PlainJoined
<1>4. Plain(typed, S)
  <2>1. Plain(<<Form>>, S)
    <3>1. Form \in S /\ Kind(Form) # "target"
      BY DEF Alphabet, Form, Kind
    <3>. HIDE DEF S
    <3>2. <<Form>> \in Seq(S) /\ Len(<<Form>>) = 1
      BY <3>1
    <3>. QED  BY <3>1, <3>2 DEF Plain
  <2>. QED  BY <1>1, <1>2, <2>1, PlainJoined
<1>5. Plain(q.body, S)
  BY DEF Plain, Alphabet, ToSet
<1>. HIDE DEF S, kept, typed
<1>6. Headed(front, Target(q.path, i), S)
  <2>1. Verb(q.method) \in S /\ Target(q.path, i) \in S /\ Version \in S
    BY DEF S, Alphabet
  <2>2. Kind(Verb(q.method)) # "target" /\ Kind(Version) # "target"
    BY DEF Kind, Verb, Version
  <2>3. /\ front \in Seq(S) /\ Len(front) = 3 /\ front[1] = Verb(q.method)
        /\ front[2] = Target(q.path, i) /\ front[3] = Version
    BY <2>1
  <2>. HIDE DEF front
  <2>. QED  BY <2>2, <2>3 DEF Headed
<1>. DEFINE s == Symbols(q, i)
<1>7. s = front \o CRLF \o kept \o typed \o CRLF \o q.body
  BY DEF Symbols, kept, typed
<1>. HIDE DEF front
<1>8. Headed(s, Target(q.path, i), S)
  BY <1>1, <1>3, <1>4, <1>5, <1>6, <1>7, HeadedJoined, Zenon
<1>9. Num(Target(q.path, i)) = i
  BY DEF Num, Target
<1>. HIDE DEF s
<1>10. s \in Seq(S) /\ Len(s) \in Nat /\ Num(s[2]) = i
       /\ \A j \in 1..Len(s) : Kind(s[j]) = "target" => j = 2
  BY <1>8, <1>9 DEF Headed
<1>11. Targets(s) \subseteq {i}
  BY <1>10 DEF Targets
<1>12. Ascending(s)
  BY <1>10 DEF Ascending
<1>. QED  BY <1>10, <1>11, <1>12 DEF S, s

\* The requests of a script, up to the k-th.
Flat(s, k) == FlattenSeq([i \in 1..k |-> Symbols(s[i], i)])

AllSymbols(s) == {Nul} \cup UNION {Alphabet(s[i], i) : i \in DOMAIN s}

LEMMA FlatNext ==
  ASSUME NEW s \in Scripts, NEW k \in Nat, k + 1 <= Len(s)
  PROVE  LET new == Symbols(s[k + 1], k + 1) IN
         /\ Flat(s, k + 1) = Flat(s, k) \o new
         /\ new \in Seq(AllSymbols(s)) /\ Targets(new) \subseteq {k + 1} /\ Ascending(new)
<1>1. s \in Seq(ToSet(s)) /\ DOMAIN s = 1..Len(s) /\ Len(s) \in Nat
  BY ScriptsAssumption
<1>2. ASSUME NEW i \in 1..Len(s)
      PROVE  /\ Symbols(s[i], i) \in Seq(AllSymbols(s))
             /\ Targets(Symbols(s[i], i)) \subseteq {i} /\ Ascending(Symbols(s[i], i))
  <2>1. /\ s[i].body \in Seq(ToSet(s[i].body))
        /\ \A c \in ToSet(s[i].body) : Kind(c) # "target"
    BY <1>1, ScriptsAssumption
  <2>2. i \in Nat
    BY <1>1
  <2>3. /\ Symbols(s[i], i) \in Seq(Alphabet(s[i], i))
        /\ Targets(Symbols(s[i], i)) \subseteq {i} /\ Ascending(Symbols(s[i], i))
    BY <2>1, <2>2, SymbolsSent
  <2>4. Alphabet(s[i], i) \subseteq AllSymbols(s)
    BY <1>1 DEF AllSymbols
  <2>. QED  BY <2>3, <2>4, SeqMonotonic
<1>. DEFINE S == AllSymbols(s)
            g == [i \in 1..(k + 1) |-> Symbols(s[i], i)]
            h == [i \in 1..k |-> Symbols(s[i], i)]
<1>3. k + 1 \in 1..Len(s) /\ k \in 0..Len(s)
  BY <1>1
<1>4. /\ g \in [1..(k + 1) -> Seq(S)] /\ h \in [1..k -> Seq(S)]
      /\ \A i \in 1..k : h[i] = g[i]
      /\ g[k + 1] = Symbols(s[k + 1], k + 1)
  <2>1. \A i \in 1..(k + 1) : Symbols(s[i], i) \in Seq(S)
    BY <1>1, <1>2, <1>3
  <2>. HIDE DEF S
  <2>. QED  BY <2>1
<1>5. Flat(s, k + 1) = FlattenSeq(g) /\ Flat(s, k) = FlattenSeq(h)
  BY DEF Flat
<1>. HIDE DEF S, g, h
<1>6. FlattenSeq(g) = FlattenSeq(h) \o g[k + 1]
  BY <1>4, FlattenedNext
<1>7. Flat(s, k + 1) = Flat(s, k) \o Symbols(s[k + 1], k + 1)
  BY <1>4, <1>5, <1>6
<1>. QED  BY <1>2, <1>3, <1>7

\* The numbers of the requests ascend, and a request is a part of its own.
LEMMA FlatType ==
  ASSUME NEW s \in Scripts, NEW k \in Nat, k <= Len(s)
  PROVE  /\ Flat(s, k) \in Seq(AllSymbols(s)) /\ Ascending(Flat(s, k))
         /\ Targets(Flat(s, k)) \subseteq 1..k
<1>. DEFINE Typed(n) == /\ Flat(s, n) \in Seq(AllSymbols(s)) /\ Ascending(Flat(s, n))
                        /\ Targets(Flat(s, n)) \subseteq 1..n
            I == {n \in Nat : n <= Len(s) => Typed(n)}
<1>0. Len(s) \in Nat
  BY ScriptsAssumption
<1>1. 0 \in I
  <2>1. Flat(s, 0) = <<>>
    <3>. DEFINE h == [i \in 1..0 |-> Symbols(s[i], i)]
    <3>1. h \in [1..0 -> Seq(AllSymbols(s))]
      OBVIOUS
    <3>. HIDE DEF h
    <3>2. FlattenSeq(h) = <<>>
      BY <3>1, Flattened
    <3>. QED  BY <3>2 DEF Flat, h
  <2>2. Typed(0)
    <3>1. Ascending(<<>>) /\ Targets(<<>>) = {}
      BY DEF Ascending, Targets
    <3>2. <<>> \in Seq(AllSymbols(s))
      OBVIOUS
    <3>. QED  BY <2>1, <3>1, <3>2, Zenon
  <2>. QED  BY <2>2
<1>2. ASSUME NEW n \in Nat, n \in I PROVE n + 1 \in I
  <2>1. ASSUME n + 1 <= Len(s) PROVE Typed(n + 1)
    <3>. DEFINE new == Symbols(s[n + 1], n + 1)
                old == Flat(s, n)
    <3>1. Typed(n)
      BY <1>0, <1>2, <2>1
    <3>2. /\ Flat(s, n + 1) = old \o new
          /\ new \in Seq(AllSymbols(s)) /\ Targets(new) \subseteq {n + 1} /\ Ascending(new)
      BY <2>1, FlatNext
    <3>3. old \in Seq(AllSymbols(s)) /\ Ascending(old) /\ Targets(old) \subseteq 1..n
      BY <3>1
    <3>. HIDE DEF new, old, Typed
    <3>4. Before(old, new)
      <4>1. \A a \in 1..n : a < n + 1
        OBVIOUS
      <4>. QED  BY <3>2, <3>3, <4>1 DEF Before
    <3>5. Targets(old \o new) \subseteq 1..(n + 1)
      <4>1. Targets(old \o new) \subseteq Targets(old) \cup Targets(new)
        BY <3>2, <3>3, Joined
      <4>2. 1..n \subseteq 1..(n + 1) /\ n + 1 \in 1..(n + 1)
        OBVIOUS
      <4>. QED  BY <3>2, <3>3, <4>1, <4>2
    <3>6. old \o new \in Seq(AllSymbols(s)) /\ Ascending(old \o new)
      BY <3>2, <3>3, <3>4, Joined, ConcatProperties
    <3>. QED  BY <3>2, <3>5, <3>6 DEF Typed
  <2>. QED  BY <2>1
<1>. HIDE DEF I
<1>3. k \in I
  BY <1>1, <1>2, Induction
<1>. QED  BY <1>3 DEF I

LEMMA FlatGrows ==
  ASSUME NEW s \in Scripts, NEW k \in Nat, NEW n \in Nat, k <= n, n <= Len(s)
  PROVE  Len(Flat(s, k)) <= Len(Flat(s, n))
<1>0. Len(s) \in Nat
  BY ScriptsAssumption
<1>. DEFINE I == {m \in Nat : k <= m /\ m <= Len(s) => Len(Flat(s, k)) <= Len(Flat(s, m))}
<1>1. ASSUME NEW m \in Nat, m <= Len(s) PROVE Len(Flat(s, m)) \in Nat
  <2>1. Flat(s, m) \in Seq(AllSymbols(s))
    BY <1>1, FlatType
  <2>. QED  BY <2>1
<1>2. 0 \in I
  <2>1. ASSUME k <= 0 PROVE k = 0
    BY <2>1
  <2>2. Len(Flat(s, 0)) \in Nat
    BY <1>0, <1>1
  <2>. QED  BY <2>1, <2>2
<1>3. ASSUME NEW m \in Nat, m \in I PROVE m + 1 \in I
  <2>1. ASSUME k <= m + 1, m + 1 <= Len(s) PROVE Len(Flat(s, k)) <= Len(Flat(s, m + 1))
    <3>1. CASE k = m + 1
      BY <1>1, <2>1, <3>1
    <3>2. CASE k <= m
      <4>1. Len(Flat(s, k)) <= Len(Flat(s, m)) /\ m <= Len(s)
        BY <1>0, <1>3, <2>1, <3>2
      <4>. DEFINE new == Symbols(s[m + 1], m + 1)
                  old == Flat(s, m)
      <4>2. Flat(s, m + 1) = old \o new /\ new \in Seq(AllSymbols(s))
        BY <2>1, FlatNext
      <4>3. old \in Seq(AllSymbols(s))
        BY <4>1, FlatType
      <4>. HIDE DEF new, old
      <4>4. Len(old \o new) = Len(old) + Len(new) /\ Len(new) \in Nat /\ Len(old) \in Nat
        BY <4>2, <4>3, ConcatProperties
      <4>5. k <= Len(s)
        BY <1>0, <2>1
      <4>6. Len(Flat(s, k)) \in Nat
        BY <1>1, <4>5
      <4>7. Len(Flat(s, k)) <= Len(old)
        BY <4>1 DEF old
      <4>. QED  BY <4>2, <4>4, <4>6, <4>7
    <3>. QED  BY <2>1, <3>1, <3>2
  <2>. QED  BY <2>1
<1>. HIDE DEF I
<1>4. n \in I
  BY <1>2, <1>3, Induction
<1>. QED  BY <1>4 DEF I

LEMMA StreamType ==
  ASSUME script \in Scripts
  PROVE  /\ Stream \in Seq(AllSymbols(script)) /\ Ascending(Stream)
         /\ Targets(Stream) \subseteq Nat \ {0}
         /\ Ends \subseteq 0..Len(Stream) /\ Nul \in AllSymbols(script)
<1>. DEFINE m == Len(script)
<1>1. m \in Nat /\ DOMAIN script = 1..m
  BY ScriptsAssumption
<1>2. Stream = Flat(script, m)
  BY <1>1 DEF Stream, Flat
<1>3. \A i \in 0..m : EndOf(i) = Len(Flat(script, i))
  BY DEF EndOf, Flat
<1>. HIDE DEF m
<1>4. /\ Stream \in Seq(AllSymbols(script)) /\ Ascending(Stream)
      /\ Targets(Stream) \subseteq 1..m
  BY <1>1, <1>2, FlatType DEF m
<1>5. ASSUME NEW i \in 0..m PROVE EndOf(i) \in 0..Len(Stream)
  <2>1. i \in Nat /\ i <= m /\ m <= m
    BY <1>1
  <2>2. Len(Flat(script, i)) <= Len(Flat(script, m))
    BY <1>1, <2>1, FlatGrows DEF m
  <2>3. Flat(script, i) \in Seq(AllSymbols(script))
    BY <2>1, FlatType DEF m
  <2>. QED  BY <1>2, <1>3, <1>4, <2>2, <2>3
<1>6. Ends \subseteq 0..Len(Stream)
  BY <1>5 DEF Ends, m
<1>. QED  BY <1>1, <1>4, <1>6 DEF AllSymbols

-----------------------------------------------------------------------------
(***************************************************************************)
(* The connection.                                                         *)
(***************************************************************************)
\* The buffer is one; what is read has arrived, and what has arrived was sent.
Typed ==
  /\ script \in Scripts
  /\ Buffer(readBuff_, AllSymbols(script))
  /\ arrived \in Nat /\ got \in Nat /\ consumed \in Nat
  /\ got <= arrived /\ arrived <= Len(Stream)
  /\ keepAlive \in BOOLEAN
  /\ \E T : answers \in Seq(T)

\* What a step of each kind does to the buffer and to the answers.
LEMMA ReadsSome ==
  ASSUME Typed, ReadSome
  PROVE  /\ Buffer(readBuff_', AllSymbols(script)) /\ got' \in got..arrived
         /\ \E k \in got..got' :
              Readable(readBuff_') = Readable(readBuff_) \o SubSeq(Stream, got + 1, k)
         /\ Nul \notin ToSet(Stream) =>
              Readable(readBuff_') = Readable(readBuff_) \o SubSeq(Stream, got + 1, got')
<1>. DEFINE S == AllSymbols(script)
            most == got + ReadMax(readBuff_)
            n == Min({arrived, most})
            data == SubSeq(Stream, got + 1, n)
<1>1. /\ Buffer(readBuff_, S) /\ Stream \in Seq(S) /\ Nul \in S /\ Len(Stream) \in Nat
      /\ arrived \in Nat /\ got \in Nat /\ got <= arrived /\ arrived <= Len(Stream)
  BY StreamType DEF Typed
<1>2. readBuff_' = ReadFromFd(readBuff_, data) /\ got' = n
  BY DEF ReadSome
<1>3. n \in Nat /\ got <= n /\ n <= arrived /\ n <= Len(Stream)
  <2>1. most \in Nat /\ got <= most
    BY <1>1, BufferAssumption DEF ReadMax, PostWritableBytes, Buffer
  <2>. HIDE DEF most
  <2>2. n \in {arrived, most} /\ n <= arrived
    BY <1>1, <2>1, FirstOf
  <2>. QED  BY <1>1, <2>1, <2>2
<1>. HIDE DEF S, most, n
<1>4. data \in Seq(S) /\ Len(data) = n - got /\ \A i \in 1..(n - got) : data[i] = Stream[got + i]
  BY <1>1, <1>3, Slice
<1>. DEFINE v == ReadFromFd(readBuff_, data)
            text == Readable(readBuff_)
<1>5. /\ Buffer(v, S)
      /\ \E k \in 0..Len(data) : Readable(v) = text \o SubSeq(data, 1, k)
      /\ Nul \notin ToSet(data) => Readable(v) = text \o data
  BY <1>1, <1>4, ReadsFrom, Zenon
<1>. HIDE DEF v, text
<1>6. \E k \in got..n : Readable(v) = text \o SubSeq(Stream, got + 1, k)
  <2>1. PICK k \in 0..Len(data) : Readable(v) = text \o SubSeq(data, 1, k)
    BY <1>5
  <2>2. k \in Nat /\ k <= n - got /\ got + k \in got..n
    BY <1>1, <1>3, <1>4, <2>1
  <2>3. SubSeq(data, 0 + 1, k) = SubSeq(Stream, (got + 0) + 1, got + k)
    BY <1>1, <1>3, <2>2, Sliced
  <2>4. 0 + 1 = 1 /\ (got + 0) + 1 = got + 1
    BY <1>1
  <2>5. SubSeq(data, 1, k) = SubSeq(Stream, got + 1, got + k)
    BY <2>3, <2>4
  <2>. HIDE DEF data
  <2>. QED  BY <2>1, <2>2, <2>5
<1>7. Nul \notin ToSet(Stream) => Nul \notin ToSet(data)
  <2>1. \A i \in 1..(n - got) : got + i \in 1..Len(Stream)
    BY <1>1, <1>3
  <2>. HIDE DEF data
  <2>. QED  BY <1>1, <1>4, <2>1 DEF ToSet
<1>8. Nul \notin ToSet(Stream) => Readable(v) = text \o data
  BY <1>5, <1>7
<1>9. readBuff_' = v /\ got' \in got..arrived
  BY <1>1, <1>2, <1>3 DEF v
<1>. QED  BY <1>2, <1>5, <1>6, <1>8, <1>9 DEF S, text

\* process() takes a front of the buffer, and sends at most one response.
LEMMA Processes ==
  ASSUME Typed, NEW verified, NEW outcome, Process(verified, outcome)
  PROVE  LET p == Parse(Fresh, readBuff_, verified) IN
         /\ Parsed(p, readBuff_) /\ readBuff_' = p.buff
         /\ Buffer(p.buff, AllSymbols(script))
         /\ Readable(p.buff) = SubSeq(Readable(readBuff_), p.buff.read - readBuff_.read + 1,
                                      Len(Readable(readBuff_)))
         /\ consumed' = consumed + p.buff.read - readBuff_.read
         /\ keepAlive' = IsKeepAlive(p.request)
         /\ \/ pc' = "crashed" /\ answers' = answers
            \/ pc' = "write" /\ \E a : a.of = p.request.of /\ answers' = Append(answers, a)
<1>. DEFINE p == Parse(Fresh, readBuff_, verified)
            b == readBuff_
            S == AllSymbols(script)
<1>1. Buffer(b, S)
  BY DEF Typed
<1>2. Parsed(p, b)
  BY <1>1, ParseParsed
<1>3. /\ readBuff_' = p.buff
      /\ consumed' = consumed + p.buff.read - readBuff_.read
      /\ keepAlive' = IsKeepAlive(p.request)
      /\ \/ pc' = "crashed" /\ answers' = answers
         \/ pc' = "write" /\ answers' = Append(answers, Answer(p.request, response_', outcome))
  BY DEF Process
<1>. HIDE DEF p
<1>4. Answer(p.request, response_', outcome).of = p.request.of
  BY DEF Answer
<1>5. /\ Buffer(p.buff, S)
      /\ Readable(p.buff) = SubSeq(Readable(b), p.buff.read - b.read + 1, Len(Readable(b)))
  <2>. DEFINE r == p.buff.read
              u == [b EXCEPT !.read = r]
  <2>1. r \in b.read..b.write /\ p.buff = [cells |-> b.cells, read |-> r, write |-> b.write]
    BY <1>2 DEF Parsed
  <2>. HIDE DEF b, S, r
  <2>2. /\ Buffer(u, S) /\ u = [cells |-> b.cells, read |-> r, write |-> b.write]
        /\ Readable(u) = SubSeq(Readable(b), r - b.read + 1, Len(Readable(b)))
    BY <1>1, <2>1, Retrieved
  <2>3. p.buff = u
    BY <2>1, <2>2
  <2>. HIDE DEF u
  <2>. QED  BY <2>2, <2>3 DEF r
<1>. QED  BY <1>2, <1>3, <1>4, <1>5 DEF p

LEMMA StreamFixed ==
  ASSUME UNCHANGED fixedVars PROVE script' = script /\ Stream' = Stream /\ Ends' = Ends
<1>1. script' = script
  BY DEF fixedVars
<1>. QED  BY <1>1 DEF Stream, Ends, EndOf

LEMMA NextFixes == ASSUME [Next]_vars PROVE UNCHANGED fixedVars
BY DEF Next, vars, Deliver, NextClient, OnRead_, ReadSome, ReadEnds, ProcessNothing, OnWrite_,
       Process

LEMMA InitTyped == ASSUME Init PROVE Typed
<1>1. script \in Scripts
  BY DEF Init
<1>2. Nul \in AllSymbols(script) /\ Len(Stream) \in Nat
  BY <1>1, StreamType
<1>3. Buffer(NewBuffer, AllSymbols(script))
  <2>. DEFINE S == AllSymbols(script)
              b == [cells |-> <<>>, read |-> 0, write |-> 0]
  <2>. HIDE DEF S
  <2>1. Buffer(b, S)
    BY DEF Buffer
  <2>. HIDE DEF b
  <2>2. Nul \in S
    BY <1>2 DEF S
  <2>3. Buffer(NewBuffer, S)
    BY <2>1, <2>2, EmptyBuffers
  <2>. QED  BY <2>3 DEF S
<1>4. \E T : answers \in Seq(T)
  <2>1. answers = <<>>
    BY DEF Init
  <2>. QED  BY <2>1
<1>5. keepAlive \in BOOLEAN
  BY DEF Init
<1>6. arrived \in Nat /\ got \in Nat /\ consumed \in Nat
  BY DEF Init
<1>7. got <= arrived /\ arrived <= Len(Stream)
  BY <1>2 DEF Init
<1>8. Buffer(readBuff_, AllSymbols(script))
  BY <1>3 DEF Init
<1>. QED  BY <1>1, <1>4, <1>5, <1>6, <1>7, <1>8 DEF Typed

LEMMA Typing == ASSUME Typed, [Next]_vars PROVE Typed'
<1>1. script' = script /\ Stream' = Stream /\ Ends' = Ends
  BY NextFixes, StreamFixed
<1>2. AllSymbols(script') = AllSymbols(script)
  BY <1>1
<1>3. CASE UNCHANGED vars
  BY <1>1, <1>3 DEF vars, fixedVars, Typed
<1>4. CASE \E n \in 1..Len(Stream) : Deliver(n)
  <2>1. PICK n \in 1..Len(Stream) : Deliver(n)
    BY <1>4
  <2>2. Len(Stream) \in Nat
    BY StreamType DEF Typed
  <2>. QED  BY <1>1, <2>1, <2>2 DEF Deliver, Typed
<1>5. CASE NextClient
  <2>1. PICK e \in Ends : arrived <= e /\ arrived' = e /\ got' = e /\ consumed' = e
    BY <1>5 DEF NextClient
  <2>2. e \in Nat /\ e <= Len(Stream)
    BY <2>1, StreamType DEF Typed
  <2>3. Buffer(readBuff_', AllSymbols(script))
    <3>1. readBuff_' = RetrieveAll(readBuff_)
      BY <1>5 DEF NextClient
    <3>2. Nul \in AllSymbols(script) /\ Buffer(readBuff_, AllSymbols(script))
      BY StreamType DEF Typed
    <3>3. Buffer(RetrieveAll(readBuff_), AllSymbols(script))
      BY <3>2, EmptyBuffers
    <3>. QED  BY <3>1, <3>3
  <2>4. answers' = answers /\ keepAlive' = keepAlive
    BY <1>5 DEF NextClient
  <2>. QED  BY <1>1, <2>1, <2>2, <2>3, <2>4 DEF Typed
<1>6. CASE OnRead_ \/ ReadEnds
  BY <1>1, <1>6 DEF OnRead_, ReadEnds, Typed
<1>7. CASE ReadSome
  <2>1. Buffer(readBuff_', AllSymbols(script)) /\ got' \in got..arrived
    BY <1>7, ReadsSome
  <2>2. UNCHANGED <<arrived, consumed, keepAlive, answers>>
    BY <1>7 DEF ReadSome
  <2>. QED  BY <1>1, <2>1, <2>2 DEF Typed
<1>8. CASE ProcessNothing \/ OnWrite_
  BY <1>1, <1>8 DEF ProcessNothing, OnWrite_, Typed
<1>9. CASE \E verified \in BOOLEAN, outcome \in Outcomes : Process(verified, outcome)
  <2>1. PICK verified \in BOOLEAN, outcome \in Outcomes : Process(verified, outcome)
    BY <1>9
  <2>. DEFINE p == Parse(Fresh, readBuff_, verified)
  <2>2. /\ Parsed(p, readBuff_) /\ readBuff_' = p.buff
        /\ Buffer(p.buff, AllSymbols(script))
        /\ consumed' = consumed + p.buff.read - readBuff_.read
        /\ keepAlive' = IsKeepAlive(p.request)
        /\ \/ answers' = answers
           \/ \E a : answers' = Append(answers, a)
    BY <2>1, Processes
  <2>. HIDE DEF p
  <2>3. consumed' \in Nat
    <3>1. p.buff.read \in readBuff_.read..readBuff_.write
      BY <2>2 DEF Parsed
    <3>2. readBuff_.read \in Nat /\ readBuff_.write \in Nat /\ consumed \in Nat
      BY DEF Typed, Buffer
    <3>. QED  BY <2>2, <3>1, <3>2
  <2>4. keepAlive' \in BOOLEAN
    BY <2>2 DEF IsKeepAlive
  <2>5. \E T : answers' \in Seq(T)
    <3>1. PICK T : answers \in Seq(T)
      BY DEF Typed
    <3>2. ASSUME NEW a, answers' = Append(answers, a) PROVE answers' \in Seq(T \cup {a})
      BY <3>1, <3>2
    <3>. QED  BY <2>2, <3>1, <3>2
  <2>6. UNCHANGED <<arrived, got>>
    BY <2>1 DEF Process
  <2>. QED  BY <1>1, <2>2, <2>3, <2>4, <2>5, <2>6 DEF Typed
<1>. QED  BY <1>3, <1>4, <1>5, <1>6, <1>7, <1>8, <1>9 DEF Next

-----------------------------------------------------------------------------
\* BufferExact, and parse() has taken nothing that was not read.
Exact ==
  Nul \notin ToSet(Stream) =>
    consumed <= got /\ Readable(readBuff_) = SubSeq(Stream, consumed + 1, got)

LEMMA Exactly == ASSUME Typed, Exact, [Next]_vars PROVE Exact'
<1>1. script' = script /\ Stream' = Stream
  BY NextFixes, StreamFixed
<1>2. SUFFICES ASSUME Nul \notin ToSet(Stream)
               PROVE  /\ consumed' <= got'
                      /\ Readable(readBuff_') = SubSeq(Stream, consumed' + 1, got')
  BY <1>1 DEF Exact, Readable
<1>3. /\ consumed \in Nat /\ got \in Nat /\ consumed <= got /\ got <= Len(Stream)
      /\ Len(Stream) \in Nat /\ Stream \in Seq(AllSymbols(script))
      /\ Readable(readBuff_) = SubSeq(Stream, consumed + 1, got)
  BY <1>2, StreamType DEF Typed, Exact
<1>4. CASE UNCHANGED <<readBuff_, consumed, got>>
  BY <1>3, <1>4
<1>5. CASE NextClient
  <2>1. PICK e \in Ends : got' = e /\ consumed' = e /\ readBuff_' = RetrieveAll(readBuff_)
    BY <1>5 DEF NextClient
  <2>2. e \in Nat
    BY <2>1, StreamType DEF Typed
  <2>3. Readable(RetrieveAll(readBuff_)) = <<>>
    BY StreamType, EmptyBuffers DEF Typed
  <2>4. SubSeq(Stream, e + 1, e) = <<>>
    BY <1>3, <2>2, SubSeqEmpty
  <2>. QED  BY <2>1, <2>2, <2>3, <2>4
<1>6. CASE ReadSome
  <2>1. /\ got' \in got..arrived /\ arrived \in Nat /\ arrived <= Len(Stream)
        /\ Readable(readBuff_') = Readable(readBuff_) \o SubSeq(Stream, got + 1, got')
    BY <1>2, <1>6, ReadsSome DEF Typed
  <2>2. consumed' = consumed
    BY <1>6 DEF ReadSome
  <2>3. SubSeq(Stream, consumed + 1, got) \o SubSeq(Stream, got + 1, got')
          = SubSeq(Stream, consumed + 1, got')
    <3>. DEFINE m == consumed + 1
                n == got'
    <3>1. /\ m \in 1..(Len(Stream) + 1) /\ got \in (m - 1)..Len(Stream)
          /\ n \in got..Len(Stream)
      BY <1>3, <2>1
    <3>. HIDE DEF m, n
    <3>. QED  BY <1>3, <3>1, ConcatAdjacentSubSeq DEF m, n
  <2>4. consumed' <= got'
    BY <1>3, <2>1, <2>2
  <2>5. Readable(readBuff_') = SubSeq(Stream, consumed + 1, got')
    <3>. DEFINE t == SubSeq(Stream, consumed + 1, got)
                u == SubSeq(Stream, got + 1, got')
                v == SubSeq(Stream, consumed + 1, got')
    <3>1. Readable(readBuff_') = Readable(readBuff_) \o u
      BY <2>1
    <3>2. Readable(readBuff_) = t /\ t \o u = v
      BY <1>3, <2>3
    <3>. HIDE DEF t, u, v
    <3>3. Readable(readBuff_') = v
      BY <3>1, <3>2
    <3>. QED  BY <3>3 DEF v
  <2>. QED  BY <2>2, <2>4, <2>5
<1>7. CASE \E verified \in BOOLEAN, outcome \in Outcomes : Process(verified, outcome)
  <2>1. PICK verified \in BOOLEAN, outcome \in Outcomes : Process(verified, outcome)
    BY <1>7
  <2>. DEFINE p == Parse(Fresh, readBuff_, verified)
              text == Readable(readBuff_)
              n == p.buff.read - readBuff_.read
  <2>2. /\ Parsed(p, readBuff_) /\ readBuff_' = p.buff
        /\ Readable(p.buff) = SubSeq(text, n + 1, Len(text))
        /\ consumed' = consumed + p.buff.read - readBuff_.read
    BY <2>1, Processes
  <2>3. got' = got
    BY <2>1 DEF Process
  <2>. HIDE DEF p
  <2>4. /\ Len(text) = got - consumed /\ Len(text) = readBuff_.write - readBuff_.read
    <3>1. Len(SubSeq(Stream, consumed + 1, got)) = got - consumed
      BY <1>3, Slice
    <3>2. Len(text) = readBuff_.write - readBuff_.read
      BY Content DEF Typed
    <3>. QED  BY <1>3, <3>1, <3>2
  <2>5. n \in Nat /\ n <= got - consumed /\ consumed' = consumed + n
    <3>1. p.buff.read \in readBuff_.read..readBuff_.write
      BY <2>2 DEF Parsed
    <3>2. readBuff_.read \in Nat /\ readBuff_.write \in Nat
      BY DEF Typed, Buffer
    <3>. QED  BY <1>3, <2>2, <2>4, <3>1, <3>2, SMTT(30)
  <2>. HIDE DEF n
  <2>6. SubSeq(text, n + 1, got - consumed)
          = SubSeq(Stream, (consumed + n) + 1, consumed + (got - consumed))
    <3>. DEFINE j == got - consumed
    <3>1. j \in Nat /\ n <= j /\ j <= got - consumed
      BY <1>3, <2>5
    <3>. HIDE DEF j
    <3>2. SubSeq(SubSeq(Stream, consumed + 1, got), n + 1, j)
            = SubSeq(Stream, (consumed + n) + 1, consumed + j)
      BY <1>3, <2>5, <3>1, Sliced
    <3>. QED  BY <1>3, <3>2 DEF j
  <2>7. consumed + (got - consumed) = got /\ consumed + n <= got
    BY <1>3, <2>5
  <2>8. Readable(p.buff) = SubSeq(text, n + 1, got - consumed)
    BY <2>2, <2>4 DEF n
  <2>9. Readable(p.buff) = SubSeq(Stream, (consumed + n) + 1, got)
    BY <2>6, <2>7, <2>8
  <2>10. consumed' <= got'
    BY <2>3, <2>5, <2>7
  <2>11. Readable(readBuff_') = SubSeq(Stream, consumed' + 1, got')
    <3>1. readBuff_' = p.buff /\ consumed' = consumed + n /\ got' = got
      BY <2>2, <2>3, <2>5
    <3>. HIDE DEF p
    <3>. QED  BY <2>9, <3>1
  <2>. QED  BY <2>10, <2>11
<1>. QED
  <2>1. CASE UNCHANGED vars
    BY <1>4, <2>1 DEF vars
  <2>2. CASE \E n \in 1..Len(Stream) : Deliver(n)
    BY <1>4, <2>2 DEF Deliver
  <2>3. CASE OnRead_ \/ ReadEnds \/ ProcessNothing \/ OnWrite_
    BY <1>4, <2>3 DEF OnRead_, ReadEnds, ProcessNothing, OnWrite_
  <2>. QED  BY <1>5, <1>6, <1>7, <2>1, <2>2, <2>3 DEF Next

LEMMA InitExact == ASSUME Init PROVE Typed /\ Exact
<1>1. Typed
  BY InitTyped
<1>2. /\ Readable(NewBuffer) = <<>> /\ SubSeq(Stream, 0 + 1, 0) = <<>>
      /\ readBuff_ = NewBuffer /\ consumed = 0 /\ got = 0
  <2>1. Stream \in Seq(AllSymbols(script)) /\ Nul \in AllSymbols(script)
    BY <1>1, StreamType DEF Typed
  <2>2. Readable(NewBuffer) = <<>>
    BY <1>1, <2>1, EmptyBuffers DEF Typed
  <2>3. SubSeq(Stream, 0 + 1, 0) = <<>>
    BY <2>1, SubSeqEmpty
  <2>. QED  BY <1>1, <2>2, <2>3 DEF Init
<1>. QED  BY <1>1, <1>2 DEF Exact

\* BufferExact: without a zero byte, readBuff_ holds what was read and not parsed, in order,
\* for any initial size, any second buffer, any script and any cuts of the network.
THEOREM BufferExactCorrect == Spec => []BufferExact
<1>1. Init => Typed /\ Exact
  BY InitExact
<1>2. Typed /\ Exact /\ [Next]_vars => Typed' /\ Exact'
  BY Typing, Exactly
<1>3. Exact => BufferExact
  BY DEF Exact, BufferExact
<1>. QED  BY <1>1, <1>2, <1>3, PTL DEF Spec

-----------------------------------------------------------------------------
\* What has not been read yet; and that the connection is kept so that what is left in the
\* buffer may still be answered.
Rest == SubSeq(Stream, got + 1, Len(Stream))
Kept == keepAlive \/ pc \notin {"write", "closed", "crashed"}

\* The numbers ascend from the answers over the buffer to what is still to be read, unless
\* the buffer will be thrown away.
TextInOrder ==
  /\ Ascending(Readable(readBuff_)) /\ Before(Readable(readBuff_), Rest)
  /\ Targets(Readable(readBuff_)) \subseteq Nat \ {0}

AnswersBefore ==
  \A k \in DOMAIN answers :
    /\ answers[k].of \in Nat
    /\ \A m \in Targets(Rest) : answers[k].of < m
    /\ Kept => \A m \in Targets(Readable(readBuff_)) : answers[k].of < m

Ordered == TextInOrder /\ AnswersBefore /\ InOrder

LEMMA RestType ==
  ASSUME Typed PROVE Targets(Rest) \subseteq Nat \ {0} /\ Rest \in Seq(AllSymbols(script))
<1>. DEFINE n == Len(Stream)
<1>1. /\ Stream \in Seq(AllSymbols(script)) /\ Targets(Stream) \subseteq Nat \ {0}
      /\ got \in Nat /\ n \in Nat /\ got <= n /\ n <= Len(Stream)
  BY StreamType DEF Typed
<1>2. Rest = SubSeq(Stream, got + 1, n)
  BY DEF Rest
<1>. HIDE DEF n
<1>. QED  BY <1>1, <1>2, Part, Slice

\* What is dropped or read leaves less to read.
LEMMA RestShrinks ==
  ASSUME Typed, Stream' = Stream, got' \in Nat, got <= got', got' <= Len(Stream)
  PROVE  Targets(Rest') \subseteq Targets(Rest)
<1>. DEFINE n == Len(Stream)
            m == got'
<1>1. /\ Stream \in Seq(AllSymbols(script)) /\ got \in Nat /\ n \in Nat /\ m \in Nat
      /\ got <= m /\ m <= n /\ n <= n /\ n <= Len(Stream)
  BY StreamType DEF Typed
<1>2. Rest = SubSeq(Stream, got + 1, n) /\ Rest' = SubSeq(Stream, m + 1, n)
  BY DEF Rest
<1>. HIDE DEF n, m
<1>. QED  BY <1>1, <1>2, Inner

LEMMA KeepsOrder ==
  ASSUME Typed, Ordered, UNCHANGED <<got, readBuff_, answers>>, Stream' = Stream, Kept' => Kept
  PROVE  Ordered'
<1>1. Rest' = Rest /\ Readable(readBuff_)' = Readable(readBuff_) /\ answers' = answers
  BY DEF Rest, Readable
<1>2. TextInOrder'
  BY <1>1 DEF Ordered, TextInOrder
<1>3. AnswersBefore'
  BY <1>1 DEF Ordered, AnswersBefore
<1>4. InOrder'
  BY <1>1 DEF Ordered, InOrder
<1>. QED  BY <1>2, <1>3, <1>4 DEF Ordered

LEMMA ClientKeepsOrder == ASSUME Typed, Ordered, NextClient PROVE Ordered'
<1>1. script' = script /\ Stream' = Stream
  <2>1. UNCHANGED fixedVars
    BY DEF NextClient
  <2>. QED  BY <2>1, StreamFixed
<1>2. PICK e \in Ends : arrived <= e /\ got' = e /\ readBuff_' = RetrieveAll(readBuff_)
  BY DEF NextClient
<1>3. e \in Nat /\ e <= Len(Stream) /\ got <= e
  BY <1>2, StreamType DEF Typed
<1>4. Targets(Rest') \subseteq Targets(Rest)
  BY <1>1, <1>2, <1>3, RestShrinks
<1>5. Readable(readBuff_') = <<>>
  BY <1>2, StreamType, EmptyBuffers DEF Typed
<1>6. Targets(<<>>) = {} /\ Ascending(<<>>)
  BY DEF Targets, Ascending
<1>7. answers' = answers
  BY DEF NextClient
<1>8. TextInOrder'
  BY <1>5, <1>6 DEF TextInOrder, Before
<1>9. AnswersBefore'
  BY <1>4, <1>5, <1>6, <1>7 DEF Ordered, AnswersBefore
<1>10. InOrder'
  BY <1>7 DEF Ordered, InOrder
<1>. QED  BY <1>8, <1>9, <1>10 DEF Ordered

LEMMA ReadKeepsOrder == ASSUME Typed, Ordered, ReadSome PROVE Ordered'
<1>. DEFINE text == Readable(readBuff_)
            n == Len(Stream)
            S == AllSymbols(script)
<1>1. script' = script /\ Stream' = Stream
  <2>1. UNCHANGED fixedVars
    BY DEF ReadSome
  <2>. QED  BY <2>1, StreamFixed
<1>2. /\ got' \in got..arrived
      /\ \E k \in got..got' : Readable(readBuff_') = text \o SubSeq(Stream, got + 1, k)
  BY ReadsSome
<1>3. PICK k \in got..got' : Readable(readBuff_') = text \o SubSeq(Stream, got + 1, k)
  BY <1>2
<1>4. /\ got \in Nat /\ got' \in Nat /\ k \in Nat /\ n \in Nat
      /\ got <= got' /\ got' <= n /\ got <= k /\ k <= got' /\ k <= n /\ n <= Len(Stream)
  BY <1>2, <1>3, StreamType DEF Typed
<1>5. Stream \in Seq(S) /\ Ascending(Stream) /\ text \in Seq(S)
  BY StreamType, Content DEF Typed
<1>6. Targets(Rest') \subseteq Targets(Rest) /\ Targets(Rest) \subseteq Nat \ {0}
  BY <1>1, <1>4, RestShrinks, RestType
<1>. DEFINE new == SubSeq(Stream, got + 1, k)
<1>7. new \in Seq(S) /\ Ascending(new) /\ Targets(new) \subseteq Targets(Rest)
  <2>1. new \in Seq(S) /\ Ascending(new)
    BY <1>4, <1>5, Slice, Part
  <2>. HIDE DEF n
  <2>2. got <= got /\ Rest = SubSeq(Stream, got + 1, n)
    BY <1>4 DEF Rest, n
  <2>3. Targets(SubSeq(Stream, got + 1, k)) \subseteq Targets(SubSeq(Stream, got + 1, n))
    BY <1>4, <1>5, <2>2, Inner
  <2>. QED  BY <2>1, <2>2, <2>3
<1>8. Before(new, Rest')
  <2>. DEFINE m == got'
  <2>1. Rest' = SubSeq(Stream, m + 1, n)
    BY <1>1 DEF Rest
  <2>2. Before(SubSeq(Stream, got + 1, k), SubSeq(Stream, k + 1, n))
    BY <1>4, <1>5, Parted
  <2>3. Targets(SubSeq(Stream, m + 1, n)) \subseteq Targets(SubSeq(Stream, k + 1, n))
    <3>1. m \in Nat /\ k <= m /\ m <= n /\ n <= n
      BY <1>4
    <3>. HIDE DEF m, n
    <3>. QED  BY <1>4, <1>5, <3>1, Inner
  <2>. QED  BY <2>1, <2>2, <2>3 DEF Before
<1>. HIDE DEF text, n, S, new
<1>9. Ascending(text) /\ Before(text, Rest) /\ Targets(text) \subseteq Nat \ {0}
  BY DEF Ordered, TextInOrder, text
<1>10. Before(text, new)
  BY <1>7, <1>9 DEF Before
<1>11. Ascending(text \o new) /\ Targets(text \o new) \subseteq Targets(text) \cup Targets(new)
  BY <1>5, <1>7, <1>9, <1>10, Joined
<1>. DEFINE text2 == Readable(readBuff_')
<1>12. text2 = text \o new
  BY <1>3 DEF new, text
<1>. HIDE DEF text2
<1>13. Ascending(text2) /\ Targets(text2) \subseteq Targets(text) \cup Targets(new)
  BY <1>11, <1>12
<1>14. Before(text2, Rest')
  BY <1>6, <1>8, <1>9, <1>13 DEF Before
<1>15. TextInOrder'
  BY <1>6, <1>7, <1>9, <1>13, <1>14 DEF TextInOrder, text2
<1>16. answers' = answers /\ Kept
  BY DEF ReadSome, Kept
<1>17. AnswersBefore'
  BY <1>6, <1>7, <1>13, <1>16 DEF Ordered, AnswersBefore, text, text2
<1>18. InOrder'
  BY <1>16 DEF Ordered, InOrder
<1>. QED  BY <1>15, <1>17, <1>18 DEF Ordered

\* What has been parsed has the number of a request line of the buffer, and only greater
\* ones are left; or there is no number, or nothing of the buffer will be looked at again.
LEMMA ParsesOne ==
  ASSUME NEW S, NEW b, Buffer(b, S), Ascending(Readable(b)), NEW x, Parsed(x, b),
         Readable(x.buff) = SubSeq(Readable(b), x.buff.read - b.read + 1, Len(Readable(b)))
  PROVE  /\ Targets(Readable(x.buff)) \subseteq Targets(Readable(b))
         /\ Ascending(Readable(x.buff))
         /\ \/ x.request.of = 0 /\ ~IsKeepAlive(x.request)
            \/ /\ x.request.of \in Targets(Readable(b))
               /\ IsKeepAlive(x.request) =>
                    \A m \in Targets(Readable(x.buff)) : x.request.of < m
<1>. DEFINE text == Readable(b)
            n == x.buff.read - b.read
            left == Readable(x.buff)
            of == x.request.of
            keep == IsKeepAlive(x.request)
<1>1. /\ text \in Seq(S) /\ Len(text) = b.write - b.read /\ Ascending(text)
      /\ b.read \in Nat /\ b.write \in Nat /\ b.read <= b.write
  BY Content DEF Buffer
<1>2. \/ x.request = Fresh
      \/ \E j : /\ j \in 2..Len(text) /\ Kind(text[j]) = "target" /\ of = Num(text[j])
               /\ (x.buff.read >= b.read + j \/ x.request.connection = "")
  BY DEF Parsed, Named
<1>3. left = SubSeq(text, n + 1, Len(text))
  OBVIOUS
<1>4. /\ Fresh.of = 0 /\ Fresh.connection = ""
      /\ x.request.connection = "" => ~keep
  BY DEF Fresh, IsKeepAlive
<1>. HIDE DEF text
<1>5. /\ n \in Nat /\ n <= Len(text) /\ Len(text) \in Nat
      /\ \A j \in Nat : x.buff.read >= b.read + j => n >= j
  <2>1. x.buff.read \in b.read..b.write
    BY DEF Parsed
  <2>. QED  BY <1>1, <2>1, SMTT(30)
<1>. HIDE DEF n, left, of, keep
<1>6. Targets(left) \subseteq Targets(text) /\ Ascending(left)
  <2>. DEFINE k == Len(text)
  <2>1. k \in Nat /\ k <= Len(text) /\ n <= k /\ left = SubSeq(text, n + 1, k)
    BY <1>3, <1>5
  <2>. HIDE DEF k
  <2>. QED  BY <1>1, <1>5, <2>1, Part
<1>8. ASSUME NEW j \in 2..Len(text), Kind(text[j]) = "target", of = Num(text[j]),
             x.buff.read >= b.read + j \/ x.request.connection = ""
      PROVE  of \in Targets(text) /\ (keep => \A m \in Targets(left) : of < m)
  <2>1. j \in Nat /\ 1 <= j /\ j <= Len(text) /\ j \in 1..Len(text)
    BY <1>5
  <2>2. of \in Targets(text)
    BY <1>8, <2>1 DEF Targets
  <2>3. CASE x.request.connection = ""
    BY <1>4, <2>2, <2>3
  <2>4. CASE x.buff.read >= b.read + j
    <3>0. n >= j
      BY <1>5, <2>1, <2>4
    <3>1. Before(SubSeq(text, 0 + 1, j), SubSeq(text, j + 1, Len(text)))
      <4>. DEFINE k == Len(text)
      <4>1. k \in Nat /\ 0 <= j /\ j <= k /\ k <= Len(text)
        BY <1>5, <2>1
      <4>. HIDE DEF k
      <4>2. Before(SubSeq(text, 0 + 1, j), SubSeq(text, j + 1, k))
        BY <1>1, <2>1, <4>1, Parted
      <4>. QED  BY <4>2 DEF k
    <3>2. Targets(left) \subseteq Targets(SubSeq(text, j + 1, Len(text)))
      <4>. DEFINE k == Len(text)
      <4>1. k \in Nat /\ j <= n /\ n <= k /\ k <= k /\ k <= Len(text)
        BY <1>5, <2>1, <3>0
      <4>2. left = SubSeq(text, n + 1, k)
        BY <1>3
      <4>. HIDE DEF k
      <4>3. Targets(SubSeq(text, n + 1, k)) \subseteq Targets(SubSeq(text, j + 1, k))
        BY <1>1, <1>5, <2>1, <4>1, Inner
      <4>. QED  BY <4>2, <4>3 DEF k
    <3>3. of \in Targets(SubSeq(text, 0 + 1, j))
      <4>. DEFINE u == SubSeq(text, 0 + 1, j)
      <4>1. /\ Len(u) = j - 0 /\ \A i \in 1..(j - 0) : u[i] = text[0 + i]
        BY <1>1, <2>1, Slice
      <4>. HIDE DEF u
      <4>2. Len(u) = j /\ u[j] = text[j] /\ j \in 1..Len(u)
        BY <2>1, <4>1
      <4>3. Kind(u[j]) = "target" /\ of = Num(u[j])
        BY <1>8, <4>2, Zenon
      <4>4. of \in Targets(u)
        BY <4>2, <4>3 DEF Targets
      <4>. QED  BY <4>4 DEF u
    <3>4. \A m \in Targets(left) : of < m
      BY <3>1, <3>2, <3>3 DEF Before
    <3>. QED  BY <2>2, <3>4
  <2>. QED  BY <1>8, <2>3, <2>4
<1>9. \/ of = 0 /\ ~keep
      \/ of \in Targets(text) /\ (keep => \A m \in Targets(left) : of < m)
  <2>1. CASE x.request = Fresh
    BY <1>4, <2>1 DEF of
  <2>2. CASE \E j : /\ j \in 2..Len(text) /\ Kind(text[j]) = "target" /\ of = Num(text[j])
                    /\ (x.buff.read >= b.read + j \/ x.request.connection = "")
    BY <1>8, <2>2
  <2>. QED  BY <1>2, <2>1, <2>2
<1>. QED  BY <1>6, <1>9 DEF left, of, keep, text

LEMMA ProcessKeepsOrder ==
  ASSUME Typed, Ordered, NEW verified, NEW outcome, Process(verified, outcome)
  PROVE  Ordered'
<1>. DEFINE p == Parse(Fresh, readBuff_, verified)
            text == Readable(readBuff_)
            left == Readable(readBuff_')
            of == p.request.of
<1>1. Rest' = Rest
  <2>1. UNCHANGED fixedVars /\ got' = got
    BY DEF Process
  <2>2. Stream' = Stream
    BY <2>1, StreamFixed
  <2>. QED  BY <2>1, <2>2 DEF Rest
<1>2. /\ Parsed(p, readBuff_) /\ readBuff_' = p.buff
      /\ Readable(p.buff) = SubSeq(text, p.buff.read - readBuff_.read + 1, Len(text))
      /\ keepAlive' = IsKeepAlive(p.request)
      /\ \/ pc' = "crashed" /\ answers' = answers
         \/ pc' = "write" /\ \E a : a.of = of /\ answers' = Append(answers, a)
  BY Processes
<1>3. Ascending(text) /\ Before(text, Rest) /\ Targets(text) \subseteq Nat \ {0}
  BY DEF Ordered, TextInOrder
<1>. HIDE DEF p
<1>4. /\ Targets(left) \subseteq Targets(text) /\ Ascending(left)
      /\ \/ of = 0 /\ ~keepAlive'
         \/ of \in Targets(text) /\ (keepAlive' => \A m \in Targets(left) : of < m)
  <2>1. Buffer(readBuff_, AllSymbols(script))
    BY DEF Typed
  <2>2. /\ Targets(Readable(p.buff)) \subseteq Targets(text) /\ Ascending(Readable(p.buff))
        /\ \/ of = 0 /\ ~IsKeepAlive(p.request)
           \/ /\ of \in Targets(text)
              /\ IsKeepAlive(p.request) => \A m \in Targets(Readable(p.buff)) : of < m
    BY <1>2, <1>3, <2>1, ParsesOne
  <2>. QED  BY <1>2, <2>2
<1>5. Kept /\ (Kept' => keepAlive')
  BY <1>2 DEF Process, Kept
<1>6. Targets(Rest) \subseteq Nat \ {0}
  BY RestType
<1>7. /\ \A k \in DOMAIN answers :
           /\ answers[k].of \in Nat
           /\ \A m \in Targets(Rest) : answers[k].of < m
           /\ \A m \in Targets(text) : answers[k].of < m
      /\ InOrder
  BY <1>5 DEF Ordered, AnswersBefore
<1>. HIDE DEF text, left, of
<1>8. TextInOrder'
  <2>1. Before(left, Rest) /\ Targets(left) \subseteq Nat \ {0}
    BY <1>3, <1>4 DEF Before
  <2>. QED  BY <1>1, <1>4, <2>1 DEF TextInOrder, left
<1>9. CASE answers' = answers
  <2>1. AnswersBefore'
    BY <1>1, <1>4, <1>7, <1>9 DEF AnswersBefore, left
  <2>2. InOrder'
    BY <1>7, <1>9 DEF InOrder
  <2>. QED  BY <1>8, <2>1, <2>2 DEF Ordered
<1>10. CASE \E a : a.of = of /\ answers' = Append(answers, a)
  <2>1. PICK a : a.of = of /\ answers' = Append(answers, a)
    BY <1>10
  <2>. DEFINE n == Len(answers)
  <2>2. /\ n \in Nat /\ DOMAIN answers = 1..n /\ DOMAIN answers' = 1..(n + 1)
        /\ answers'[n + 1] = a /\ \A k \in 1..n : answers'[k] = answers[k]
    <3>1. PICK T : answers \in Seq(T)
      BY DEF Typed
    <3>2. answers \in Seq(T \cup {a})
      BY <3>1, SeqMonotonic
    <3>. HIDE DEF n
    <3>3. /\ Append(answers, a) \in Seq(T \cup {a}) /\ Len(Append(answers, a)) = Len(answers) + 1
          /\ \A k \in 1..Len(answers) : Append(answers, a)[k] = answers[k]
          /\ Append(answers, a)[Len(answers) + 1] = a
      BY <3>2, AppendProperties
    <3>. QED  BY <2>1, <3>1, <3>3 DEF n
  <2>. HIDE DEF n
  <2>3. \A k \in DOMAIN answers' : k \in 1..n \/ k = n + 1
    BY <2>2
  <2>4. /\ of \in Nat /\ \A m \in Targets(Rest) : of < m
        /\ Kept' => \A m \in Targets(left) : of < m
    <3>1. CASE of = 0 /\ ~keepAlive'
      BY <1>5, <1>6, <3>1
    <3>2. CASE of \in Targets(text) /\ (keepAlive' => \A m \in Targets(left) : of < m)
      BY <1>3, <1>5, <3>2 DEF Before
    <3>. QED  BY <1>4, <3>1, <3>2
  <2>5. AnswersBefore'
    <3>1. ASSUME NEW k \in DOMAIN answers'
          PROVE  /\ answers'[k].of \in Nat
                 /\ \A m \in Targets(Rest) : answers'[k].of < m
                 /\ Kept' => \A m \in Targets(left) : answers'[k].of < m
      <4>1. CASE k \in 1..n
        BY <1>4, <1>7, <2>2, <4>1
      <4>2. CASE k = n + 1
        BY <2>1, <2>2, <2>4, <4>2
      <4>. QED  BY <2>3, <4>1, <4>2
    <3>. QED  BY <1>1, <3>1 DEF AnswersBefore, left
  <2>6. InOrder'
    <3>1. ASSUME NEW j \in DOMAIN answers', NEW k \in DOMAIN answers', j < k,
                 0 \notin {answers'[j].of, answers'[k].of}
          PROVE  answers'[j].of < answers'[k].of
      <4>1. j \in 1..n
        BY <2>2, <3>1
      <4>2. CASE k \in 1..n
        BY <1>7, <2>2, <3>1, <4>1, <4>2 DEF InOrder
      <4>3. CASE k = n + 1
        <5>1. answers'[k].of = of /\ of \in Targets(text)
          BY <1>4, <2>1, <2>2, <3>1, <4>3
        <5>. QED  BY <1>7, <2>2, <4>1, <5>1
      <4>. QED  BY <2>3, <4>2, <4>3
    <3>. QED  BY <3>1 DEF InOrder
  <2>. QED  BY <1>8, <2>5, <2>6 DEF Ordered
<1>. QED  BY <1>2, <1>9, <1>10

LEMMA InitOrdered == ASSUME Init PROVE Ordered
<1>1. Typed /\ answers = <<>> /\ readBuff_ = NewBuffer
  BY InitTyped DEF Init
<1>2. Readable(readBuff_) = <<>>
  <2>1. Readable(NewBuffer) = <<>>
    BY <1>1, StreamType, EmptyBuffers DEF Typed
  <2>. QED  BY <1>1, <2>1
<1>3. Targets(<<>>) = {} /\ Ascending(<<>>)
  BY DEF Targets, Ascending
<1>4. DOMAIN answers = {}
  BY <1>1
<1>. QED  BY <1>2, <1>3, <1>4 DEF Ordered, TextInOrder, AnswersBefore, InOrder, Before

LEMMA Ordering == ASSUME Typed, Ordered, [Next]_vars PROVE Ordered'
<1>1. Stream' = Stream
  BY NextFixes, StreamFixed
<1>2. CASE UNCHANGED vars
  <2>1. UNCHANGED <<got, readBuff_, answers, keepAlive, pc>>
    BY <1>2 DEF vars
  <2>. QED  BY <1>1, <2>1, KeepsOrder DEF Kept
<1>3. CASE \E n \in 1..Len(Stream) : Deliver(n)
  <2>1. UNCHANGED <<got, readBuff_, answers, keepAlive, pc>>
    BY <1>3 DEF Deliver
  <2>. QED  BY <1>1, <2>1, KeepsOrder DEF Kept
<1>4. CASE OnRead_ \/ ReadEnds \/ ProcessNothing
  <2>1. UNCHANGED <<got, readBuff_, answers>> /\ Kept
    BY <1>4 DEF OnRead_, ReadEnds, ProcessNothing, Kept
  <2>. QED  BY <1>1, <2>1, KeepsOrder
<1>5. CASE OnWrite_
  <2>1. UNCHANGED <<got, readBuff_, answers, keepAlive>> /\ (Kept' => keepAlive)
    BY <1>5 DEF OnWrite_, Kept
  <2>. QED  BY <1>1, <2>1, KeepsOrder DEF Kept
<1>6. CASE NextClient
  BY <1>6, ClientKeepsOrder
<1>7. CASE ReadSome
  BY <1>7, ReadKeepsOrder
<1>8. CASE \E verified \in BOOLEAN, outcome \in Outcomes : Process(verified, outcome)
  BY <1>8, ProcessKeepsOrder
<1>. QED  BY <1>2, <1>3, <1>4, <1>5, <1>6, <1>7, <1>8 DEF Next

\* InOrder: the answers follow the order of the requests and no request has two, for any
\* buffer, script and cuts of the network, and even where strlen drops what follows a zero.
THEOREM InOrderCorrect == Spec => []InOrder
<1>1. Init => Typed /\ Ordered
  BY InitTyped, InitOrdered
<1>2. Typed /\ Ordered /\ [Next]_vars => Typed' /\ Ordered'
  BY Typing, Ordering
<1>3. Ordered => InOrder
  BY DEF Ordered
<1>. QED  BY <1>1, <1>2, <1>3, PTL DEF Spec

-----------------------------------------------------------------------------
(***************************************************************************)
(* The shape of a request, and where it is in the stream.                  *)
(***************************************************************************)

\* Joined sequences, by index.
Glued(v, s, t, S) ==
  /\ v \in Seq(S) /\ Len(v) = Len(s) + Len(t)
  /\ Len(s) \in Nat /\ Len(t) \in Nat
  /\ \A i \in 1..Len(s) : v[i] = s[i]
  /\ \A i \in 1..Len(t) : v[Len(s) + i] = t[i]

LEMMA Concat ==
  ASSUME NEW S, NEW s \in Seq(S), NEW t \in Seq(S) PROVE Glued(s \o t, s, t, S)
<1>. DEFINE v == s \o t
<1>2. /\ v \in Seq(S) /\ Len(v) = Len(s) + Len(t) /\ Len(s) \in Nat /\ Len(t) \in Nat
      /\ \A i \in 1..(Len(s) + Len(t)) : v[i] = IF i <= Len(s) THEN s[i] ELSE t[i - Len(s)]
  BY ConcatProperties
<1>. HIDE DEF v
<1>3. ASSUME NEW i \in 1..Len(t) PROVE v[Len(s) + i] = t[i]
  <2>1. /\ Len(s) + i \in 1..(Len(s) + Len(t)) /\ ~(Len(s) + i <= Len(s))
        /\ (Len(s) + i) - Len(s) = i
    BY <1>2
  <2>. QED  BY <1>2, <2>1
<1>4. \A i \in 1..Len(s) : v[i] = s[i]
  BY <1>2
<1>. QED  BY <1>2, <1>3, <1>4 DEF Glued, v

\* The text begins with a line of three symbols and ends with CRLF.
Ended(t, S) ==
  /\ t \in Seq(S) /\ Len(t) >= 5
  /\ t[4] = CR /\ t[5] = LF /\ t[Len(t) - 1] = CR /\ t[Len(t)] = LF

LEMMA EndedJoined ==
  ASSUME NEW S, CR \in S, LF \in S, NEW t, Ended(t, S), NEW u \in Seq(S)
  PROVE  LET v == t \o (u \o CRLF) IN
         /\ Ended(v, S) /\ Len(v) = Len(t) + Len(u) + 2
         /\ \A i \in 1..Len(t) : v[i] = t[i]
         /\ \A i \in 1..Len(u) : v[Len(t) + i] = u[i]
<1>. DEFINE v == t \o (u \o CRLF)
            w == u \o CRLF
<1>1. CRLF \in Seq(S) /\ Len(CRLF) = 2 /\ CRLF[1] = CR /\ CRLF[2] = LF
  BY DEF CRLF
<1>2. /\ w \in Seq(S) /\ Len(w) = Len(u) + 2 /\ Len(u) \in Nat
      /\ \A i \in 1..Len(u) : w[i] = u[i]
      /\ w[Len(u) + 1] = CR /\ w[Len(u) + 2] = LF
  <2>0. Glued(w, u, CRLF, S)
    BY <1>1, Concat
  <2>. HIDE DEF w
  <2>1. /\ w \in Seq(S) /\ Len(w) = Len(u) + Len(CRLF) /\ Len(u) \in Nat
        /\ \A i \in 1..Len(u) : w[i] = u[i]
        /\ \A i \in 1..Len(CRLF) : w[Len(u) + i] = CRLF[i]
    BY <2>0 DEF Glued
  <2>. QED  BY <1>1, <2>1
<1>. HIDE DEF w
<1>3. v = t \o w
  BY DEF w
<1>. HIDE DEF v
<1>10. t \in Seq(S) /\ Len(t) >= 5 /\ t[4] = CR /\ t[5] = LF
  BY DEF Ended
<1>4. /\ v \in Seq(S) /\ Len(v) = Len(t) + Len(w) /\ Len(t) \in Nat
      /\ \A i \in 1..Len(t) : v[i] = t[i]
      /\ \A i \in 1..Len(w) : v[Len(t) + i] = w[i]
  <2>1. Glued(v, t, w, S)
    BY <1>2, <1>3, <1>10, Concat
  <2>. QED  BY <2>1 DEF Glued
<1>5. /\ \A i \in 1..Len(t) : v[i] = t[i]
      /\ \A i \in 1..Len(w) : v[Len(t) + i] = w[i]
  BY <1>4
<1>6. Len(v) - 1 = Len(t) + (Len(u) + 1) /\ Len(v) = Len(t) + (Len(u) + 2)
  BY <1>2, <1>4
<1>7. v[Len(v) - 1] = CR /\ v[Len(v)] = LF
  <2>1. Len(u) + 1 \in 1..Len(w) /\ Len(u) + 2 \in 1..Len(w)
    BY <1>2
  <2>. QED  BY <1>2, <1>5, <1>6, <2>1
<1>8. v[4] = CR /\ v[5] = LF /\ Len(v) >= 5
  <2>1. 4 \in 1..Len(t) /\ 5 \in 1..Len(t) /\ t[4] = CR /\ t[5] = LF
    BY <1>4 DEF Ended
  <2>. QED  BY <1>2, <1>4, <1>5, <2>1
<1>9. Len(v) = Len(t) + Len(u) + 2 /\ \A i \in 1..Len(u) : v[Len(t) + i] = u[i]
  BY <1>2, <1>4, <1>5
<1>. QED  BY <1>4, <1>5, <1>7, <1>8, <1>9 DEF Ended, v

\* A request: its request line, an empty line after h symbols that end a line, its body.
Shaped(t, q, i, h) ==
  /\ h \in Nat /\ h >= 5 /\ h + 2 <= Len(t)
  /\ t[1] = Verb(q.method) /\ t[2] = Target(q.path, i)
  /\ t[4] = CR /\ t[5] = LF
  /\ t[h - 1] = CR /\ t[h] = LF /\ t[h + 1] = CR /\ t[h + 2] = LF
  /\ Len(t) = h + 2 + Len(q.body) /\ \A j \in 1..Len(q.body) : t[h + 2 + j] = q.body[j]
  /\ \A j \in 1..Len(t) : Kind(t[j]) = "target" => j = 2

LEMMA RequestShaped ==
  ASSUME NEW q, NEW i \in Nat, q.body \in Seq(ToSet(q.body)),
         \A c \in ToSet(q.body) : Kind(c) # "target"
  PROVE  Symbols(q, i) \in Seq(Alphabet(q, i)) /\ \E h : Shaped(Symbols(q, i), q, i, h)
<1>. DEFINE S == Alphabet(q, i)
            front == <<Verb(q.method), Target(q.path, i), Version>>
            first == front \o CRLF
            kept == IF q.keep THEN <<Name, Colon, Value>> \o CRLF ELSE <<>>
            typed == IF q.form THEN <<Form>> \o CRLF ELSE <<>>
            s == Symbols(q, i)
<1>0. {Verb(q.method), Target(q.path, i), Version, CR, LF, Name, Colon, Value, Form} \subseteq S
  BY DEF Alphabet
<1>1. ToSet(q.body) \subseteq S
  BY DEF Alphabet
<1>. HIDE DEF S
<1>2. CRLF \in Seq(S) /\ Len(CRLF) = 2 /\ CRLF[1] = CR /\ CRLF[2] = LF
  BY <1>0 DEF CRLF
<1>3. Ended(first, S) /\ first[1] = Verb(q.method) /\ first[2] = Target(q.path, i)
  <2>1. /\ front \in Seq(S) /\ Len(front) = 3 /\ front[1] = Verb(q.method)
        /\ front[2] = Target(q.path, i)
    BY <1>0
  <2>. HIDE DEF front
  <2>0. Glued(first, front, CRLF, S)
    BY <1>2, <2>1, Concat
  <2>. HIDE DEF first
  <2>2. /\ first \in Seq(S) /\ Len(first) = Len(front) + Len(CRLF)
        /\ \A j \in 1..Len(front) : first[j] = front[j]
        /\ \A j \in 1..Len(CRLF) : first[Len(front) + j] = CRLF[j]
    BY <2>0 DEF Glued
  <2>3. /\ Len(first) = 5 /\ first[1] = front[1] /\ first[2] = front[2]
        /\ first[3 + 1] = CRLF[1] /\ first[3 + 2] = CRLF[2]
    BY <1>2, <2>1, <2>2
  <2>4. first[4] = CR /\ first[5] = LF
    BY <1>2, <2>3
  <2>5. Len(first) = 5 /\ first \in Seq(S)
    BY <2>2, <2>3
  <2>. DEFINE n == Len(first)
  <2>8. n = 5
    BY <2>5
  <2>. HIDE DEF n
  <2>6. first[n - 1] = CR /\ first[n] = LF /\ n >= 5
    BY <2>4, <2>8
  <2>7. Ended(first, S)
    BY <2>4, <2>5, <2>6 DEF Ended, n
  <2>. QED  BY <2>1, <2>3, <2>7
<1>. DEFINE second == first \o kept
            third == second \o typed
<1>4. Ended(second, S) /\ second[1] = Verb(q.method) /\ second[2] = Target(q.path, i)
  <2>1. CASE q.keep
    <3>. DEFINE u == <<Name, Colon, Value>>
    <3>1. u \in Seq(S)
      BY <1>0
    <3>. HIDE DEF u, first
    <3>2. second = first \o (u \o CRLF)
      BY <2>1 DEF u
    <3>. HIDE DEF second
    <3>3. 1 \in 1..Len(first) /\ 2 \in 1..Len(first)
      BY <1>3 DEF Ended
    <3>. QED  BY <1>0, <1>3, <3>1, <3>2, <3>3, EndedJoined
  <2>2. CASE ~q.keep
    <3>. HIDE DEF first
    <3>1. second = first
      BY <1>3, <2>2, ConcatEmptySeq DEF Ended
    <3>. QED  BY <1>3, <3>1
  <2>. QED  BY <2>1, <2>2
<1>. HIDE DEF second
<1>5. Ended(third, S) /\ third[1] = Verb(q.method) /\ third[2] = Target(q.path, i)
  <2>1. CASE q.form
    <3>. DEFINE u == <<Form>>
    <3>1. u \in Seq(S)
      BY <1>0
    <3>. HIDE DEF u
    <3>2. third = second \o (u \o CRLF)
      BY <2>1 DEF u
    <3>. HIDE DEF third
    <3>3. 1 \in 1..Len(second) /\ 2 \in 1..Len(second)
      BY <1>4 DEF Ended
    <3>. QED  BY <1>0, <1>4, <3>1, <3>2, <3>3, EndedJoined
  <2>2. CASE ~q.form
    <3>1. third = second
      BY <1>4, <2>2, ConcatEmptySeq DEF Ended
    <3>. QED  BY <1>4, <3>1
  <2>. QED  BY <2>1, <2>2
<1>6. s = (third \o CRLF) \o q.body
  BY DEF Symbols, third, second
<1>. HIDE DEF third
<1>. DEFINE fourth == third \o CRLF
            h == Len(third)
<1>18. fourth = third \o CRLF /\ s = fourth \o q.body
  BY <1>6
<1>19. third \in Seq(S) /\ Len(third) >= 5
  BY <1>5 DEF Ended
<1>. HIDE DEF fourth, s
<1>7. /\ fourth \in Seq(S) /\ Len(fourth) = h + 2 /\ h \in Nat /\ h >= 5
      /\ \A j \in 1..h : fourth[j] = third[j]
      /\ fourth[h + 1] = CR /\ fourth[h + 2] = LF
  <2>1. /\ fourth \in Seq(S) /\ Len(fourth) = h + Len(CRLF) /\ h \in Nat /\ h >= 5
        /\ \A j \in 1..h : fourth[j] = third[j]
        /\ \A j \in 1..Len(CRLF) : fourth[h + j] = CRLF[j]
    <3>1. Glued(fourth, third, CRLF, S)
      BY <1>2, <1>18, <1>19, Concat
    <3>. QED  BY <1>19, <3>1 DEF Glued
  <2>. HIDE DEF h
  <2>. QED  BY <1>2, <2>1
<1>8. q.body \in Seq(S)
  BY <1>1, SeqMonotonic
<1>10. third[h - 1] = CR /\ third[h] = LF /\ third[4] = CR /\ third[5] = LF
  BY <1>5 DEF Ended
<1>. HIDE DEF h
<1>11. /\ s \in Seq(S) /\ Len(s) = Len(fourth) + Len(q.body) /\ Len(q.body) \in Nat
       /\ \A j \in 1..Len(fourth) : s[j] = fourth[j]
       /\ \A j \in 1..Len(q.body) : s[Len(fourth) + j] = q.body[j]
  <2>1. Glued(s, fourth, q.body, S)
    BY <1>7, <1>8, <1>18, Concat
  <2>. QED  BY <2>1 DEF Glued
<1>12. \A j \in 1..(h + 2) : s[j] = fourth[j]
  BY <1>7, <1>11
<1>13. /\ s[1] = third[1] /\ s[2] = third[2] /\ s[4] = third[4] /\ s[5] = third[5]
       /\ s[h - 1] = third[h - 1] /\ s[h] = third[h] /\ s[h + 1] = CR /\ s[h + 2] = LF
  <2>1. {1, 2, 4, 5, h - 1, h} \subseteq 1..h /\ h + 1 \in 1..(h + 2) /\ h + 2 \in 1..(h + 2)
    BY <1>7
  <2>2. 1..h \subseteq 1..(h + 2)
    BY <1>7
  <2>. QED  BY <1>7, <1>12, <2>1, <2>2
<1>14. \A j \in 1..Len(q.body) : s[h + 2 + j] = q.body[j]
  BY <1>7, <1>11
<1>16. h + 2 <= Len(s)
  <2>. DEFINE m == Len(q.body)
              n == Len(s)
  <2>1. n = (h + 2) + m /\ h \in Nat /\ m \in Nat
    BY <1>7, <1>11
  <2>. HIDE DEF m, n
  <2>2. h + 2 <= n
    BY <2>1
  <2>. QED  BY <2>2 DEF n
<1>15. ASSUME NEW j \in 1..Len(s), Kind(s[j]) = "target" PROVE j = 2
  <2>1. Targets(s) \subseteq {i} /\ Ascending(s)
    BY SymbolsSent DEF s
  <2>2. Kind(s[2]) = "target" /\ 2 \in 1..Len(s)
    <3>1. Kind(Target(q.path, i)) = "target" /\ s[2] = Target(q.path, i)
      BY <1>5, <1>13 DEF Target, Kind
    <3>2. 2 \in 1..Len(s)
      BY <1>7, <1>16
    <3>. QED  BY <3>1, <3>2
  <2>3. Num(s[j]) = i /\ Num(s[2]) = i
    BY <1>15, <2>1, <2>2 DEF Targets
  <2>4. ~(Num(s[j]) < Num(s[2])) /\ ~(Num(s[2]) < Num(s[j]))
    BY <2>3
  <2>5. ~(j < 2) /\ ~(2 < j)
    BY <1>15, <2>1, <2>2, <2>4 DEF Ascending
  <2>. QED  BY <1>11, <2>5
<1>17. Shaped(s, q, i, h)
  BY <1>5, <1>7, <1>10, <1>11, <1>13, <1>14, <1>15, <1>16 DEF Shaped
<1>. QED  BY <1>11, <1>17 DEF S, s

LEMMA RequestType ==
  ASSUME NEW s \in Scripts, NEW i \in 1..Len(s)
  PROVE  /\ Symbols(s[i], i) \in Seq(AllSymbols(s)) /\ Len(Symbols(s[i], i)) \in Nat
         /\ s[i].body \in Seq(AllSymbols(s)) /\ Len(s[i].body) \in Nat
         /\ \E h : Shaped(Symbols(s[i], i), s[i], i, h)
<1>1. s \in Seq(ToSet(s)) /\ DOMAIN s = 1..Len(s) /\ Len(s) \in Nat
  BY ScriptsAssumption
<1>2. /\ s[i].body \in Seq(ToSet(s[i].body))
      /\ \A c \in ToSet(s[i].body) : Kind(c) # "target"
  BY <1>1, ScriptsAssumption
<1>3. /\ Symbols(s[i], i) \in Seq(Alphabet(s[i], i))
      /\ \E h : Shaped(Symbols(s[i], i), s[i], i, h)
  <2>1. i \in Nat
    BY <1>1
  <2>. QED  BY <1>2, <2>1, RequestShaped
<1>4. Alphabet(s[i], i) \subseteq AllSymbols(s) /\ ToSet(s[i].body) \subseteq AllSymbols(s)
  BY <1>1 DEF AllSymbols, Alphabet
<1>5. Symbols(s[i], i) \in Seq(AllSymbols(s)) /\ s[i].body \in Seq(AllSymbols(s))
  BY <1>2, <1>3, <1>4, SeqMonotonic
<1>6. Len(Symbols(s[i], i)) \in Nat /\ Len(s[i].body) \in Nat
  BY <1>5
<1>. QED  BY <1>3, <1>5, <1>6

\* Where a request is in the text of those up to the n-th.
Within(s, n, i) ==
  /\ Len(Flat(s, i)) = Len(Flat(s, i - 1)) + Len(Symbols(s[i], i))
  /\ \A j \in 1..Len(Symbols(s[i], i)) :
       Flat(s, n)[Len(Flat(s, i - 1)) + j] = Symbols(s[i], i)[j]

LEMMA FlatLength ==
  ASSUME NEW s \in Scripts, NEW k \in Nat, k <= Len(s)
  PROVE  Len(Flat(s, k)) \in Nat /\ Len(s) \in Nat
<1>1. Flat(s, k) \in Seq(AllSymbols(s))
  BY FlatType
<1>. QED  BY <1>1, ScriptsAssumption

LEMMA Placed ==
  ASSUME NEW s \in Scripts, NEW i \in 1..Len(s), NEW n \in i..Len(s)
  PROVE  Within(s, n, i)
<1>. DEFINE new == Symbols(s[i], i)
            I == {m \in Nat : m \in i..Len(s) => Within(s, m, i)}
<1>0. Len(s) \in Nat /\ i \in Nat /\ i - 1 \in Nat /\ (i - 1) + 1 = i /\ i - 1 <= Len(s) /\ n \in Nat
  BY ScriptsAssumption
<1>1. 0 \in I
  BY <1>0
<1>2. ASSUME NEW m \in Nat, m \in I PROVE m + 1 \in I
  <2>1. ASSUME m + 1 \in i..Len(s) PROVE Within(s, m + 1, i)
    <3>1. m + 1 <= Len(s) /\ m <= Len(s)
      BY <1>0, <2>1
    <3>. DEFINE add == Symbols(s[m + 1], m + 1)
                old == Flat(s, m)
                all == Flat(s, m + 1)
    <3>2. all = old \o add /\ add \in Seq(AllSymbols(s))
      BY <3>1, FlatNext
    <3>3. old \in Seq(AllSymbols(s))
      BY <3>1, FlatType
    <3>. HIDE DEF add, old, all
    <3>4. Glued(all, old, add, AllSymbols(s))
      BY <3>2, <3>3, Concat
    <3>5. CASE m + 1 = i
      <4>1. old = Flat(s, i - 1) /\ add = new /\ all = Flat(s, i)
        BY <1>0, <3>5 DEF old, add, all
      <4>. QED  BY <3>4, <3>5, <4>1 DEF Glued, Within
    <3>6. CASE m + 1 # i
      <4>1. m \in i..Len(s)
        BY <1>0, <2>1, <3>6
      <4>2. Within(s, m, i)
        BY <1>2, <4>1
      <4>3. Len(Flat(s, i)) <= Len(old) /\ Len(Flat(s, i)) \in Nat /\ Len(Flat(s, i - 1)) \in Nat
        BY <1>0, <4>1, FlatGrows, FlatLength DEF old
      <4>4. Len(new) \in Nat /\ Len(Flat(s, i)) = Len(Flat(s, i - 1)) + Len(new)
        BY <4>2, RequestType DEF Within
      <4>. HIDE DEF new
      <4>5. ASSUME NEW j \in 1..Len(new) PROVE all[Len(Flat(s, i - 1)) + j] = new[j]
        <5>1. Len(Flat(s, i - 1)) + j \in 1..Len(old)
          <6>1. Len(old) \in Nat
            BY <3>4 DEF Glued
          <6>. QED  BY <4>3, <4>4, <6>1
        <5>2. all[Len(Flat(s, i - 1)) + j] = old[Len(Flat(s, i - 1)) + j]
          BY <3>4, <5>1 DEF Glued
        <5>3. old[Len(Flat(s, i - 1)) + j] = new[j]
          BY <4>2 DEF Within, new, old
        <5>. QED  BY <5>2, <5>3
      <4>. QED  BY <4>4, <4>5 DEF Within, new, all
    <3>. QED  BY <3>5, <3>6
  <2>. QED  BY <2>1
<1>. HIDE DEF I
<1>3. n \in I
  BY <1>0, <1>1, <1>2, Induction
<1>. QED  BY <1>3 DEF I

LEMMA Located ==
  ASSUME NEW s \in Scripts, NEW n \in Nat, n <= Len(s), NEW p \in 1..Len(Flat(s, n))
  PROVE  \E i \in 1..n : Len(Flat(s, i - 1)) < p /\ p <= Len(Flat(s, i))
<1>0. Len(s) \in Nat /\ p \in Nat
  BY ScriptsAssumption, FlatLength
<1>. DEFINE At(m) == \E i \in 1..m : Len(Flat(s, i - 1)) < p /\ p <= Len(Flat(s, i))
            I == {m \in Nat : m <= Len(s) /\ p <= Len(Flat(s, m)) => At(m)}
<1>1. 0 \in I
  <2>1. Len(Flat(s, 0)) = 0
    <3>. DEFINE h == [i \in 1..0 |-> Symbols(s[i], i)]
    <3>1. h \in [1..0 -> Seq(AllSymbols(s))]
      OBVIOUS
    <3>. HIDE DEF h
    <3>2. FlattenSeq(h) = <<>>
      BY <3>1, Flattened
    <3>. QED  BY <3>2 DEF Flat, h
  <2>2. p >= 1
    BY FlatLength
  <2>. QED  BY <1>0, <2>1, <2>2
<1>2. ASSUME NEW m \in Nat, m \in I PROVE m + 1 \in I
  <2>1. ASSUME m + 1 <= Len(s), p <= Len(Flat(s, m + 1)) PROVE At(m + 1)
    <3>0. m <= Len(s)
      BY <1>0, <2>1
    <3>1. CASE p <= Len(Flat(s, m))
      <4>1. PICK i \in 1..m : Len(Flat(s, i - 1)) < p /\ p <= Len(Flat(s, i))
        BY <1>2, <3>0, <3>1
      <4>2. i \in 1..(m + 1)
        OBVIOUS
      <4>. QED  BY <4>1, <4>2
    <3>2. CASE ~(p <= Len(Flat(s, m)))
      <4>1. Len(Flat(s, m)) < p
        BY <1>0, <3>0, <3>2, FlatLength
      <4>2. (m + 1) - 1 = m /\ m + 1 \in 1..(m + 1)
        OBVIOUS
      <4>. QED  BY <2>1, <4>1, <4>2
    <3>. QED  BY <3>1, <3>2
  <2>. HIDE DEF At
  <2>. QED  BY <2>1
<1>. HIDE DEF I, At
<1>3. n \in I
  BY <1>1, <1>2, Induction
<1>4. p <= Len(Flat(s, n))
  BY FlatLength
<1>. QED  BY <1>3, <1>4 DEF I, At

\* The stream, request by request.
Laid(i) ==
  LET new == Symbols(script[i], i) IN
  /\ EndOf(i) = EndOf(i - 1) + Len(new)
  /\ \A j \in 1..Len(new) : Stream[EndOf(i - 1) + j] = new[j]

LEMMA Layout ==
  ASSUME script \in Scripts
  PROVE  /\ Len(script) \in Nat /\ DOMAIN script = 1..Len(script)
         /\ EndOf(0) = 0 /\ EndOf(Len(script)) = Len(Stream)
         /\ \A i \in 0..Len(script) : EndOf(i) \in Nat
         /\ \A i, j \in 0..Len(script) : i <= j => EndOf(i) <= EndOf(j)
         /\ \A i \in 1..Len(script) : Laid(i)
         /\ \A p \in 1..Len(Stream) : \E i \in 1..Len(script) : EndOf(i - 1) < p /\ p <= EndOf(i)
<1>. DEFINE n == Len(script)
<1>1. n \in Nat /\ DOMAIN script = 1..n
  BY ScriptsAssumption
<1>2. Stream = Flat(script, n)
  BY <1>1 DEF Stream, Flat
<1>3. \A i : EndOf(i) = Len(Flat(script, i))
  BY DEF EndOf, Flat
<1>4. \A i \in 0..n : i \in Nat /\ i <= n
  BY <1>1
<1>5. EndOf(0) = 0
  <2>. DEFINE h == [i \in 1..0 |-> Symbols(script[i], i)]
  <2>1. h \in [1..0 -> Seq(AllSymbols(script))]
    OBVIOUS
  <2>. HIDE DEF h
  <2>2. FlattenSeq(h) = <<>>
    BY <2>1, Flattened
  <2>. QED  BY <1>3, <2>2 DEF Flat, h
<1>6. \A i \in 0..n : EndOf(i) \in Nat
  BY <1>3, <1>4, FlatLength
<1>7. \A i, j \in 0..n : i <= j => EndOf(i) <= EndOf(j)
  BY <1>3, <1>4, FlatGrows
<1>8. ASSUME NEW i \in 1..n PROVE Laid(i)
  <2>1. n \in i..n
    BY <1>1
  <2>2. Within(script, n, i)
    BY <2>1, Placed
  <2>. QED  BY <1>2, <1>3, <2>2 DEF Within, Laid
<1>9. ASSUME NEW p \in 1..Len(Stream)
      PROVE  \E i \in 1..n : EndOf(i - 1) < p /\ p <= EndOf(i)
  <2>1. n <= Len(script) /\ p \in 1..Len(Flat(script, n))
    BY <1>1, <1>2
  <2>2. \E i \in 1..n : Len(Flat(script, i - 1)) < p /\ p <= Len(Flat(script, i))
    BY <1>1, <2>1, Located
  <2>. QED  BY <1>3, <2>2
<1>. QED  BY <1>1, <1>2, <1>3, <1>5, <1>6, <1>7, <1>8, <1>9

-----------------------------------------------------------------------------
(***************************************************************************)
(* How far parse() goes: never past a request and a part of the next.      *)
(***************************************************************************)

\* CRLF at the symbols p - 1 and p of a text.
Broken(t, p) == t[p - 1] = CR /\ t[p] = LF

LEMMA FirstLineEnd ==
  ASSUME NEW S, NEW text \in Seq(S)
  PROVE  /\ LineEnd(text) <= Len(text) => Broken(text, LineEnd(text) + 1)
         /\ \A k \in 2..Len(text) : Broken(text, k) => LineEnd(text) <= k - 1
<1>. DEFINE ends == {i \in 1..(Len(text) - 1) : SubSeq(text, i, i + 1) = CRLF}
<1>1. LineEnd(text) = IF ends = {} THEN Len(text) + 1 ELSE Min(ends)
  BY DEF LineEnd
<1>2. ASSUME NEW i \in 1..(Len(text) - 1)
      PROVE  i \in ends <=> text[i] = CR /\ text[i + 1] = LF
  <2>. DEFINE m == i - 1
              n == i + 1
              u == SubSeq(text, m + 1, n)
  <2>1. m \in Nat /\ n \in Nat /\ m <= n /\ n <= Len(text) /\ n - m = 2 /\ m + 1 = i /\ m + 2 = n
    OBVIOUS
  <2>2. u = SubSeq(text, i, i + 1)
    BY <2>1
  <2>. HIDE DEF m, n, u
  <2>3. u \in Seq(S) /\ Len(u) = n - m /\ \A j \in 1..(n - m) : u[j] = text[m + j]
    <3>1. u = SubSeq(text, m + 1, n)
      BY DEF u
    <3>. QED  BY <2>1, <3>1, Slice
  <2>4. u[1] = text[i] /\ u[2] = text[i + 1] /\ Len(u) = 2
    <3>1. 1 \in 1..(n - m) /\ 2 \in 1..(n - m) /\ m + 1 = i /\ m + 2 = i + 1
      BY <2>1 DEF n
    <3>. QED  BY <2>1, <2>3, <3>1
  <2>5. u = CRLF <=> u[1] = CR /\ u[2] = LF
    <3>. DEFINE T == S \cup {CR, LF}
    <3>1. CRLF \in Seq(T) /\ Len(CRLF) = 2 /\ CRLF[1] = CR /\ CRLF[2] = LF
      BY DEF CRLF
    <3>2. u \in Seq(T)
      BY <2>3, SeqMonotonic
    <3>. HIDE DEF T
    <3>3. ASSUME u[1] = CR, u[2] = LF PROVE u = CRLF
      <4>1. \A j \in 1..2 : u[j] = CRLF[j]
        BY <3>1, <3>3
      <4>. QED  BY <2>4, <3>1, <3>2, <4>1, SameSeq
    <3>. QED  BY <3>1, <3>3
  <2>. QED  BY <2>2, <2>4, <2>5
<1>3. ends \in SUBSET Nat /\ ends \subseteq 1..(Len(text) - 1) /\ Len(text) \in Nat
  OBVIOUS
<1>. HIDE DEF ends
<1>4. ASSUME LineEnd(text) <= Len(text) PROVE Broken(text, LineEnd(text) + 1)
  <2>1. ends # {}
    BY <1>1, <1>3, <1>4
  <2>2. LineEnd(text) \in ends
    BY <1>1, <1>3, <2>1, FirstOf
  <2>3. text[LineEnd(text)] = CR /\ text[LineEnd(text) + 1] = LF
    BY <1>2, <1>3, <2>2
  <2>. DEFINE k == LineEnd(text)
  <2>5. k \in Nat
    BY <1>3, <2>2
  <2>. HIDE DEF k
  <2>6. (k + 1) - 1 = k
    BY <2>5
  <2>4. (LineEnd(text) + 1) - 1 = LineEnd(text)
    BY <2>6 DEF k
  <2>. QED  BY <2>3, <2>4 DEF Broken
<1>5. ASSUME NEW k \in 2..Len(text), Broken(text, k) PROVE LineEnd(text) <= k - 1
  <2>1. k - 1 \in 1..(Len(text) - 1) /\ (k - 1) + 1 = k
    BY <1>3
  <2>2. k - 1 \in ends
    BY <1>2, <1>5, <2>1 DEF Broken
  <2>. QED  BY <1>1, <1>3, <2>2, FirstOf
<1>. QED  BY <1>4, <1>5

\* The line that begins behind the first d symbols of a text, if it has an end: where the
\* CRLF is that goes with it.
LEMMA LineTaken ==
  ASSUME NEW S, NEW t \in Seq(S), NEW d \in 0..Len(t), NEW u, u = SubSeq(t, d + 1, Len(t)),
         LineEnd(u) <= Len(u)
  PROVE  LET e == d + LineEnd(u) + 1 IN
         /\ Len(Line(u)) + 2 = LineEnd(u) + 1
         /\ e \in Nat /\ d + 2 <= e /\ e <= Len(t) /\ Broken(t, e)
         /\ \A p \in (d + 2)..Len(t) : Broken(t, p) => e <= p
<1>. DEFINE n == Len(t)
            k == LineEnd(u)
<1>1. n \in Nat /\ d \in Nat /\ d <= n /\ n <= Len(t)
  OBVIOUS
<1>. HIDE DEF n
<1>2. u \in Seq(S) /\ Len(u) = n - d /\ \A i \in 1..(n - d) : u[i] = t[d + i]
  <2>1. u = SubSeq(t, d + 1, n)
    BY DEF n
  <2>. QED  BY <1>1, <2>1, Slice
<1>3. k \in Nat /\ 1 <= k /\ k + 1 <= n - d
  <2>1. k \in 1..(Len(u) + 1) /\ (k <= Len(u) => k + 1 <= Len(u))
    BY <1>2, LineEnds
  <2>2. k <= Len(u)
    OBVIOUS
  <2>. HIDE DEF k
  <2>. QED  BY <1>1, <1>2, <2>1, <2>2
<1>4. Len(Line(u)) + 2 = k + 1
  <2>. DEFINE l == k - 1
  <2>1. l \in Nat /\ 0 <= l /\ l <= Len(u) /\ l - 0 = l
    BY <1>1, <1>2, <1>3
  <2>2. Line(u) = SubSeq(u, 0 + 1, l)
    BY DEF Line
  <2>. HIDE DEF l
  <2>3. Len(Line(u)) = l
    BY <1>2, <2>1, <2>2, Slice
  <2>. QED  BY <1>3, <2>3 DEF l
<1>5. Broken(u, k + 1) /\ \A i \in 2..Len(u) : Broken(u, i) => k <= i - 1
  BY <1>2, FirstLineEnd
<1>. HIDE DEF k
<1>6. \A i \in 2..(n - d) : Broken(u, i) <=> Broken(t, d + i)
  <2>1. \A i \in 2..(n - d) : i - 1 \in 1..(n - d) /\ i \in 1..(n - d) /\ d + (i - 1) = (d + i) - 1
    BY <1>1
  <2>. QED  BY <1>2, <2>1 DEF Broken
<1>7. Broken(t, d + k + 1)
  <2>1. k + 1 \in 2..(n - d) /\ d + (k + 1) = d + k + 1
    BY <1>1, <1>3
  <2>2. Broken(t, d + (k + 1))
    BY <1>5, <1>6, <2>1
  <2>. QED  BY <2>1, <2>2
<1>8. ASSUME NEW p \in (d + 2)..n, Broken(t, p) PROVE d + k + 1 <= p
  <2>1. p - d \in 2..(n - d) /\ d + (p - d) = p /\ p \in Nat
    BY <1>1
  <2>2. Broken(u, p - d)
    BY <1>6, <1>8, <2>1
  <2>3. k <= (p - d) - 1
    BY <1>2, <1>5, <2>1, <2>2
  <2>. QED  BY <1>1, <1>3, <2>1, <2>3
<1>9. d + k + 1 \in Nat /\ d + 2 <= d + k + 1 /\ d + k + 1 <= n
  BY <1>1, <1>3
<1>. QED  BY <1>4, <1>7, <1>8, <1>9 DEF n, k

States == {"REQUEST_LINE", "HEADERS", "BODY", "FINISH"}

LEMMA StateAfter ==
  ASSUME NEW q, IsRequest(q), NEW line, NEW left, NEW verified
  PROVE  LET next == AfterLine(q, line, left, verified).state IN
         /\ q.state = "REQUEST_LINE" => next = "HEADERS"
         /\ q.state = "HEADERS" => next \in {"HEADERS", "BODY", "FINISH"}
         /\ q.state = "HEADERS" /\ line = <<>> => next \in {"BODY", "FINISH"}
         /\ q.state \notin {"REQUEST_LINE", "HEADERS"} => next = "FINISH"
<1>. DEFINE next == AfterLine(q, line, left, verified)
            h == ParseHeader_(q, line)
<1>1. ASSUME q.state = "REQUEST_LINE" PROVE next.state = "HEADERS"
  <2>1. next = ParseRequestLine_(q, line)
    BY <1>1 DEF AfterLine
  <2>. HIDE DEF next
  <2>2. next.state = "HEADERS"
    BY <2>1 DEF ParseRequestLine_, IsRequest
  <2>. QED  BY <2>2
<1>2. ASSUME q.state = "HEADERS"
      PROVE  /\ next.state \in {"HEADERS", "BODY", "FINISH"}
             /\ line = <<>> => next.state \in {"BODY", "FINISH"}
  <2>1. next = IF left <= 2 THEN [h EXCEPT !.state = "FINISH"] ELSE h
    BY <1>2 DEF AfterLine
  <2>2. /\ IsRequest(h) /\ h.state \in {"HEADERS", "BODY"}
        /\ line = <<>> => h.state = "BODY"
    <3>0. line = <<>> => ~HeaderMatches(line)
      BY DEF HeaderMatches
    <3>1. CASE ~HeaderMatches(line)
      BY <3>1 DEF IsRequest, ParseHeader_
    <3>2. CASE HeaderMatches(line) /\ line[1] = Name
      BY <1>2, <3>0, <3>2 DEF IsRequest, ParseHeader_
    <3>3. CASE HeaderMatches(line) /\ line[1] # Name
      BY <1>2, <3>0, <3>3 DEF IsRequest, ParseHeader_
    <3>. QED  BY <3>1, <3>2, <3>3
  <2>. HIDE DEF next, h
  <2>3. CASE left <= 2
    <3>1. next.state = "FINISH"
      BY <2>1, <2>2, <2>3 DEF IsRequest
    <3>. QED  BY <3>1
  <2>. QED  BY <2>1, <2>2, <2>3
<1>3. ASSUME q.state \notin {"REQUEST_LINE", "HEADERS"} PROVE next.state = "FINISH"
  <2>1. next = ParseBody_(q, line, verified)
    BY <1>3 DEF AfterLine
  <2>. DEFINE path == IF q.method = "POST" /\ q.form
                         /\ q.path \in {"/register.html", "/login.html"}
                      THEN IF verified /\ {Username, Password} \subseteq ToSet(line)
                           THEN "/welcome.html" ELSE "/error.html"
                      ELSE q.path
  <2>2. next = [q EXCEPT !.state = "FINISH", !.path = path]
    BY <2>1, Zenon DEF ParseBody_
  <2>. HIDE DEF next, path
  <2>3. next.state = "FINISH"
    BY <2>2 DEF IsRequest
  <2>. QED  BY <2>3
<1>. QED  BY <1>1, <1>2, <1>3

\* One turn either takes nothing out of the buffer or the first line and its CRLF.
Took(x, y, b, verified) ==
  LET text == Readable(x.buff)
      next == AfterLine(x.request, Line(text), Len(text), verified)
  IN
  \/ y.buff = x.buff /\ y.request = x.request
  \/ ~y.goes /\ y.buff = x.buff /\ y.request = next
  \/ /\ LineEnd(text) <= Len(text) /\ y.request = next
     /\ y.buff.read = x.buff.read + (Len(Line(text)) + 2)

LEMMA TurnTakes ==
  ASSUME NEW S, NEW b, Buffer(b, S), NEW x, Parsed(x, b), NEW verified
  PROVE  /\ Took(x, Turn(x, verified), b, verified)
         /\ Readable(x.buff) =
              SubSeq(Readable(b), (x.buff.read - b.read) + 1, Len(Readable(b)))
<1>. DEFINE text == Readable(x.buff)
            line == Line(text)
            next == AfterLine(x.request, line, Len(text), verified)
            y == Turn(x, verified)
            n == Len(line) + 2
<1>1. /\ x = [goes |-> x.goes, ok |-> x.ok, request |-> x.request, buff |-> x.buff]
      /\ IsRequest(x.request) /\ x.buff.read \in b.read..b.write
      /\ x.buff = [cells |-> b.cells, read |-> x.buff.read, write |-> b.write]
  BY DEF Parsed
<1>2. /\ Buffer(x.buff, S)
      /\ text = SubSeq(Readable(b), (x.buff.read - b.read) + 1, Len(Readable(b)))
  <2>1. x.buff = [b EXCEPT !.read = x.buff.read]
    BY <1>1 DEF Buffer
  <2>. QED  BY <1>1, <2>1, Retrieved
<1>3. text \in Seq(S) /\ LineEnd(text) \in 1..(Len(text) + 1) /\ Len(text) \in Nat
  <2>1. text \in Seq(S)
    BY <1>2, Content
  <2>. HIDE DEF text
  <2>2. LineEnd(text) \in 1..(Len(text) + 1) /\ Len(text) \in Nat
    BY <2>1, LineEnds
  <2>. QED  BY <2>1, <2>2
<1>. HIDE DEF text
<1>4. y = IF ~x.goes \/ text = <<>> \/ x.request.state = "FINISH" THEN [x EXCEPT !.goes = FALSE]
          ELSE IF x.request.state = "REQUEST_LINE" /\ ~RequestLineMatches(line)
            THEN [x EXCEPT !.goes = FALSE, !.ok = FALSE]
          ELSE IF LineEnd(text) > Len(text)
            THEN [x EXCEPT !.goes = FALSE, !.request = next]
          ELSE [x EXCEPT !.request = next, !.buff = Retrieve(x.buff, n)]
  BY Zenon DEF Turn, text, line
<1>5. Retrieve(x.buff, n) = [x.buff EXCEPT !.read = x.buff.read + n]
  BY Zenon DEF Retrieve
<1>. HIDE DEF y, n, next, line
<1>6. ASSUME \/ y = [x EXCEPT !.goes = FALSE]
             \/ y = [x EXCEPT !.goes = FALSE, !.ok = FALSE]
      PROVE  y.buff = x.buff /\ y.request = x.request
  BY <1>1, <1>6
<1>7. ASSUME y = [x EXCEPT !.goes = FALSE, !.request = next]
      PROVE  ~y.goes /\ y.buff = x.buff /\ y.request = next
  BY <1>1, <1>7
<1>8. ASSUME y = [x EXCEPT !.request = next, !.buff = Retrieve(x.buff, n)]
      PROVE  y.request = next /\ y.buff.read = x.buff.read + n
  <2>1. Retrieve(x.buff, n).read = x.buff.read + n
    BY <1>1, <1>5
  <2>. QED  BY <1>1, <1>8, <2>1
<1>9. Took(x, y, b, verified)
  BY <1>3, <1>4, <1>6, <1>7, <1>8 DEF Took, text, next, line, n
<1>. QED  BY <1>2, <1>9 DEF y, text

\* The text begins with a request whose empty line follows symbol h; if it goes on
\* to the symbol f, a line ends there behind the request.
Marked(t, h, f) ==
  /\ h \in Nat /\ f \in Nat /\ 5 <= h /\ h + 4 <= f
  /\ h <= Len(t) => Broken(t, h)
  /\ h + 2 <= Len(t) => Broken(t, h + 2)
  /\ f <= Len(t) => Broken(t, f)

\* How far parse() is by then.
Bounded(x, b, h, f) ==
  LET d == x.buff.read - b.read
      state == x.request.state
  IN
  /\ state \in States
  /\ d <= f
  /\ d > 0 => Readable(b)[d] = LF
  /\ state = "REQUEST_LINE" => d = 0
  /\ state = "HEADERS" => d <= h
  /\ state = "BODY" => d <= h + 2

LEMMA TurnBounded ==
  ASSUME NEW S, NEW b, Buffer(b, S), NEW x, Parsed(x, b), NEW verified,
         NEW h, NEW f, Marked(Readable(b), h, f), Bounded(x, b, h, f)
  PROVE  x.request.state = "FINISH" \/ Bounded(Turn(x, verified), b, h, f)
<1>. DEFINE t == Readable(b)
            d == x.buff.read - b.read
            y == Turn(x, verified)
            u == Readable(x.buff)
            line == Line(u)
            state == x.request.state
<1>1. Took(x, y, b, verified) /\ u = SubSeq(t, d + 1, Len(t))
  BY TurnTakes
<1>2. t \in Seq(S) /\ Len(t) \in Nat /\ d \in 0..Len(t) /\ b.read \in Nat /\ x.buff.read \in Nat
  <2>1. x.buff.read \in b.read..b.write /\ b.read \in Nat /\ b.write \in Nat
    BY DEF Parsed, Buffer
  <2>2. t \in Seq(S) /\ Len(t) = b.write - b.read
    BY Content
  <2>. HIDE DEF t
  <2>. QED  BY <2>1, <2>2
<1>3. /\ h \in Nat /\ f \in Nat /\ 5 <= h /\ h + 4 <= f
      /\ h <= Len(t) => Broken(t, h)
      /\ h + 2 <= Len(t) => Broken(t, h + 2)
      /\ f <= Len(t) => Broken(t, f)
  BY DEF Marked
<1>4. /\ state \in States /\ d <= f /\ (d > 0 => t[d] = LF)
      /\ state = "REQUEST_LINE" => d = 0
      /\ state = "HEADERS" => d <= h
      /\ state = "BODY" => d <= h + 2
  BY DEF Bounded
<1>5. CASE y.buff = x.buff /\ y.request = x.request
  BY <1>5 DEF Bounded
<1>. DEFINE next == AfterLine(x.request, line, Len(u), verified)
<1>6. /\ state = "REQUEST_LINE" => next.state = "HEADERS"
      /\ state = "HEADERS" => next.state \in {"HEADERS", "BODY", "FINISH"}
      /\ state = "HEADERS" /\ line = <<>> => next.state \in {"BODY", "FINISH"}
      /\ state \notin {"REQUEST_LINE", "HEADERS"} => next.state = "FINISH"
  <2>1. IsRequest(x.request)
    BY DEF Parsed
  <2>. HIDE DEF line
  <2>. QED  BY <2>1, StateAfter
<1>. HIDE DEF t, line
<1>7. CASE y.buff = x.buff /\ y.request = next
  <2>1. y.buff.read - b.read = d /\ y.request.state = next.state
    BY <1>7
  <2>. HIDE DEF y, d, next, state
  <2>2. /\ y.request.state \in States /\ y.request.state # "REQUEST_LINE"
        /\ y.request.state = "HEADERS" => d <= h
        /\ y.request.state = "BODY" => d <= h + 2
    BY <1>2, <1>3, <1>4, <1>6, <2>1 DEF States
  <2>3. Bounded(y, b, h, f)
    BY <1>4, <2>1, <2>2 DEF Bounded, t
  <2>. QED  BY <2>3 DEF y
<1>8. CASE LineEnd(u) <= Len(u) /\ y.request = next /\ y.buff.read = x.buff.read + (Len(line) + 2)
  <2>. DEFINE e == d + LineEnd(u) + 1
              dd == y.buff.read - b.read
  <2>1. /\ Len(line) + 2 = LineEnd(u) + 1
        /\ e \in Nat /\ d + 2 <= e /\ e <= Len(t) /\ Broken(t, e)
        /\ \A p \in (d + 2)..Len(t) : Broken(t, p) => e <= p
    <3>. HIDE DEF u, d
    <3>. QED  BY <1>1, <1>2, <1>8, LineTaken DEF line
  <2>2. LineEnd(u) \in Nat
    <3>1. u \in Seq(S)
      <4>. HIDE DEF u, d
      <4>. DEFINE n == Len(t)
      <4>1. d \in Nat /\ n \in Nat /\ d <= n /\ n <= Len(t) /\ u = SubSeq(t, d + 1, n)
        BY <1>1, <1>2
      <4>. HIDE DEF n
      <4>. QED  BY <1>2, <4>1, Slice
    <3>. HIDE DEF u
    <3>2. LineEnd(u) \in 1..(Len(u) + 1) /\ Len(u) \in Nat
      BY <3>1, LineEnds
    <3>. QED  BY <3>2
  <2>3. dd = e
    <3>. DEFINE k == LineEnd(u)
                r == x.buff.read
    <3>1. y.buff.read = r + (k + 1)
      BY <1>8, <2>1
    <3>2. k \in Nat /\ r \in Nat /\ b.read \in Nat
      BY <1>2, <2>2
    <3>. HIDE DEF k, r, y
    <3>3. (r + (k + 1)) - b.read = (r - b.read) + k + 1
      BY <3>2
    <3>. QED  BY <3>1, <3>3 DEF k, r
  <2>. HIDE DEF e, d
  <2>4. /\ d \in Nat /\ e \in Nat /\ d + 2 <= e /\ e <= Len(t) /\ Broken(t, e)
        /\ t[e] = LF /\ t[e - 1] = CR
    BY <1>2, <2>1 DEF Broken
  <2>5. \A p \in Nat : d + 2 <= p /\ (p <= Len(t) => Broken(t, p)) => e <= p
    BY <1>2, <2>1, <2>4
  <2>6. h \in Nat /\ h + 2 \in Nat /\ f \in Nat
    BY <1>3
  <2>7. CASE state = "REQUEST_LINE"
    <3>1. d + 2 <= h /\ d + 2 <= f
      BY <1>3, <1>4, <2>4, <2>7
    <3>2. e <= h /\ e <= f
      BY <1>3, <2>5, <2>6, <3>1
    <3>3. y.request.state = "HEADERS"
      BY <1>6, <1>8, <2>7
    <3>. HIDE DEF y
    <3>. QED  BY <2>3, <2>4, <3>2, <3>3 DEF Bounded, States, t, y
  <2>8. CASE state = "HEADERS"
    <3>1. d <= h /\ d + 2 <= h + 2 /\ d + 2 <= f
      BY <1>3, <1>4, <2>4, <2>8
    <3>2. e <= h + 2 /\ e <= f
      BY <1>3, <2>5, <2>6, <3>1
    <3>3. CASE d = h
      <4>1. e = h + 2 /\ Len(line) = 0
        <5>1. e = h + 2
          BY <2>4, <2>6, <3>2, <3>3
        <5>2. LineEnd(u) = 1
          BY <2>2, <2>6, <3>3, <5>1 DEF e
        <5>3. Len(line) \in Nat
          <6>1. line = SubSeq(u, 1, 0)
            BY <5>2 DEF line, Line
          <6>. HIDE DEF u
          <6>2. line = <<>>
            BY <6>1
          <6>. QED  BY <6>2
        <5>. QED  BY <2>1, <5>1, <5>2, <5>3
      <4>2. line = <<>>
        <5>1. line = SubSeq(u, 1, LineEnd(u) - 1)
          BY DEF line, Line
        <5>2. LineEnd(u) = 1
          BY <2>2, <2>6, <3>3, <4>1 DEF e
        <5>. HIDE DEF u
        <5>3. SubSeq(u, 1, LineEnd(u) - 1) = <<>>
          BY <5>2
        <5>. QED  BY <5>1, <5>3
      <4>3. y.request.state \in {"BODY", "FINISH"}
        BY <1>6, <1>8, <2>8, <4>2
      <4>. HIDE DEF y
      <4>. QED  BY <2>3, <2>4, <3>2, <4>3 DEF Bounded, States, t, y
    <3>4. CASE d # h
      <4>1. d + 2 <= h
        <5>1. CASE d = h - 1
          <6>1. h <= Len(t) /\ d > 0
            BY <1>3, <2>4, <5>1, <1>2
          <6>2. t[d] = CR /\ t[d] = LF
            BY <1>3, <1>4, <5>1, <6>1 DEF Broken
          <6>. QED  BY <6>2 DEF CR, LF
        <5>. QED  BY <2>4, <2>6, <3>1, <3>4, <5>1
      <4>2. e <= h
        BY <1>3, <2>5, <2>6, <4>1
      <4>3. y.request.state \in {"HEADERS", "BODY", "FINISH"}
        BY <1>6, <1>8, <2>8
      <4>. HIDE DEF y
      <4>. QED  BY <2>3, <2>4, <2>6, <3>2, <4>2, <4>3 DEF Bounded, States, t, y
    <3>. QED  BY <3>3, <3>4
  <2>9. CASE state = "BODY"
    <3>1. d + 2 <= f
      BY <1>3, <1>4, <2>4, <2>9
    <3>2. e <= f
      BY <1>3, <2>5, <2>6, <3>1
    <3>3. y.request.state = "FINISH"
      BY <1>6, <1>8, <2>9
    <3>. HIDE DEF y
    <3>. QED  BY <2>3, <2>4, <3>2, <3>3 DEF Bounded, States, t, y
  <2>. QED  BY <1>4, <2>7, <2>8, <2>9 DEF States
<1>. QED  BY <1>1, <1>5, <1>7, <1>8 DEF Took, line

\* A loop that has ended, or is done with the request, changes nothing any more.
LEMMA Parked ==
  ASSUME NEW x, NEW verified, x.request.state = "FINISH" \/ ~x.goes \/ Readable(x.buff) = <<>>
  PROVE  Turn(x, verified) = [x EXCEPT !.goes = FALSE]
BY Zenon DEF Turn

LEMMA ParseBounded ==
  ASSUME NEW S, NEW b, Buffer(b, S), NEW verified, NEW h, NEW f, Marked(Readable(b), h, f)
  PROVE  Bounded(Parse(Fresh, b, verified), b, h, f)
<1>. DEFINE m == ReadableBytes(b)
<1>1. m \in Nat /\ b.read \in Nat /\ b.read \in b.read..b.write
  BY DEF ReadableBytes, Buffer
<1>2. PICK turn :
        /\ Parse(Fresh, b, verified) = turn[m]
        /\ turn[0] = Start(Fresh, b)
        /\ \A n \in 0..(m - 1) : turn[n + 1] = Turn(turn[n], verified)
  BY <1>1, ParseUnfolds
<1>. DEFINE Fine(x) == Parsed(x, b) /\ Bounded(x, b, h, f)
            I == {n \in Nat : n <= m => Fine(turn[n])}
<1>3. 0 \in I
  <2>1. Parsed(Start(Fresh, b), b)
    <3>1. IsRequest(Fresh)
      BY DEF IsRequest, Fresh
    <3>2. b = [cells |-> b.cells, read |-> b.read, write |-> b.write]
      BY DEF Buffer
    <3>. QED  BY <1>1, <3>1, <3>2 DEF Start, Parsed
  <2>2. Bounded(Start(Fresh, b), b, h, f)
    <3>1. Start(Fresh, b).buff.read - b.read = 0
      BY <1>1 DEF Start
    <3>2. Start(Fresh, b).request.state = "REQUEST_LINE"
      BY DEF Start, Fresh
    <3>3. 0 <= f /\ f \in Nat
      BY DEF Marked
    <3>. QED  BY <3>1, <3>2, <3>3 DEF Bounded, States
  <2>. QED  BY <1>2, <2>1, <2>2
<1>. HIDE DEF m
<1>4. ASSUME NEW n \in Nat, n \in I PROVE n + 1 \in I
  <2>1. ASSUME n + 1 <= m PROVE Fine(turn[n + 1])
    <3>1. n \in 0..(m - 1) /\ n <= m
      BY <1>1, <2>1
    <3>. DEFINE x == turn[n]
    <3>2. Parsed(x, b) /\ Bounded(x, b, h, f)
      BY <1>4, <3>1
    <3>3. turn[n + 1] = Turn(x, verified)
      BY <1>2, <3>1
    <3>. HIDE DEF x
    <3>4. Parsed(Turn(x, verified), b)
      BY <3>2, TurnParsed
    <3>5. CASE x.request.state # "FINISH"
      <4>1. Bounded(Turn(x, verified), b, h, f)
        BY <3>2, <3>5, TurnBounded
      <4>. QED  BY <3>3, <3>4, <4>1
    <3>6. CASE x.request.state = "FINISH"
      <4>1. Turn(x, verified) = [x EXCEPT !.goes = FALSE]
        BY <3>6, Parked
      <4>2. Turn(x, verified).buff = x.buff /\ Turn(x, verified).request = x.request
        <5>1. x = [goes |-> x.goes, ok |-> x.ok, request |-> x.request, buff |-> x.buff]
          BY <3>2 DEF Parsed
        <5>. QED  BY <4>1, <5>1
      <4>3. Bounded(Turn(x, verified), b, h, f)
        BY <3>2, <4>2, Zenon DEF Bounded
      <4>. QED  BY <3>3, <3>4, <4>3
    <3>. QED  BY <3>5, <3>6
  <2>. HIDE DEF Fine
  <2>. QED  BY <2>1
<1>. HIDE DEF I, Fine
<1>5. m \in I
  BY <1>1, <1>3, <1>4, Induction
<1>6. m <= m
  BY <1>1
<1>. QED  BY <1>2, <1>5, <1>6 DEF I, Fine

LEMMA LineLength ==
  ASSUME NEW S, NEW t \in Seq(S)
  PROVE  /\ Line(t) \in Seq(S) /\ LineEnd(t) \in Nat /\ Len(Line(t)) = LineEnd(t) - 1
         /\ Len(Line(t)) <= Len(t) /\ \A i \in 1..Len(Line(t)) : Line(t)[i] = t[i]
<1>. DEFINE l == LineEnd(t) - 1
<1>1. LineEnd(t) \in Nat /\ l \in Nat /\ 0 <= l /\ l <= Len(t) /\ l - 0 = l
  <2>1. LineEnd(t) \in 1..(Len(t) + 1) /\ Len(t) \in Nat
    BY LineEnds
  <2>. QED  BY <2>1
<1>2. Line(t) = SubSeq(t, 0 + 1, l)
  BY DEF Line
<1>. HIDE DEF l
<1>3. /\ Line(t) \in Seq(S) /\ Len(Line(t)) = l
      /\ \A i \in 1..l : Line(t)[i] = t[0 + i]
  BY <1>1, <1>2, Slice
<1>4. \A i \in 1..l : 0 + i = i
  BY <1>1
<1>. QED  BY <1>1, <1>3, <1>4 DEF l

\* Where the headers of a request end in the stream, with an empty line.
HeadEnd(i) == EndOf(i) - Len(script[i].body)

LEMMA Heads ==
  ASSUME script \in Scripts, NEW i \in 1..Len(script)
  PROVE  /\ HeadEnd(i) \in Nat /\ HeadEnd(i) <= EndOf(i) /\ EndOf(i - 1) + 7 <= HeadEnd(i)
         /\ Broken(Stream, HeadEnd(i)) /\ EndOf(i - 1) \in Nat /\ EndOf(i) \in Nat
<1>. DEFINE new == Symbols(script[i], i)
            start == EndOf(i - 1)
            end == EndOf(i)
            m == Len(script[i].body)
<1>1. Len(new) \in Nat /\ m \in Nat /\ \E h : Shaped(new, script[i], i, h)
  BY RequestType
<1>2. PICK h : Shaped(new, script[i], i, h)
  BY <1>1
<1>3. /\ h \in Nat /\ h >= 5 /\ h + 2 <= Len(new) /\ new[h + 1] = CR /\ new[h + 2] = LF
      /\ Len(new) = h + 2 + m
  BY <1>2 DEF Shaped
<1>4. /\ Len(script) \in Nat /\ \A k \in 0..Len(script) : EndOf(k) \in Nat
      /\ Laid(i)
  BY Layout
<1>5. i - 1 \in 0..Len(script) /\ i \in 0..Len(script)
  BY <1>4
<1>6. /\ end = start + Len(new) /\ start \in Nat /\ end \in Nat
      /\ \A j \in 1..Len(new) : Stream[start + j] = new[j]
  BY <1>4, <1>5 DEF Laid
<1>7. HeadEnd(i) = end - m
  BY DEF HeadEnd
<1>. HIDE DEF new, start, end, m
<1>8. /\ end - m = start + (h + 2) /\ (end - m) - 1 = start + (h + 1) /\ end - m \in Nat
      /\ end - m <= end /\ start + 7 <= end - m
  BY <1>1, <1>3, <1>6
<1>9. h + 1 \in 1..Len(new) /\ h + 2 \in 1..Len(new)
  BY <1>1, <1>3
<1>10. Stream[start + (h + 1)] = CR /\ Stream[start + (h + 2)] = LF
  BY <1>3, <1>6, <1>9
<1>. QED  BY <1>6, <1>7, <1>8, <1>10 DEF Broken, start, end

\* What parse() has in hand when it keeps the connection is the front of the stream from
\* the i-th request on, behind what was left of the request before, without a line end.  It
\* takes no more of it than the i-th request and a part of the headers of the next.
LEMMA ConsumesOne ==
  ASSUME script \in Scripts, NEW b, Buffer(b, AllSymbols(script)),
         NEW c \in Nat, NEW g \in Nat, c <= g, g <= Len(Stream),
         Readable(b) = SubSeq(Stream, c + 1, g), NEW verified,
         IsKeepAlive(Parse(Fresh, b, verified).request)
  PROVE  LET x == Parse(Fresh, b, verified)
             taken == c + x.buff.read - b.read
         IN
         \A k \in 2..Len(script) : HeadEnd(k) <= taken + 1 => HeadEnd(k - 1) <= c + 1
<1>. DEFINE x == Parse(Fresh, b, verified)
            t == Readable(b)
            d == x.buff.read - b.read
            S == AllSymbols(script)
            n == Len(script)
<1>1. /\ n \in Nat /\ DOMAIN script = 1..n /\ EndOf(0) = 0 /\ EndOf(n) = Len(Stream)
      /\ \A i \in 0..n : EndOf(i) \in Nat
      /\ \A i, j \in 0..n : i <= j => EndOf(i) <= EndOf(j)
      /\ \A i \in 1..n : Laid(i)
      /\ \A p \in 1..Len(Stream) : \E i \in 1..n : EndOf(i - 1) < p /\ p <= EndOf(i)
  BY Layout
<1>2. Stream \in Seq(S) /\ Len(Stream) \in Nat
  BY StreamType
<1>3. /\ t \in Seq(S) /\ Len(t) = g - c
      /\ \A j \in 1..(g - c) : t[j] = Stream[c + j]
  BY <1>2, Slice
<1>4. PICK j : Named(t, x.request.of, j)
  <2>1. Parsed(x, b)
    BY ParseParsed
  <2>2. IsKeepAlive(x.request)
    OBVIOUS
  <2>. HIDE DEF x, t
  <2>3. x.request.connection # "" /\ Fresh.connection = ""
    BY <2>2 DEF IsKeepAlive, Fresh
  <2>. QED  BY <2>1, <2>3 DEF Parsed, t
<1>5. /\ j \in 2..Len(t) /\ j <= Len(Line(t)) /\ Kind(t[j]) = "target" /\ j \in Nat
      /\ c + j \in 1..Len(Stream) /\ t[j] = Stream[c + j]
  <2>1. j \in 2..Len(t) /\ j <= Len(Line(t)) /\ Kind(t[j]) = "target"
    BY <1>4 DEF Named
  <2>. HIDE DEF t
  <2>2. j \in 1..(g - c) /\ c + j \in 1..Len(Stream)
    BY <1>2, <1>3, <2>1
  <2>. QED  BY <1>3, <2>1, <2>2
<1>6. PICK i \in 1..n : EndOf(i - 1) < c + j /\ c + j <= EndOf(i)
  BY <1>1, <1>5
<1>. DEFINE new == Symbols(script[i], i)
<1>7. Len(new) \in Nat /\ \E h : Shaped(new, script[i], i, h)
  BY RequestType
<1>8. PICK h : Shaped(new, script[i], i, h)
  BY <1>7
<1>9. /\ h \in Nat /\ h >= 5 /\ h + 2 <= Len(new)
      /\ new[h - 1] = CR /\ new[h] = LF /\ new[h + 1] = CR /\ new[h + 2] = LF
      /\ \A k \in 1..Len(new) : Kind(new[k]) = "target" => k = 2
  BY <1>8 DEF Shaped
<1>10. /\ EndOf(i) = EndOf(i - 1) + Len(new) /\ EndOf(i - 1) \in Nat /\ EndOf(i) \in Nat
       /\ \A k \in 1..Len(new) : Stream[EndOf(i - 1) + k] = new[k]
  <2>1. Laid(i)
    BY <1>1
  <2>2. i \in 0..n /\ i - 1 \in 0..n
    BY <1>1
  <2>3. EndOf(i - 1) \in Nat /\ EndOf(i) \in Nat
    BY <1>1, <2>2
  <2>. QED  BY <2>1, <2>3 DEF Laid
<1>. HIDE DEF new, t, x, n
<1>. DEFINE e == j - 2
            start == EndOf(i - 1)
<1>11. e \in Nat /\ start = c + e
  <2>. DEFINE k == (c + j) - start
  <2>0. start \in Nat /\ EndOf(i) \in Nat /\ EndOf(i) = start + Len(new) /\ start < c + j
    BY <1>6, <1>10
  <2>1. k \in 1..Len(new) /\ start + k = c + j
    <3>. HIDE DEF start
    <3>. QED  BY <1>5, <1>6, <1>7, <2>0
  <2>2. new[k] = t[j]
    BY <1>5, <1>10, <2>1
  <2>. HIDE DEF k
  <2>3. k = 2
    BY <1>5, <1>9, <2>1, <2>2
  <2>. HIDE DEF start
  <2>. QED  BY <1>5, <2>0, <2>1, <2>3
<1>. HIDE DEF e
<1>. DEFINE f == e + Len(new) + 5
            hh == e + h
<1>12. \A k \in 1..Len(new) : e + k <= Len(t) => t[e + k] = new[k]
  <2>1. ASSUME NEW k \in 1..Len(new), e + k <= Len(t) PROVE t[e + k] = new[k]
    <3>1. e + k \in 1..(g - c) /\ c + (e + k) = (c + e) + k
      BY <1>3, <1>7, <1>11, <2>1
    <3>. QED  BY <1>3, <1>10, <1>11, <3>1
  <2>. QED  BY <2>1
<1>13. i + 1 <= n => /\ f <= Len(t) => Broken(t, f)
                     /\ EndOf(i) + 7 <= HeadEnd(i + 1)
  <2>. SUFFICES ASSUME i + 1 <= n
                PROVE  (f <= Len(t) => Broken(t, f)) /\ EndOf(i) + 7 <= HeadEnd(i + 1)
    OBVIOUS
  <2>. DEFINE k == i + 1
              more == Symbols(script[k], k)
              end == EndOf(i)
  <2>1. k \in 1..n /\ k - 1 = i
    BY <1>1
  <2>2. Len(more) \in Nat /\ \E l : Shaped(more, script[k], k, l)
    BY <2>1, RequestType DEF n
  <2>3. \A m \in 1..Len(more) : Stream[end + m] = more[m]
    <3>1. Laid(k)
      BY <1>1, <2>1
    <3>. HIDE DEF k
    <3>. QED  BY <2>1, <3>1 DEF Laid
  <2>4. Len(more) >= 7 /\ more[4] = CR /\ more[5] = LF
    <3>1. PICK l : Shaped(more, script[k], k, l)
      BY <2>2
    <3>. HIDE DEF more
    <3>2. l \in Nat /\ l >= 5 /\ l + 2 <= Len(more) /\ more[4] = CR /\ more[5] = LF
      BY <3>1 DEF Shaped
    <3>. QED  BY <2>2, <3>2
  <2>5. end + 7 <= HeadEnd(k)
    <3>. HIDE DEF k
    <3>. QED  BY <2>1, Heads DEF n
  <2>. HIDE DEF more
  <2>6. ASSUME f <= Len(t) PROVE Broken(t, f)
    <3>1. f - 1 \in 1..(g - c) /\ f \in 1..(g - c)
      BY <1>3, <1>7, <1>11, <2>6
    <3>2. end \in Nat /\ end = (c + e) + Len(new)
      BY <1>10, <1>11
    <3>. HIDE DEF end
    <3>3. c + (f - 1) = end + 4 /\ c + f = end + 5
      BY <1>7, <1>11, <3>2
    <3>. HIDE DEF f
    <3>4. t[f - 1] = Stream[end + 4] /\ t[f] = Stream[end + 5]
      BY <1>3, <3>1, <3>3
    <3>5. 4 \in 1..Len(more) /\ 5 \in 1..Len(more)
      BY <2>2, <2>4
    <3>6. Stream[end + 4] = CR /\ Stream[end + 5] = LF
      BY <2>3, <2>4, <3>5
    <3>. QED  BY <3>4, <3>6 DEF Broken
  <2>. QED  BY <2>5, <2>6
<1>14. i = n => ~(f <= Len(t))
  <2>. SUFFICES ASSUME i = n PROVE ~(f <= Len(t))
    OBVIOUS
  <2>1. (c + e) + Len(new) = Len(Stream)
    BY <1>1, <1>10, <1>11
  <2>. QED  BY <1>2, <1>3, <1>7, <1>11, <2>1
<1>15. Marked(t, hh, f)
  <2>1. hh <= Len(t) => Broken(t, hh)
    <3>1. h - 1 \in 1..Len(new) /\ h \in 1..Len(new) /\ hh - 1 = e + (h - 1)
      BY <1>7, <1>9, <1>11
    <3>2. hh <= Len(t) => e + (h - 1) <= Len(t)
      BY <1>3, <1>9, <1>11
    <3>. QED  BY <1>9, <1>12, <3>1, <3>2 DEF Broken
  <2>2. hh + 2 <= Len(t) => Broken(t, hh + 2)
    <3>1. /\ h + 1 \in 1..Len(new) /\ h + 2 \in 1..Len(new)
          /\ (hh + 2) - 1 = e + (h + 1) /\ hh + 2 = e + (h + 2)
      BY <1>7, <1>9, <1>11
    <3>2. hh + 2 <= Len(t) => e + (h + 1) <= Len(t) /\ e + (h + 2) <= Len(t)
      BY <1>3, <1>9, <1>11, <3>1
    <3>. HIDE DEF hh
    <3>. QED  BY <1>9, <1>12, <3>1, <3>2 DEF Broken
  <2>3. f <= Len(t) => Broken(t, f)
    <3>1. i = n \/ i + 1 <= n
      BY <1>1
    <3>. QED  BY <1>13, <1>14, <3>1
  <2>4. hh \in Nat /\ f \in Nat /\ 5 <= hh /\ hh + 4 <= f
    BY <1>7, <1>9, <1>11
  <2>. HIDE DEF f, hh
  <2>. QED  BY <2>1, <2>2, <2>3, <2>4 DEF Marked
<1>16. d <= f
  <2>. HIDE DEF f, hh
  <2>1. Bounded(x, b, hh, f)
    BY <1>15, ParseBounded DEF x, t
  <2>. QED  BY <2>1 DEF Bounded
<1>17. d \in Nat /\ c + x.buff.read - b.read = c + d
  <2>1. x.buff.read \in b.read..b.write
    BY ParseParsed DEF x, Parsed
  <2>2. b.read \in Nat /\ b.write \in Nat
    BY DEF Buffer
  <2>. QED  BY <2>1, <2>2
<1>. HIDE DEF d
\* The line with the target has no end before it, so it begins behind the headers before.
<1>18. ASSUME NEW m \in 1..(i - 1) PROVE HeadEnd(m) <= c + 1
  <2>. DEFINE z == HeadEnd(m)
              p == z - c
  <2>1. /\ m \in 1..n /\ m \in 0..n /\ i - 1 \in 0..n /\ m <= i - 1
    BY <1>1
  <2>2. z \in Nat /\ z <= EndOf(m) /\ Broken(Stream, z) /\ EndOf(m) \in Nat
    BY <2>1, Heads DEF n
  <2>3. EndOf(m) <= start
    BY <1>1, <2>1
  <2>4. z <= c + e
    BY <1>11, <2>2, <2>3
  <2>. HIDE DEF z
  <2>5. ASSUME c + 2 <= z PROVE FALSE
    <3>1. p \in 2..Len(t) /\ p - 1 \in 1..(g - c) /\ p \in 1..(g - c) /\ p <= j - 2
      BY <1>3, <1>5, <1>11, <2>2, <2>4, <2>5 DEF e
    <3>2. c + (p - 1) = z - 1 /\ c + p = z
      BY <2>2
    <3>. HIDE DEF p
    <3>3. Broken(t, p)
      BY <1>3, <2>2, <3>1, <3>2 DEF Broken
    <3>4. LineEnd(t) <= p - 1
      BY <1>3, <3>1, <3>3, FirstLineEnd
    <3>5. LineEnd(t) \in Nat /\ Len(Line(t)) = LineEnd(t) - 1
      BY <1>3, LineLength
    <3>. QED  BY <1>5, <3>1, <3>4, <3>5
  <2>. QED  BY <2>2, <2>5 DEF z
<1>19. ASSUME NEW k \in 2..n, HeadEnd(k) <= (c + d) + 1 PROVE HeadEnd(k - 1) <= c + 1
  <2>1. k <= i
    <3>1. ASSUME i + 1 <= k PROVE FALSE
      <4>. DEFINE a == EndOf(i)
                  y == HeadEnd(k)
      <4>1. i + 1 <= n /\ i + 1 \in 1..n /\ i + 1 \in 0..n /\ k \in 1..n /\ k - 1 \in 0..n
            /\ i \in 0..n /\ i <= k - 1
        BY <1>1, <3>1
      <4>2. y \in Nat /\ EndOf(k - 1) + 7 <= y /\ EndOf(k - 1) \in Nat
        BY <4>1, Heads DEF n
      <4>3. a <= EndOf(k - 1) /\ a \in Nat
        BY <1>1, <4>1
      <4>4. a = (c + e) + Len(new)
        BY <1>10, <1>11
      <4>5. c + d <= a + 5
        <5>. HIDE DEF a
        <5>. QED  BY <1>7, <1>11, <1>16, <1>17, <4>3, <4>4
      <4>. HIDE DEF a, y
      <4>6. y <= (c + d) + 1
        BY <1>19 DEF y
      <4>. QED  BY <1>17, <4>2, <4>3, <4>5, <4>6
    <3>. QED  BY <1>1, <3>1
  <2>2. k - 1 \in 1..(i - 1)
    BY <1>1, <2>1
  <2>. QED  BY <1>18, <2>2
<1>. QED  BY <1>17, <1>19 DEF x, n

-----------------------------------------------------------------------------
(***************************************************************************)
(* EnoughAnswers.                                                          *)
(***************************************************************************)

\* While the connection is kept there is an answer per request whose headers parse() has
\* passed, and it listens with nothing in the buffer.
AllKept == \A k \in DOMAIN answers : answers[k].keep

Counted ==
  /\ AllKept /\ pc # "crashed" =>
       \A i \in 1..Len(script) : HeadEnd(i) <= consumed + 1 => i <= Len(answers)
  /\ AllKept /\ pc = "listen" => consumed = got
  /\ AllKept /\ pc = "write" => keepAlive
  /\ pc = "closed" => ~AllKept

\* What Process does to the answers, one by one.
LEMMA Answered ==
  ASSUME Typed, NEW a, answers' = Append(answers, a)
  PROVE  /\ Len(answers) \in Nat /\ Len(answers') = Len(answers) + 1
         /\ DOMAIN answers = 1..Len(answers) /\ DOMAIN answers' = 1..(Len(answers) + 1)
         /\ answers'[Len(answers) + 1] = a
         /\ \A k \in 1..Len(answers) : answers'[k] = answers[k]
<1>1. PICK T : answers \in Seq(T)
  BY DEF Typed
<1>2. answers \in Seq(T \cup {a})
  BY <1>1, SeqMonotonic
<1>3. /\ Append(answers, a) \in Seq(T \cup {a}) /\ Len(Append(answers, a)) = Len(answers) + 1
      /\ \A k \in 1..Len(answers) : Append(answers, a)[k] = answers[k]
      /\ Append(answers, a)[Len(answers) + 1] = a
  BY <1>2, AppendProperties
<1>. QED  BY <1>1, <1>3

LEMMA NothingCounted ==
  ASSUME Typed, UNCHANGED <<script, consumed, answers>>, Counted,
         pc' = "crashed" => pc = "crashed",
         pc' = "listen" => \/ consumed' = got'
                           \/ pc = "listen" /\ got' = got,
         pc' = "write" => pc = "write" /\ keepAlive' = keepAlive,
         pc' = "closed" => pc = "closed" \/ (pc = "write" /\ ~keepAlive),
         pc # "crashed"
  PROVE  Counted'
<1>1. \A i : HeadEnd(i)' = HeadEnd(i)
  BY DEF EndOf, HeadEnd
<1>2. AllKept' = AllKept
  BY DEF AllKept
<1>3. \A i \in 1..Len(script) :
        (HeadEnd(i) <= consumed + 1)' = (HeadEnd(i) <= consumed + 1)
  BY <1>1
<1>. QED  BY <1>1, <1>2 DEF Counted

LEMMA ProcessCounts ==
  ASSUME Typed, Exact, Nul \notin ToSet(Stream), Counted,
         NEW verified, NEW outcome, Process(verified, outcome)
  PROVE  Counted'
<1>. DEFINE p == Parse(Fresh, readBuff_, verified)
            taken == consumed + p.buff.read - readBuff_.read
            a == Answer(p.request, response_', outcome)
<1>1. /\ consumed \in Nat /\ got \in Nat /\ consumed <= got /\ got <= Len(Stream)
      /\ Buffer(readBuff_, AllSymbols(script)) /\ script \in Scripts
      /\ Readable(readBuff_) = SubSeq(Stream, consumed + 1, got)
  <2>1. Len(Stream) \in Nat
    BY StreamType DEF Typed
  <2>. QED  BY <2>1 DEF Typed, Exact
<1>2. /\ script' = script /\ pc = "process"
      /\ consumed' = taken
      /\ keepAlive' = IsKeepAlive(p.request)
      /\ \/ pc' = "crashed"
         \/ pc' = "write" /\ answers' = Append(answers, a)
  BY DEF Process, fixedVars
<1>3. \A i : HeadEnd(i)' = HeadEnd(i)
  BY <1>2 DEF EndOf, HeadEnd
<1>4. a.keep = keepAlive'
  BY <1>2 DEF Answer
<1>5. CASE pc' = "crashed"
  BY <1>5 DEF Counted
<1>6. CASE pc' = "write" /\ answers' = Append(answers, a)
  <2>. DEFINE n == Len(answers)
  <2>1. /\ n \in Nat /\ Len(answers') = n + 1
        /\ DOMAIN answers = 1..n /\ DOMAIN answers' = 1..(n + 1)
        /\ answers'[n + 1] = a /\ \A k \in 1..n : answers'[k] = answers[k]
    <3>. HIDE DEF a
    <3>. QED  BY <1>6, Answered
  <2>. HIDE DEF n, a
  <2>2. ASSUME AllKept' PROVE AllKept /\ keepAlive'
    <3>1. \A k \in 1..(n + 1) : answers'[k].keep
      BY <2>1, <2>2 DEF AllKept
    <3>2. keepAlive'
      <4>1. n + 1 \in 1..(n + 1)
        BY <2>1
      <4>. QED  BY <1>4, <2>1, <3>1, <4>1
    <3>3. AllKept
      <4>1. \A k \in 1..n : k \in 1..(n + 1)
        BY <2>1
      <4>. QED  BY <2>1, <3>1, <4>1 DEF AllKept
    <3>. QED  BY <3>2, <3>3
  <2>3. ASSUME AllKept', NEW i \in 1..Len(script), HeadEnd(i) <= taken + 1 PROVE i <= n + 1
    <3>1. IsKeepAlive(p.request) /\ AllKept
      BY <1>2, <2>2, <2>3
    <3>3. Len(script) \in Nat
      BY <1>1, Layout
    <3>4. CASE i = 1
      BY <2>1, <3>4
    <3>5. CASE i # 1
      <4>1. i - 1 \in 1..Len(script) /\ i \in 2..Len(script)
        BY <3>3, <3>5
      <4>3. HeadEnd(i - 1) <= consumed + 1
        BY <1>1, <2>3, <3>1, <4>1, ConsumesOne
      <4>2. i - 1 <= n
        BY <1>2, <3>1, <4>1, <4>3 DEF Counted, n
      <4>. QED  BY <2>1, <3>3, <4>2
    <3>. QED  BY <3>4, <3>5
  <2>. HIDE DEF p, taken
  <2>4. ASSUME AllKept', NEW i \in 1..Len(script)', HeadEnd(i)' <= consumed' + 1
        PROVE  i <= Len(answers')
    <3>1. i \in 1..Len(script) /\ HeadEnd(i) <= taken + 1
      BY <1>2, <1>3, <2>4
    <3>. QED  BY <2>1, <2>3, <2>4, <3>1
  <2>. QED  BY <1>6, <2>2, <2>4 DEF Counted
<1>. QED  BY <1>2, <1>5, <1>6

LEMMA Counting ==
  ASSUME Typed, Exact, Nul \notin ToSet(Stream), Counted, [Next]_vars PROVE Counted'
<1>1. script' = script
  BY NextFixes, StreamFixed
<1>2. CASE UNCHANGED vars
  <2>1. \A i : HeadEnd(i)' = HeadEnd(i)
    BY <1>1 DEF EndOf, HeadEnd
  <2>2. UNCHANGED <<consumed, got, answers, pc, keepAlive>>
    BY <1>2 DEF vars
  <2>3. AllKept' = AllKept
    BY <2>2 DEF AllKept
  <2>. QED  BY <1>1, <2>1, <2>2, <2>3 DEF Counted
<1>3. CASE \E n \in 1..Len(Stream) : Deliver(n)
  <2>1. UNCHANGED <<consumed, got, answers, pc, keepAlive>> /\ pc # "crashed"
    BY <1>3 DEF Deliver
  <2>2. /\ UNCHANGED <<script, consumed, answers>>
        /\ pc' = pc /\ got' = got /\ keepAlive' = keepAlive
    BY <1>1, <2>1
  <2>3. /\ pc' = "crashed" => pc = "crashed"
        /\ pc' = "listen" => \/ consumed' = got'
                             \/ pc = "listen" /\ got' = got
        /\ pc' = "write" => pc = "write" /\ keepAlive' = keepAlive
        /\ pc' = "closed" => pc = "closed" \/ (pc = "write" /\ ~keepAlive)
    BY <2>2
  <2>. QED  BY <2>1, <2>2, <2>3, NothingCounted
<1>4. CASE NextClient
  <2>1. answers' = answers /\ pc = "closed" /\ pc' = "listen"
    BY <1>4 DEF NextClient
  <2>2. ~AllKept'
    BY <2>1 DEF Counted, AllKept
  <2>. QED  BY <2>1, <2>2 DEF Counted
<1>5. CASE OnRead_ \/ ReadSome \/ ReadEnds
  <2>1. UNCHANGED <<consumed, answers>> /\ pc # "crashed" /\ pc' \in {"read", "process"}
    BY <1>5 DEF OnRead_, ReadSome, ReadEnds
  <2>. QED  BY <1>1, <2>1, NothingCounted
<1>6. CASE ProcessNothing
  <2>1. /\ UNCHANGED <<consumed, got, answers>> /\ pc = "process" /\ pc' = "listen"
        /\ ReadableBytes(readBuff_) = 0
    BY <1>6 DEF ProcessNothing
  <2>2. consumed = got
    <3>. DEFINE n == got
    <3>1. /\ consumed \in Nat /\ n \in Nat /\ consumed <= n /\ n <= Len(Stream)
          /\ Stream \in Seq(AllSymbols(script))
          /\ Readable(readBuff_) = SubSeq(Stream, consumed + 1, n)
      BY StreamType DEF Typed, Exact
    <3>2. Len(Readable(readBuff_)) = 0
      BY <2>1, Content DEF Typed, ReadableBytes
    <3>. HIDE DEF n
    <3>3. Len(SubSeq(Stream, consumed + 1, n)) = n - consumed
      BY <3>1, Slice
    <3>4. consumed = n
      BY <3>1, <3>2, <3>3
    <3>. QED  BY <3>4 DEF n
  <2>. QED  BY <1>1, <2>1, <2>2, NothingCounted
<1>7. CASE OnWrite_
  <2>1. /\ UNCHANGED <<consumed, got, answers, keepAlive>> /\ pc = "write"
        /\ pc' = IF keepAlive THEN "process" ELSE "closed"
    BY <1>7 DEF OnWrite_
  <2>2. pc' = "closed" => ~keepAlive
    BY <2>1
  <2>3. pc' \in {"process", "closed"}
    BY <2>1
  <2>4. AllKept' = AllKept /\ (pc' = "closed" => ~AllKept)
    BY <2>1, <2>2 DEF AllKept, Counted
  <2>5. \A i : HeadEnd(i)' = HeadEnd(i)
    BY <1>1 DEF EndOf, HeadEnd
  <2>. QED  BY <1>1, <2>1, <2>3, <2>4, <2>5 DEF Counted
<1>8. CASE \E verified \in BOOLEAN, outcome \in Outcomes : Process(verified, outcome)
  BY <1>8, ProcessCounts
<1>. QED  BY <1>2, <1>3, <1>4, <1>5, <1>6, <1>7, <1>8 DEF Next

LEMMA InitCounted == ASSUME Init PROVE Counted
<1>1. script \in Scripts /\ consumed = 0 /\ got = 0 /\ pc = "listen"
  BY DEF Init
<1>2. ASSUME NEW i \in 1..Len(script) PROVE ~(HeadEnd(i) <= 0 + 1)
  <2>. DEFINE z == HeadEnd(i)
  <2>1. z \in Nat /\ EndOf(i - 1) + 7 <= z /\ EndOf(i - 1) \in Nat
    BY <1>1, Heads
  <2>. HIDE DEF z
  <2>2. ~(z <= 0 + 1)
    BY <2>1
  <2>. QED  BY <2>2 DEF z
<1>. QED  BY <1>1, <1>2 DEF Counted

LEMMA CountedEnough ==
  ASSUME Typed, Counted PROVE EnoughAnswers
<1>. SUFFICES ASSUME ListensOn
              PROVE  Len(answers) >= Cardinality({i \in DOMAIN script : Sent(i)})
  BY DEF EnoughAnswers
<1>. DEFINE T == {i \in DOMAIN script : Sent(i)}
            n == Len(answers)
<1>1. n \in Nat
  BY DEF Typed
<1>2. Len(script) \in Nat /\ DOMAIN script = 1..Len(script)
  BY Layout DEF Typed
<1>3. \A i \in 1..Len(script) : HeadEnd(i) <= consumed + 1 => i <= n
  BY DEF ListensOn, Counted, AllKept
<1>4. consumed = arrived /\ consumed \in Nat
  BY DEF ListensOn, Counted, AllKept, Typed
<1>5. T \subseteq 1..n
  <2>1. ASSUME NEW i \in 1..Len(script), EndOf(i) <= consumed PROVE i \in 1..n
    <3>1. HeadEnd(i) \in Nat /\ EndOf(i) \in Nat /\ HeadEnd(i) <= EndOf(i)
      BY Heads DEF Typed
    <3>2. HeadEnd(i) <= consumed + 1
      BY <1>4, <2>1, <3>1
    <3>. QED  BY <1>1, <1>2, <1>3, <3>2
  <2>. QED  BY <1>2, <1>4, <2>1 DEF Sent
<1>. HIDE DEF T, n
<1>6. IsFiniteSet(1..n) /\ Cardinality(1..n) = n
  <2>1. 1 \in Int /\ n \in Int
    BY <1>1
  <2>2. IsFiniteSet(1..n) /\ Cardinality(1..n) = IF 1 > n THEN 0 ELSE n - 1 + 1
    BY <2>1, FS_Interval
  <2>3. (IF 1 > n THEN 0 ELSE n - 1 + 1) = n
    BY <1>1
  <2>. QED  BY <2>2, <2>3
<1>7. Cardinality(T) <= Cardinality(1..n) /\ IsFiniteSet(T)
  BY <1>5, <1>6, FS_Subset
<1>8. Cardinality(T) \in Nat
  BY <1>7, FS_CardinalityType
<1>9. n >= Cardinality(T)
  BY <1>1, <1>6, <1>7, <1>8
<1>. QED  BY <1>9 DEF T, n

\* EnoughAnswers, whatever the sizes of the buffer, the scripts and the cuts of the network, if
\* no byte is zero: a kept connection that listens again has answered every request it was sent.
THEOREM EnoughAnswersCorrect == Spec => [](Nul \notin ToSet(Stream) => EnoughAnswers)
<1>. DEFINE Counts == Nul \notin ToSet(Stream) => Counted
            Enough == Nul \notin ToSet(Stream) => EnoughAnswers
<1>1. Init => Typed /\ Exact /\ Counts
  BY InitTyped, InitExact, InitCounted
<1>2. Typed /\ Exact /\ Counts /\ [Next]_vars => Typed' /\ Exact' /\ Counts'
  <2>1. [Next]_vars => Stream' = Stream
    BY NextFixes, StreamFixed
  <2>. QED  BY <2>1, Typing, Exactly, Counting
<1>3. Typed /\ Counts => Enough
  BY CountedEnough
<1>4. Spec => []Enough
  <2>. HIDE DEF Counts, Enough
  <2>. QED  BY <1>1, <1>2, <1>3, PTL DEF Spec
<1>. QED  BY <1>4 DEF Enough

-----------------------------------------------------------------------------
(***************************************************************************)
(* A whole request through parse(), line by line.                          *)
(***************************************************************************)

\* The first line of a text that is known as a line, CRLF and a rest.
HasLine(u, l, r, S) ==
  /\ u \in Seq(S) /\ Len(u) = (Len(l) + 2) + Len(r)
  /\ Len(l) \in Nat /\ Len(r) \in Nat
  /\ LineEnd(u) = Len(l) + 1 /\ Line(u) = l
  /\ SubSeq(u, (Len(l) + 2) + 1, Len(u)) = r

OneLine(l) == \A i \in 1..Len(l) : l[i] # CR

LEMMA FirstLine ==
  ASSUME NEW S, CR \in S, LF \in S, NEW l \in Seq(S), NEW r \in Seq(S), OneLine(l)
  PROVE  HasLine(l \o (CRLF \o r), l, r, S)
<1>. DEFINE u == l \o (CRLF \o r)
            w == CRLF \o r
            n == Len(l)
<1>1. CRLF \in Seq(S) /\ Len(CRLF) = 2 /\ CRLF[1] = CR /\ CRLF[2] = LF
  BY DEF CRLF
<1>2. Glued(w, CRLF, r, S)
  BY <1>1, Concat
<1>3. w \in Seq(S) /\ u = l \o w
  BY <1>2 DEF Glued
<1>. HIDE DEF u, w
<1>4. Glued(u, l, w, S)
  BY <1>3, Concat
<1>. HIDE DEF n
<1>5. /\ u \in Seq(S) /\ n \in Nat /\ Len(w) \in Nat /\ Len(u) = n + Len(w)
      /\ \A i \in 1..n : u[i] = l[i]
      /\ \A i \in 1..Len(w) : u[n + i] = w[i]
  BY <1>4 DEF Glued, n
<1>6. /\ Len(w) = 2 + Len(r) /\ Len(r) \in Nat /\ w[1] = CR /\ w[2] = LF
      /\ \A i \in 1..Len(r) : w[2 + i] = r[i]
  <2>1. \A i \in 1..2 : w[i] = CRLF[i]
    BY <1>1, <1>2 DEF Glued
  <2>. QED  BY <1>1, <1>2, <2>1 DEF Glued
<1>7. u[n + 1] = CR /\ u[n + 2] = LF
  <2>1. 1 \in 1..Len(w) /\ 2 \in 1..Len(w)
    BY <1>5, <1>6
  <2>. QED  BY <1>5, <1>6, <2>1
<1>8. LineEnd(u) = n + 1
  <2>. DEFINE k == LineEnd(u)
  <2>1. n + 2 \in 2..Len(u) /\ (n + 2) - 1 = n + 1
    BY <1>5, <1>6
  <2>2. Broken(u, n + 2)
    BY <1>7, <2>1 DEF Broken
  <2>3. k <= (n + 2) - 1
    BY <1>5, <2>1, <2>2, FirstLineEnd
  <2>4. k \in 1..(Len(u) + 1) /\ (k <= Len(u) => Broken(u, k + 1))
    BY <1>5, LineEnds, FirstLineEnd
  <2>. HIDE DEF k
  <2>5. k \in Nat /\ 1 <= k /\ k <= n + 1 /\ k <= Len(u) /\ (k + 1) - 1 = k
    BY <1>5, <1>6, <2>1, <2>3, <2>4
  <2>6. u[k] = CR
    BY <2>4, <2>5 DEF Broken
  <2>7. ~(k <= n)
    <3>1. ASSUME k <= n PROVE FALSE
      <4>1. k \in 1..n
        BY <1>5, <2>5, <3>1
      <4>2. l[k] = CR
        BY <1>5, <2>6, <4>1
      <4>. QED  BY <4>1, <4>2 DEF OneLine, n
    <3>. QED  BY <3>1
  <2>8. k = n + 1
    BY <1>5, <2>5, <2>7
  <2>. QED  BY <2>8 DEF k
<1>9. Line(u) = l
  <2>1. (n + 1) - 1 = n /\ 0 + 1 = 1 /\ n - 0 = n /\ n <= Len(u) /\ 0 <= n
    BY <1>5
  <2>2. Line(u) = SubSeq(u, 0 + 1, n)
    BY <1>8, <2>1 DEF Line
  <2>3. /\ Line(u) \in Seq(S) /\ Len(Line(u)) = n - 0
        /\ \A i \in 1..(n - 0) : Line(u)[i] = u[0 + i]
    BY <1>5, <2>1, <2>2, Slice
  <2>4. \A i \in 1..n : 0 + i = i
    BY <1>5
  <2>5. Len(Line(u)) = n /\ \A i \in 1..n : Line(u)[i] = l[i]
    BY <1>5, <2>1, <2>3, <2>4
  <2>6. Len(Line(u)) = Len(l)
    BY <2>5 DEF n
  <2>7. \A i \in 1..Len(Line(u)) : Line(u)[i] = l[i]
    BY <2>5
  <2>. QED  BY <2>3, <2>6, <2>7, SameSeq
<1>10. SubSeq(u, (n + 2) + 1, Len(u)) = r
  <2>. DEFINE m == n + 2
              k == Len(u)
              v == SubSeq(u, m + 1, k)
  <2>1. /\ m = n + 2 /\ m \in Nat /\ k \in Nat /\ m <= k /\ k <= Len(u) /\ k - m = Len(r)
        /\ v = SubSeq(u, m + 1, k)
    BY <1>5, <1>6
  <2>. HIDE DEF m, k, v
  <2>2. v \in Seq(S) /\ Len(v) = k - m /\ \A i \in 1..(k - m) : v[i] = u[m + i]
    <3>1. u \in Seq(S) /\ m \in Nat /\ k \in Nat /\ m <= k /\ k <= Len(u)
      BY <1>5, <2>1
    <3>2. /\ SubSeq(u, m + 1, k) \in Seq(S) /\ Len(SubSeq(u, m + 1, k)) = k - m
          /\ \A i \in 1..(k - m) : SubSeq(u, m + 1, k)[i] = u[m + i]
      BY <3>1, Slice
    <3>. QED  BY <2>1, <3>2
  <2>3. ASSUME NEW i \in 1..Len(r) PROVE v[i] = r[i]
    <3>1. 2 + i \in 1..Len(w) /\ n + (2 + i) = m + i
      BY <1>5, <1>6, <2>1
    <3>2. v[i] = u[m + i]
      BY <2>1, <2>2
    <3>. QED  BY <1>5, <1>6, <3>1, <3>2
  <2>4. Len(v) = Len(r)
    BY <2>1, <2>2
  <2>5. \A i \in 1..Len(v) : v[i] = r[i]
    BY <2>3, <2>4
  <2>6. v = r
    BY <2>2, <2>4, <2>5, SameSeq
  <2>. QED  BY <2>6 DEF v, m, k
<1>11. Len(u) = (n + 2) + Len(r)
  BY <1>5, <1>6
<1>12. HasLine(u, l, r, S)
  BY <1>5, <1>6, <1>8, <1>9, <1>10, <1>11 DEF HasLine, n
<1>. QED  BY <1>12 DEF u

\* What is left of a text behind its first d symbols.
Behind(t, d) == SubSeq(t, d + 1, Len(t))

LEMMA BehindType ==
  ASSUME NEW S, NEW t \in Seq(S), NEW d \in 0..Len(t)
  PROVE  /\ Behind(t, d) \in Seq(S) /\ Len(Behind(t, d)) = Len(t) - d
         /\ \A i \in 1..(Len(t) - d) : Behind(t, d)[i] = t[d + i]
         /\ \A e \in 0..(Len(t) - d) : Behind(Behind(t, d), e) = Behind(t, d + e)
<1>. DEFINE n == Len(t)
<1>1. n \in Nat /\ d \in Nat /\ d <= n /\ n <= Len(t)
  OBVIOUS
<1>2. Behind(t, d) = SubSeq(t, d + 1, n)
  BY DEF Behind
<1>. HIDE DEF n
<1>3. /\ Behind(t, d) \in Seq(S) /\ Len(Behind(t, d)) = n - d
      /\ \A i \in 1..(n - d) : Behind(t, d)[i] = t[d + i]
  BY <1>1, <1>2, Slice
<1>4. ASSUME NEW e \in 0..(n - d) PROVE Behind(Behind(t, d), e) = Behind(t, d + e)
  <2>. DEFINE m == n - d
  <2>1. m \in Nat /\ e \in Nat /\ e <= m /\ m <= n - d /\ d + m = n
    BY <1>1
  <2>2. Behind(Behind(t, d), e) = SubSeq(SubSeq(t, d + 1, n), e + 1, m)
    BY <1>2, <1>3 DEF Behind
  <2>3. Behind(t, d + e) = SubSeq(t, (d + e) + 1, n)
    BY DEF Behind, n
  <2>. HIDE DEF m
  <2>4. SubSeq(SubSeq(t, d + 1, n), e + 1, m) = SubSeq(t, (d + e) + 1, d + m)
    BY <1>1, <2>1, Sliced
  <2>. QED  BY <2>1, <2>2, <2>3, <2>4
<1>. QED  BY <1>3, <1>4 DEF n

\* The loop of parse() over the buffer b with d symbols taken and the request q in hand.
Reading(b, q, d) ==
  [goes |-> TRUE, ok |-> TRUE, request |-> q,
   buff |-> [cells |-> b.cells, read |-> b.read + d, write |-> b.write]]

LEMMA ReadingText ==
  ASSUME NEW S, NEW b, Buffer(b, S), NEW q, NEW d \in 0..Len(Readable(b))
  PROVE  /\ Readable(Reading(b, q, d).buff) = Behind(Readable(b), d)
         /\ Len(Readable(b)) = ReadableBytes(b) /\ Readable(b) \in Seq(S)
         /\ b.read \in Nat /\ b.write \in Nat /\ Len(Readable(b)) = b.write - b.read
<1>1. /\ Readable(b) \in Seq(S) /\ Len(Readable(b)) = b.write - b.read
      /\ b.read \in Nat /\ b.write \in Nat /\ b.read <= b.write
  BY Content DEF Buffer
<1>. DEFINE r == b.read + d
            u == [b EXCEPT !.read = r]
<1>2. r \in b.read..b.write /\ r - b.read = d
  BY <1>1
<1>. HIDE DEF r
<1>3. /\ u = [cells |-> b.cells, read |-> r, write |-> b.write]
      /\ Readable(u) = SubSeq(Readable(b), r - b.read + 1, Len(Readable(b)))
  BY <1>2, Retrieved
<1>. HIDE DEF u
<1>4. Reading(b, q, d).buff = u
  BY <1>3 DEF Reading, r
<1>5. Readable(Reading(b, q, d).buff) = Behind(Readable(b), d)
  BY <1>2, <1>3, <1>4 DEF Behind
<1>. QED  BY <1>1, <1>5 DEF ReadableBytes

\* A text that begins with the line l and its CRLF, in front of r.
Begins(u, l, r) == u = l \o (CRLF \o r)

\* A line more: a turn that takes the line l and its CRLF, in front of r.
TakesLine(b, verified, q, d, l, r) ==
  LET e == d + (Len(l) + 2)
      left == (Len(l) + 2) + Len(r)
  IN
  /\ Turn(Reading(b, q, d), verified) = Reading(b, AfterLine(q, l, left, verified), e)
  /\ e \in 0..Len(Readable(b)) /\ Behind(Readable(b), e) = r
  /\ d < Len(Readable(b)) /\ d + 2 <= e

LEMMA LineRead ==
  ASSUME NEW S, CR \in S, LF \in S, NEW b, Buffer(b, S), NEW verified,
         NEW q, q.state # "FINISH", NEW d \in 0..Len(Readable(b)),
         NEW l \in Seq(S), NEW r \in Seq(S), OneLine(l),
         Begins(Behind(Readable(b), d), l, r),
         q.state = "REQUEST_LINE" => RequestLineMatches(l)
  PROVE  TakesLine(b, verified, q, d, l, r)
<1>. DEFINE t == Readable(b)
            u == Behind(t, d)
            e == d + (Len(l) + 2)
            left == (Len(l) + 2) + Len(r)
            x == Reading(b, q, d)
            next == AfterLine(q, l, left, verified)
<1>1. /\ Readable(x.buff) = u /\ t \in Seq(S)
      /\ b.read \in Nat /\ b.write \in Nat /\ Len(t) = b.write - b.read
  BY ReadingText
<1>2. /\ u \in Seq(S) /\ Len(u) = left /\ Len(l) \in Nat /\ Len(r) \in Nat
      /\ LineEnd(u) = Len(l) + 1 /\ Line(u) = l
      /\ Behind(u, Len(l) + 2) = r
  <2>1. HasLine(u, l, r, S)
    <3>1. u = l \o (CRLF \o r)
      BY DEF Begins
    <3>. QED  BY <3>1, FirstLine
  <2>. HIDE DEF u, left
  <2>2. /\ u \in Seq(S) /\ Len(u) = (Len(l) + 2) + Len(r) /\ Len(l) \in Nat /\ Len(r) \in Nat
        /\ LineEnd(u) = Len(l) + 1 /\ Line(u) = l
        /\ SubSeq(u, (Len(l) + 2) + 1, Len(u)) = r
    BY <2>1 DEF HasLine
  <2>3. Len(u) = left
    BY <2>2 DEF left
  <2>. QED  BY <2>2, <2>3 DEF Behind
<1>3. /\ Len(u) = Len(t) - d /\ Len(t) \in Nat /\ d \in Nat
      /\ \A k \in 0..(Len(t) - d) : Behind(u, k) = Behind(t, d + k)
  <2>1. u = Behind(t, d) /\ d \in 0..Len(t)
    OBVIOUS
  <2>. HIDE DEF t, u
  <2>2. /\ Behind(t, d) \in Seq(S) /\ Len(Behind(t, d)) = Len(t) - d
        /\ \A k \in 0..(Len(t) - d) : Behind(Behind(t, d), k) = Behind(t, d + k)
    BY <1>1, <2>1, BehindType
  <2>3. Len(t) \in Nat
    BY <1>1
  <2>. QED  BY <2>1, <2>2, <2>3
<1>. HIDE DEF t, u
<1>4. /\ e \in 0..Len(t) /\ d < Len(t) /\ d + 2 <= e
      /\ Len(l) + 2 \in 0..(Len(t) - d)
  BY <1>2, <1>3
<1>5. Behind(t, e) = r
  BY <1>2, <1>3, <1>4
<1>6. x.goes /\ x.request = q
  BY DEF Reading
<1>7. u # <<>> /\ ~(LineEnd(u) > Len(u))
  BY <1>2
<1>. HIDE DEF left
<1>8. Turn(x, verified) = [x EXCEPT !.request = next, !.buff = Retrieve(x.buff, Len(l) + 2)]
  <2>. HIDE DEF x
  <2>1. Turn(x, verified) =
          IF ~x.goes \/ u = <<>> \/ x.request.state = "FINISH" THEN [x EXCEPT !.goes = FALSE]
          ELSE IF x.request.state = "REQUEST_LINE" /\ ~RequestLineMatches(l)
            THEN [x EXCEPT !.goes = FALSE, !.ok = FALSE]
          ELSE IF LineEnd(u) > Len(u)
            THEN [x EXCEPT !.goes = FALSE,
                           !.request = AfterLine(x.request, l, left, verified)]
          ELSE [x EXCEPT !.request = AfterLine(x.request, l, left, verified),
                         !.buff = Retrieve(x.buff, Len(l) + 2)]
    BY <1>1, <1>2, Zenon DEF Turn
  <2>. QED  BY <1>6, <1>7, <2>1
<1>9. Turn(x, verified) = Reading(b, next, e)
  <2>. DEFINE r0 == b.read + d
              k == Len(l) + 2
  <2>1. x = [goes |-> TRUE, ok |-> TRUE, request |-> q,
             buff |-> [cells |-> b.cells, read |-> r0, write |-> b.write]]
    BY DEF Reading
  <2>2. r0 + k = b.read + e
    <3>. DEFINE f == b.read
    <3>1. f \in Nat /\ d \in Nat /\ k \in Nat
      BY <1>1, <1>2, <1>3
    <3>2. r0 = f + d /\ e = d + k
      OBVIOUS
    <3>. HIDE DEF f, r0, e, k
    <3>3. r0 + k = f + e
      BY <3>1, <3>2
    <3>. QED  BY <3>3 DEF f
  <2>3. Reading(b, next, e) =
          [goes |-> TRUE, ok |-> TRUE, request |-> next,
           buff |-> [cells |-> b.cells, read |-> b.read + e, write |-> b.write]]
    BY DEF Reading
  <2>4. Turn(x, verified) = [x EXCEPT !.request = next, !.buff = Retrieve(x.buff, k)]
    BY <1>8
  <2>. HIDE DEF x, e, next, r0, k
  <2>5. Retrieve(x.buff, k) = [cells |-> b.cells, read |-> r0 + k, write |-> b.write]
    <3>. DEFINE y == x.buff
    <3>1. y = [cells |-> b.cells, read |-> r0, write |-> b.write]
      BY <2>1
    <3>. HIDE DEF y
    <3>2. Retrieve(y, k) = [cells |-> b.cells, read |-> r0 + k, write |-> b.write]
      BY <3>1 DEF Retrieve
    <3>. QED  BY <3>2 DEF y
  <2>. QED  BY <2>1, <2>2, <2>3, <2>4, <2>5
<1>. QED  BY <1>4, <1>5, <1>9 DEF TakesLine, t, left

\* The turns of the loop over the buffer b, and that they have led to the request q with d
\* symbols taken.
Running(turn, b, verified) ==
  /\ Parse(Fresh, b, verified) = turn[ReadableBytes(b)]
  /\ turn[0] = Start(Fresh, b)
  /\ \A n \in 0..(ReadableBytes(b) - 1) : turn[n + 1] = Turn(turn[n], verified)

Reached(turn, b, q, d) ==
  \E n \in Nat : n <= d /\ turn[n] = Reading(b, q, d)

\* What parse() is left with.
Leaves(b, verified, ok, q, c) ==
  LET x == Parse(Fresh, b, verified) IN x.ok = ok /\ x.request = q /\ x.buff = c

LEMMA Begun ==
  ASSUME NEW S, NEW b, Buffer(b, S), NEW turn, NEW verified, Running(turn, b, verified)
  PROVE  Reached(turn, b, Fresh, 0)
<1>1. b = [cells |-> b.cells, read |-> b.read, write |-> b.write] /\ b.read \in Nat
  BY DEF Buffer
<1>. DEFINE r == b.read
<1>2. b = [cells |-> b.cells, read |-> r, write |-> b.write] /\ r + 0 = r
  BY <1>1
<1>3. turn[0] = Reading(b, Fresh, 0)
  <2>1. Reading(b, Fresh, 0) =
          [goes |-> TRUE, ok |-> TRUE, request |-> Fresh,
           buff |-> [cells |-> b.cells, read |-> r + 0, write |-> b.write]]
    BY DEF Reading
  <2>. HIDE DEF r
  <2>2. Reading(b, Fresh, 0) = [goes |-> TRUE, ok |-> TRUE, request |-> Fresh, buff |-> b]
    BY <1>2, <2>1
  <2>. QED  BY <2>2 DEF Running, Start
<1>4. 0 \in Nat /\ 0 <= 0
  OBVIOUS
<1>. QED  BY <1>3, <1>4 DEF Reached

\* They lead on past the line l, with r behind it.
LeadsOn(turn, b, verified, q, d, l, r) ==
  LET e == d + (Len(l) + 2) IN
  /\ Reached(turn, b, AfterLine(q, l, (Len(l) + 2) + Len(r), verified), e)
  /\ e \in 0..Len(Readable(b)) /\ Behind(Readable(b), e) = r /\ d + 2 <= e

LEMMA Reads ==
  ASSUME NEW S, CR \in S, LF \in S, NEW b, Buffer(b, S), NEW verified,
         NEW turn, Running(turn, b, verified),
         NEW q, q.state # "FINISH", NEW d \in 0..Len(Readable(b)), Reached(turn, b, q, d),
         NEW l \in Seq(S), NEW r \in Seq(S), OneLine(l),
         Begins(Behind(Readable(b), d), l, r),
         q.state = "REQUEST_LINE" => RequestLineMatches(l)
  PROVE  LeadsOn(turn, b, verified, q, d, l, r)
<1>. DEFINE e == d + (Len(l) + 2)
            next == AfterLine(q, l, (Len(l) + 2) + Len(r), verified)
            m == Len(Readable(b))
<1>1. /\ Turn(Reading(b, q, d), verified) = Reading(b, next, e)
      /\ e \in 0..m /\ Behind(Readable(b), e) = r /\ d < m /\ d + 2 <= e
  <2>1. TakesLine(b, verified, q, d, l, r)
    BY LineRead
  <2>. QED  BY <2>1 DEF TakesLine
<1>2. m = ReadableBytes(b) /\ m \in Nat /\ d \in Nat
  <2>1. Readable(b) \in Seq(S) /\ m = ReadableBytes(b)
    BY ReadingText
  <2>2. m \in Nat
    BY <2>1
  <2>. QED  BY <2>1, <2>2
<1>3. PICK n \in Nat : n <= d /\ turn[n] = Reading(b, q, d)
  BY DEF Reached
<1>. HIDE DEF m, e, next
<1>4. n \in 0..(m - 1) /\ n + 1 \in Nat /\ n + 1 <= e
  BY <1>1, <1>2, <1>3
<1>5. turn[n + 1] = Turn(turn[n], verified)
  BY <1>2, <1>4 DEF Running
<1>6. turn[n + 1] = Reading(b, next, e)
  BY <1>1, <1>3, <1>5
<1>7. Reached(turn, b, next, e)
  BY <1>4, <1>6 DEF Reached
<1>. QED  BY <1>1, <1>7 DEF LeadsOn, next, e, m

LEMMA Halted ==
  ASSUME NEW x, NEW goes, NEW ok, NEW q, NEW c,
         x = [goes |-> goes, ok |-> ok, request |-> q, buff |-> c]
  PROVE  [x EXCEPT !.goes = FALSE] = [goes |-> FALSE, ok |-> ok, request |-> q, buff |-> c]
<1>. DEFINE off == FALSE
<1>. HIDE DEF off
<1>1. [x EXCEPT !.goes = off] = [goes |-> off, ok |-> ok, request |-> q, buff |-> c]
  OBVIOUS
<1>. QED  BY <1>1 DEF off

\* A turn that ends the loop, or has nothing to go on with, is the last that matters.
LEMMA Rests ==
  ASSUME NEW b, ReadableBytes(b) \in Nat, NEW turn, NEW verified, Running(turn, b, verified),
         NEW n \in 0..ReadableBytes(b), NEW goes, NEW ok, NEW q, NEW c,
         turn[n] = [goes |-> goes, ok |-> ok, request |-> q, buff |-> c],
         q.state = "FINISH" \/ ~goes \/ Readable(c) = <<>>
  PROVE  Leaves(b, verified, ok, q, c)
<1>. DEFINE m == ReadableBytes(b)
            Left(x) == /\ x = [goes |-> x.goes, ok |-> ok, request |-> q, buff |-> c]
                       /\ q.state = "FINISH" \/ ~x.goes \/ Readable(c) = <<>>
            I == {k \in Nat : n <= k /\ k <= m => Left(turn[k])}
<1>1. m \in Nat /\ n \in Nat /\ n <= m
  OBVIOUS
<1>2. Left(turn[n])
  OBVIOUS
<1>. HIDE DEF m
<1>3. 0 \in I
  <2>1. ASSUME n <= 0 PROVE n = 0
    BY <1>1, <2>1
  <2>. HIDE DEF Left
  <2>. QED  BY <1>2, <2>1
<1>4. ASSUME NEW k \in Nat, k \in I PROVE k + 1 \in I
  <2>1. ASSUME n <= k + 1, k + 1 <= m PROVE Left(turn[k + 1])
    <3>1. CASE n = k + 1
      <4>. HIDE DEF Left
      <4>. QED  BY <1>2, <3>1
    <3>2. CASE n # k + 1
      <4>. DEFINE x == turn[k]
      <4>1. n <= k /\ k <= m /\ k \in 0..(m - 1)
        BY <1>1, <2>1, <3>2
      <4>2. Left(x)
        BY <1>4, <4>1
      <4>3. turn[k + 1] = Turn(x, verified)
        BY <4>1 DEF Running, m
      <4>. HIDE DEF x
      <4>4. x.request = q /\ x.buff = c /\ x.ok = ok
        BY <4>2
      <4>5. x.request.state = "FINISH" \/ ~x.goes \/ Readable(x.buff) = <<>>
        BY <4>2, <4>4
      <4>6. Turn(x, verified) = [x EXCEPT !.goes = FALSE]
        BY <4>5, Parked
      <4>7. [x EXCEPT !.goes = FALSE] = [goes |-> FALSE, ok |-> ok, request |-> q, buff |-> c]
        <5>1. x = [goes |-> x.goes, ok |-> ok, request |-> q, buff |-> c]
          BY <4>2
        <5>. HIDE DEF Left
        <5>. QED  BY <5>1, Halted
      <4>8. turn[k + 1] = [goes |-> FALSE, ok |-> ok, request |-> q, buff |-> c]
        BY <4>3, <4>6, <4>7
      <4>. QED  BY <4>8
    <3>. QED  BY <3>1, <3>2
  <2>. HIDE DEF Left
  <2>. QED  BY <2>1
<1>. HIDE DEF I, Left
<1>5. m \in I
  BY <1>1, <1>3, <1>4, Induction
<1>6. m <= m
  BY <1>1
<1>7. Left(turn[m])
  BY <1>1, <1>5, <1>6 DEF I
<1>8. Parse(Fresh, b, verified) = turn[m]
  BY DEF Running, m
<1>. DEFINE x == turn[m]
<1>9. x.ok = ok /\ x.request = q /\ x.buff = c
  BY <1>7 DEF Left
<1>. QED  BY <1>8, <1>9 DEF Leaves

\* The request that parse() has in hand once the request line is parsed.
InHand(q, i, connection, form, state) ==
  [state |-> state, method |-> q.method, path |-> ParsePath_(q.path), version |-> <<Version>>,
   connection |-> connection, form |-> form, of |-> i]

\* What the request line and the body change of a request.
LEMMA RequestBegun ==
  ASSUME NEW s, NEW m, NEW p, NEW w, NEW c, NEW f, NEW n, NEW x,
         x = [state |-> s, method |-> m, path |-> p, version |-> w,
              connection |-> c, form |-> f, of |-> n],
         NEW s1, NEW m1, NEW p1, NEW w1, NEW n1, NEW y,
         y = [x EXCEPT !.state = s1, !.method = m1, !.path = p1, !.of = n1, !.version = w1]
  PROVE  y = [state |-> s1, method |-> m1, path |-> p1, version |-> w1,
              connection |-> c, form |-> f, of |-> n1]
<1>1. y.state = s1 /\ y.method = m1 /\ y.path = p1 /\ y.of = n1 /\ y.version = w1
  OBVIOUS
<1>2. y.connection = c /\ y.form = f
  OBVIOUS
<1>3. IsRequest(y)
  BY DEF IsRequest
<1>. QED  BY <1>1, <1>2, <1>3, Zenon DEF IsRequest

LEMMA RequestEnded ==
  ASSUME NEW s, NEW m, NEW p, NEW w, NEW c, NEW f, NEW n, NEW x,
         x = [state |-> s, method |-> m, path |-> p, version |-> w,
              connection |-> c, form |-> f, of |-> n],
         NEW s1, NEW p1, NEW y, y = [x EXCEPT !.state = s1, !.path = p1]
  PROVE  y = [state |-> s1, method |-> m, path |-> p1, version |-> w,
              connection |-> c, form |-> f, of |-> n]
<1>1. y.state = s1 /\ y.path = p1 /\ y.method = m /\ y.version = w /\ y.connection = c
      /\ y.form = f /\ y.of = n
  OBVIOUS
<1>2. IsRequest(y)
  BY DEF IsRequest
<1>. QED  BY <1>1, <1>2, Zenon DEF IsRequest

LineOf(q, i) == <<Verb(q.method), Target(q.path, i), Version>>

LEMMA FirstLineParsed ==
  ASSUME NEW q, NEW i, NEW left, NEW verified
  PROVE  /\ OneLine(LineOf(q, i)) /\ Len(LineOf(q, i)) = 3 /\ RequestLineMatches(LineOf(q, i))
         /\ AfterLine(Fresh, LineOf(q, i), left, verified) = InHand(q, i, "", FALSE, "HEADERS")
<1>. DEFINE v == Verb(q.method)
            t == Target(q.path, i)
            l == LineOf(q, i)
            S == {v, t, Version}
<1>1. l = <<v, t, Version>>
  BY DEF LineOf
<1>2. /\ Kind(v) = "verb" /\ Kind(t) = "target" /\ Kind(Version) = "version" /\ Kind(CR) = "cr"
      /\ v[2] = q.method /\ t[2][1] = q.path /\ t[2][2] = i
  BY DEF Verb, Target, Version, CR, Kind
<1>. HIDE DEF v, t, l
<1>3. l \in Seq(S) /\ Len(l) = 3 /\ l[1] = v /\ l[2] = t /\ l[3] = Version
  BY <1>1
<1>4. OneLine(l)
  <2>1. \A k \in 1..3 : Kind(l[k]) # Kind(CR)
    BY <1>2, <1>3
  <2>. QED  BY <1>3, <2>1 DEF OneLine
<1>. DEFINE j == CHOOSE k \in DOMAIN l : MatchesAt(l, k)
<1>5. RequestLineMatches(l) /\ j = 2
  <2>1. DOMAIN l = 1..3 /\ 2 - 1 = 1
    BY <1>3
  <2>2. ~HasSpace(Version)
    BY <1>2 DEF HasSpace
  <2>3. \A k \in DOMAIN l \ {2 - 1, 2} : ~HasSpace(l[k])
    BY <1>3, <2>1, <2>2
  <2>4. MatchesAt(l, 2) /\ 2 \in DOMAIN l
    BY <1>2, <1>3, <2>1, <2>3 DEF MatchesAt
  <2>5. ASSUME NEW k \in DOMAIN l, MatchesAt(l, k) PROVE k = 2
    <3>1. k \in 2..3 /\ Kind(l[k]) = "target"
      BY <1>3, <2>5 DEF MatchesAt
    <3>2. k # 3
      BY <1>2, <1>3, <3>1
    <3>. QED  BY <3>1, <3>2
  <2>6. j \in DOMAIN l /\ MatchesAt(l, j)
    BY <2>4
  <2>. HIDE DEF j
  <2>. QED  BY <2>4, <2>5, <2>6 DEF RequestLineMatches
<1>6. SubSeq(l, 3, Len(l)) = <<Version>>
  <2>1. 2 \in Nat /\ 3 \in Nat /\ 2 <= 3 /\ 3 <= Len(l) /\ 2 + 1 = 3 /\ 3 - 2 = 1
    BY <1>3
  <2>2. /\ SubSeq(l, 2 + 1, 3) \in Seq(S) /\ Len(SubSeq(l, 2 + 1, 3)) = 3 - 2
        /\ \A k \in 1..(3 - 2) : SubSeq(l, 2 + 1, 3)[k] = l[2 + k]
    BY <1>3, <2>1, Slice
  <2>. DEFINE w == SubSeq(l, 3, 3)
  <2>3. w \in Seq(S) /\ Len(w) = 1 /\ w[1] = Version
    BY <1>3, <2>1, <2>2
  <2>. HIDE DEF w
  <2>4. <<Version>> \in Seq(S) /\ Len(<<Version>>) = 1 /\ <<Version>>[1] = Version
    OBVIOUS
  <2>5. w = <<Version>>
    BY <2>3, <2>4, SameSeq
  <2>. QED  BY <1>3, <2>5 DEF w
<1>7. AfterLine(Fresh, l, left, verified) = InHand(q, i, "", FALSE, "HEADERS")
  <2>1. Fresh.state = "REQUEST_LINE"
    BY DEF Fresh
  <2>2. AfterLine(Fresh, l, left, verified) = ParseRequestLine_(Fresh, l)
    BY <2>1 DEF AfterLine
  <2>. DEFINE off == FALSE
              m == q.method
              p == ParsePath_(q.path)
              w == <<Version>>
  <2>3. /\ l[1][2] = m /\ ParsePath_(l[2][2][1]) = p /\ l[2][2][2] = i
        /\ SubSeq(l, 2 + 1, Len(l)) = w /\ j = 2
    BY <1>2, <1>3, <1>5, <1>6
  <2>4. Fresh = [state |-> "REQUEST_LINE", method |-> "", path |-> "", version |-> <<>>,
                 connection |-> "", form |-> off, of |-> 0]
    BY DEF Fresh
  <2>5. ParseRequestLine_(Fresh, l) =
          [Fresh EXCEPT !.state = "HEADERS", !.method = m, !.path = p, !.of = i, !.version = w]
    <3>1. ParseRequestLine_(Fresh, l) =
            [Fresh EXCEPT !.state = "HEADERS", !.method = IF j = 2 THEN l[1][2] ELSE "other",
                          !.path = ParsePath_(l[j][2][1]), !.of = l[j][2][2],
                          !.version = SubSeq(l, j + 1, Len(l))]
      BY Zenon DEF ParseRequestLine_
    <3>. HIDE DEF j, m, p, w
    <3>. QED  BY <2>3, <3>1
  <2>6. InHand(q, i, "", FALSE, "HEADERS") =
          [state |-> "HEADERS", method |-> m, path |-> p, version |-> w,
           connection |-> "", form |-> off, of |-> i]
    BY DEF InHand
  <2>. HIDE DEF off, m, p, w
  <2>. DEFINE y == ParseRequestLine_(Fresh, l)
  <2>7. y = [Fresh EXCEPT !.state = "HEADERS", !.method = m, !.path = p, !.of = i, !.version = w]
    BY <2>5
  <2>. HIDE DEF y
  <2>8. y = [state |-> "HEADERS", method |-> m, path |-> p, version |-> w,
             connection |-> "", form |-> off, of |-> i]
    BY <2>4, <2>7, RequestBegun
  <2>. QED  BY <2>2, <2>6, <2>8 DEF y
<1>. QED  BY <1>3, <1>4, <1>5, <1>7 DEF l

\* The three other lines.
KeepLine == <<Name, Colon, Value>>
FormLine == <<Form>>

LEMMA HeaderLines ==
  /\ OneLine(KeepLine) /\ Len(KeepLine) = 3 /\ KeepLine[1] = Name /\ HeaderMatches(KeepLine)
  /\ OneLine(FormLine) /\ Len(FormLine) = 1 /\ FormLine[1] # Name /\ HeaderMatches(FormLine)
  /\ OneLine(<<>>) /\ Len(<<>>) = 0 /\ ~HeaderMatches(<<>>)
<1>1. /\ Kind(CR) = "cr" /\ Kind(LF) = "lf" /\ Kind(Name) = "name" /\ Kind(Colon) = "colon"
      /\ Kind(Value) = "value" /\ Kind(Form) = "form"
  BY DEF Kind, CR, LF, Name, Colon, Value, Form
<1>2. /\ KeepLine \in Seq({Name, Colon, Value}) /\ Len(KeepLine) = 3
      /\ KeepLine[1] = Name /\ KeepLine[2] = Colon /\ KeepLine[3] = Value
  BY DEF KeepLine
<1>3. FormLine \in Seq({Form}) /\ Len(FormLine) = 1 /\ FormLine[1] = Form
  BY DEF FormLine
<1>4. OneLine(KeepLine)
  <2>1. \A k \in 1..3 : Kind(KeepLine[k]) # Kind(CR)
    BY <1>1, <1>2
  <2>. QED  BY <1>2, <2>1 DEF OneLine
<1>5. OneLine(FormLine)
  <2>1. \A k \in 1..1 : Kind(FormLine[k]) # Kind(CR)
    BY <1>1, <1>3
  <2>. QED  BY <1>3, <2>1 DEF OneLine
<1>6. HeaderMatches(KeepLine)
  <2>1. DOMAIN KeepLine = 1..3
    BY <1>2
  <2>2. Kind(KeepLine[2]) \in {"colon", "form"}
    BY <1>1, <1>2
  <2>3. ASSUME NEW j \in (2 + 1)..Len(KeepLine) PROVE KeepLine[j] \notin {CR, LF}
    <3>1. j = 3
      BY <1>2
    <3>. QED  BY <1>1, <1>2, <3>1
  <2>. QED  BY <2>1, <2>2, <2>3 DEF HeaderMatches
<1>7. HeaderMatches(FormLine)
  <2>1. DOMAIN FormLine = 1..1
    BY <1>3
  <2>2. Kind(FormLine[1]) \in {"colon", "form"}
    BY <1>1, <1>3
  <2>3. \A j \in (1 + 1)..Len(FormLine) : FALSE
    BY <1>3
  <2>4. 1 \in DOMAIN FormLine
    BY <2>1
  <2>. QED  BY <2>2, <2>3, <2>4 DEF HeaderMatches
<1>8. OneLine(<<>>) /\ Len(<<>>) = 0 /\ ~HeaderMatches(<<>>)
  <2>1. DOMAIN <<>> = {} /\ Len(<<>>) = 0
    OBVIOUS
  <2>. QED  BY <2>1 DEF OneLine, HeaderMatches
<1>9. FormLine[1] # Name
  BY <1>1, <1>3
<1>. QED  BY <1>2, <1>3, <1>4, <1>5, <1>6, <1>7, <1>8, <1>9

LEMMA KeepParsed ==
  ASSUME NEW q, NEW i, NEW c, NEW f, NEW left, ~(left <= 2), NEW verified
  PROVE  AfterLine(InHand(q, i, c, f, "HEADERS"), KeepLine, left, verified)
           = InHand(q, i, "keep-alive", f, "HEADERS")
<1>. DEFINE x == InHand(q, i, c, f, "HEADERS")
            p == ParsePath_(q.path)
            w == <<Version>>
            m == q.method
<1>1. x = [state |-> "HEADERS", method |-> m, path |-> p, version |-> w,
           connection |-> c, form |-> f, of |-> i]
  BY DEF InHand
<1>2. InHand(q, i, "keep-alive", f, "HEADERS") =
        [state |-> "HEADERS", method |-> m, path |-> p, version |-> w,
         connection |-> "keep-alive", form |-> f, of |-> i]
  BY DEF InHand
<1>. HIDE DEF x, p, w, m
<1>3. x.state = "HEADERS"
  BY <1>1
<1>4. AfterLine(x, KeepLine, left, verified) = ParseHeader_(x, KeepLine)
  BY <1>3 DEF AfterLine
<1>5. KeepLine = <<Name, Colon, Value>>
  BY DEF KeepLine
<1>6. ParseHeader_(x, KeepLine) = [x EXCEPT !.connection = "keep-alive"]
  <2>1. KeepLine[1] = Name /\ HeaderMatches(KeepLine)
    BY HeaderLines
  <2>. QED  BY <1>5, <2>1, Zenon DEF ParseHeader_
<1>7. [x EXCEPT !.connection = "keep-alive"] =
        [state |-> "HEADERS", method |-> m, path |-> p, version |-> w,
         connection |-> "keep-alive", form |-> f, of |-> i]
  BY <1>1
<1>. QED  BY <1>2, <1>4, <1>6, <1>7 DEF x

LEMMA FormParsed ==
  ASSUME NEW q, NEW i, NEW c, NEW f, NEW left, ~(left <= 2), NEW verified
  PROVE  AfterLine(InHand(q, i, c, f, "HEADERS"), FormLine, left, verified)
           = InHand(q, i, c, TRUE, "HEADERS")
<1>. DEFINE x == InHand(q, i, c, f, "HEADERS")
            p == ParsePath_(q.path)
            w == <<Version>>
            m == q.method
            on == TRUE
<1>1. x = [state |-> "HEADERS", method |-> m, path |-> p, version |-> w,
           connection |-> c, form |-> f, of |-> i]
  BY DEF InHand
<1>2. InHand(q, i, c, TRUE, "HEADERS") =
        [state |-> "HEADERS", method |-> m, path |-> p, version |-> w,
         connection |-> c, form |-> on, of |-> i]
  BY DEF InHand
<1>. HIDE DEF x, p, w, m
<1>3. x.state = "HEADERS"
  BY <1>1
<1>4. AfterLine(x, FormLine, left, verified) = ParseHeader_(x, FormLine)
  BY <1>3 DEF AfterLine
<1>5. FormLine = <<Form>>
  BY DEF FormLine
<1>6. ParseHeader_(x, FormLine) = [x EXCEPT !.form = on]
  <2>1. FormLine[1] # Name /\ HeaderMatches(FormLine)
    BY HeaderLines
  <2>2. ParseHeader_(x, FormLine) = [x EXCEPT !.form = @ \/ FormLine = <<Form>>]
    BY <2>1, Zenon DEF ParseHeader_
  <2>3. (x.form \/ FormLine = <<Form>>) = on
    BY <1>5
  <2>. QED  BY <2>2, <2>3
<1>. HIDE DEF on
<1>7. [x EXCEPT !.form = on] =
        [state |-> "HEADERS", method |-> m, path |-> p, version |-> w,
         connection |-> c, form |-> on, of |-> i]
  BY <1>1
<1>. QED  BY <1>2, <1>4, <1>6, <1>7 DEF x

LEMMA BlankParsed ==
  ASSUME NEW q, NEW i, NEW c, NEW f, NEW left, NEW verified
  PROVE  AfterLine(InHand(q, i, c, f, "HEADERS"), <<>>, left, verified)
           = InHand(q, i, c, f, IF left <= 2 THEN "FINISH" ELSE "BODY")
<1>. DEFINE x == InHand(q, i, c, f, "HEADERS")
            p == ParsePath_(q.path)
            w == <<Version>>
            m == q.method
<1>1. x = [state |-> "HEADERS", method |-> m, path |-> p, version |-> w,
           connection |-> c, form |-> f, of |-> i]
  BY DEF InHand
<1>2. \A state : InHand(q, i, c, f, state) =
        [state |-> state, method |-> m, path |-> p, version |-> w,
         connection |-> c, form |-> f, of |-> i]
  BY DEF InHand
<1>. HIDE DEF x, p, w, m
<1>3. x.state = "HEADERS"
  BY <1>1
<1>4. ParseHeader_(x, <<>>) = [x EXCEPT !.state = "BODY"]
  BY HeaderLines, Zenon DEF ParseHeader_
<1>5. [x EXCEPT !.state = "BODY"] = InHand(q, i, c, f, "BODY")
  BY <1>1, <1>2
<1>6. [InHand(q, i, c, f, "BODY") EXCEPT !.state = "FINISH"] = InHand(q, i, c, f, "FINISH")
  BY <1>2
<1>7. CASE left <= 2
  <2>1. AfterLine(x, <<>>, left, verified) = [ParseHeader_(x, <<>>) EXCEPT !.state = "FINISH"]
    BY <1>3, <1>7 DEF AfterLine
  <2>. QED  BY <1>4, <1>5, <1>6, <1>7, <2>1 DEF x
<1>8. CASE ~(left <= 2)
  <2>1. AfterLine(x, <<>>, left, verified) = ParseHeader_(x, <<>>)
    BY <1>3, <1>8 DEF AfterLine
  <2>. QED  BY <1>4, <1>5, <1>8, <2>1 DEF x
<1>. QED  BY <1>7, <1>8

\* The body of a form: its request is finished, for one of the two pages of ParsePost_.
LEMMA BodyParsed ==
  ASSUME NEW q, NEW i, NEW c, NEW line, NEW left, NEW verified,
         q.method = "POST", ParsePath_(q.path) \in {"/register.html", "/login.html"}
  PROVE  LET next == AfterLine(InHand(q, i, c, TRUE, "BODY"), line, left, verified) IN
         /\ next.state = "FINISH" /\ next.of = i /\ next.connection = c
         /\ next.version = <<Version>> /\ next.path \in {"/welcome.html", "/error.html"}
<1>. DEFINE x == InHand(q, i, c, TRUE, "BODY")
            p == ParsePath_(q.path)
            w == <<Version>>
            on == TRUE
            path == IF verified /\ {Username, Password} \subseteq ToSet(line)
                    THEN "/welcome.html" ELSE "/error.html"
<1>1. x = [state |-> "BODY", method |-> "POST", path |-> p, version |-> w,
           connection |-> c, form |-> on, of |-> i]
  BY DEF InHand
<1>2. p \in {"/register.html", "/login.html"}
  OBVIOUS
<1>3. x.state = "BODY" /\ x.method = "POST" /\ x.form /\ x.path = p
  <2>1. x.form
    BY DEF InHand
  <2>. HIDE DEF x, p, w, on
  <2>. QED  BY <1>1, <2>1
<1>4. path \in {"/welcome.html", "/error.html"}
  OBVIOUS
<1>. HIDE DEF x, p, w, on
<1>5. AfterLine(x, line, left, verified) = ParseBody_(x, line, verified)
  BY <1>3 DEF AfterLine
<1>6. ParseBody_(x, line, verified) = [x EXCEPT !.state = "FINISH", !.path = path]
  <2>1. x.method = "POST" /\ x.form /\ x.path \in {"/register.html", "/login.html"}
    BY <1>2, <1>3
  <2>. QED  BY <2>1, Zenon DEF ParseBody_
<1>. HIDE DEF path
<1>. DEFINE next == AfterLine(x, line, left, verified)
<1>7. next = [x EXCEPT !.state = "FINISH", !.path = path]
  BY <1>5, <1>6
<1>. HIDE DEF next
<1>8. next = [state |-> "FINISH", method |-> "POST", path |-> path, version |-> w,
              connection |-> c, form |-> on, of |-> i]
  BY <1>1, <1>7, RequestEnded
<1>9. next.state = "FINISH" /\ next.of = i /\ next.connection = c /\ next.version = w /\ next.path = path
  BY <1>8
<1>. QED  BY <1>4, <1>9 DEF next, x, w

Nested(s, t, u) == (s \o t) \o u = s \o (t \o u)

LEMMA Nesting ==
  ASSUME NEW S, NEW s \in Seq(S), NEW t \in Seq(S), NEW u \in Seq(S) PROVE Nested(s, t, u)
BY ConcatAssociative DEF Nested

\* The lines of a request, from the end.
Blank(q)   == CRLF \o q.body
Formed(q)  == IF q.form THEN FormLine \o (CRLF \o Blank(q)) ELSE Blank(q)
Headers(q) == IF q.keep THEN KeepLine \o (CRLF \o Formed(q)) ELSE Formed(q)

Spelled(q, i, S) ==
  /\ {CR, LF} \subseteq S
  /\ LineOf(q, i) \in Seq(S) /\ KeepLine \in Seq(S) /\ FormLine \in Seq(S) /\ <<>> \in Seq(S)
  /\ q.body \in Seq(S) /\ Blank(q) \in Seq(S) /\ Formed(q) \in Seq(S) /\ Headers(q) \in Seq(S)
  /\ Begins(Symbols(q, i), LineOf(q, i), Headers(q)) /\ Begins(Blank(q), <<>>, q.body)
  /\ q.form => Begins(Formed(q), FormLine, Blank(q))
  /\ q.keep => Begins(Headers(q), KeepLine, Formed(q))

LEMMA Spelling ==
  ASSUME NEW q, NEW i, NEW S, Alphabet(q, i) \subseteq S, q.body \in Seq(S)
  PROVE  Spelled(q, i, S)
<1>. DEFINE body == q.body
            line == LineOf(q, i)
            first == line \o CRLF
            kept == IF q.keep THEN KeepLine \o CRLF ELSE <<>>
            typed == IF q.form THEN FormLine \o CRLF ELSE <<>>
            all == Symbols(q, i)
            r3 == Blank(q)
            r2 == Formed(q)
            r1 == Headers(q)
<1>1. {Verb(q.method), Target(q.path, i), Version, CR, LF, Name, Colon, Value, Form} \subseteq S
  BY DEF Alphabet
<1>2. line \in Seq(S) /\ CRLF \in Seq(S) /\ KeepLine \in Seq(S) /\ FormLine \in Seq(S)
      /\ <<>> \in Seq(S)
  BY <1>1 DEF LineOf, CRLF, KeepLine, FormLine
<1>3. all = ((((first \o kept) \o typed) \o CRLF) \o body)
  BY Zenon DEF Symbols, LineOf, KeepLine, FormLine
<1>4. r3 = CRLF \o body
  BY DEF Blank
<1>5. r2 = IF q.form THEN FormLine \o (CRLF \o r3) ELSE r3
  BY DEF Formed
<1>6. r1 = IF q.keep THEN KeepLine \o (CRLF \o r2) ELSE r2
  BY DEF Headers
<1>. HIDE DEF line, r1, r2, r3, all
<1>7. body \in Seq(S) /\ first \in Seq(S) /\ kept \in Seq(S) /\ typed \in Seq(S) /\ r3 \in Seq(S)
  <2>1. first \in Seq(S) /\ KeepLine \o CRLF \in Seq(S) /\ FormLine \o CRLF \in Seq(S)
        /\ CRLF \o body \in Seq(S)
    BY <1>2, ConcatProperties
  <2>. QED  BY <1>2, <1>4, <2>1
<1>8. typed \o r3 = r2 /\ r2 \in Seq(S)
  <2>1. CASE q.form
    <3>1. (FormLine \o CRLF) \o r3 = FormLine \o (CRLF \o r3)
      <4>1. Nested(FormLine, CRLF, r3)
        BY <1>2, <1>7, Nesting
      <4>. QED  BY <4>1, Zenon DEF Nested
    <3>2. typed = FormLine \o CRLF
      BY <2>1
    <3>. HIDE DEF typed
    <3>3. typed \o r3 \in Seq(S)
      BY <1>7, ConcatProperties
    <3>. QED  BY <1>5, <2>1, <3>1, <3>2, <3>3
  <2>2. CASE ~q.form
    <3>1. <<>> \o r3 = r3
      BY <1>7, ConcatEmptySeq
    <3>. QED  BY <1>5, <1>7, <2>2, <3>1
  <2>. QED  BY <2>1, <2>2
<1>9. kept \o r2 = r1 /\ r1 \in Seq(S)
  <2>1. CASE q.keep
    <3>1. (KeepLine \o CRLF) \o r2 = KeepLine \o (CRLF \o r2)
      <4>1. Nested(KeepLine, CRLF, r2)
        BY <1>2, <1>8, Nesting
      <4>. QED  BY <4>1, Zenon DEF Nested
    <3>2. kept = KeepLine \o CRLF
      BY <2>1
    <3>. HIDE DEF kept, typed
    <3>3. kept \o r2 \in Seq(S)
      BY <1>7, <1>8, ConcatProperties
    <3>. QED  BY <1>6, <2>1, <3>1, <3>2, <3>3
  <2>2. CASE ~q.keep
    <3>1. <<>> \o r2 = r2
      BY <1>8, ConcatEmptySeq
    <3>. QED  BY <1>6, <1>8, <2>2, <3>1
  <2>. QED  BY <2>1, <2>2
<1>. HIDE DEF kept, typed
<1>10. all = line \o (CRLF \o r1)
  <2>. DEFINE p == first \o kept
              m == p \o typed
  <2>1. p \in Seq(S)
    BY <1>7, ConcatProperties
  <2>. HIDE DEF p
  <2>2. m \in Seq(S)
    BY <1>7, <2>1, ConcatProperties
  <2>. HIDE DEF m
  <2>3. all = (m \o CRLF) \o body
    BY <1>3 DEF m, p
  <2>4. (m \o CRLF) \o body = m \o (CRLF \o body)
    <3>1. Nested(m, CRLF, body)
      BY <1>2, <1>7, <2>2, Nesting
    <3>. QED  BY <3>1, Zenon DEF Nested
  <2>5. m \o r3 = p \o (typed \o r3)
    <3>1. Nested(p, typed, r3)
      BY <1>7, <2>1, Nesting
    <3>. QED  BY <3>1, Zenon DEF Nested, m
  <2>. HIDE DEF first
  <2>6. p \o r2 = first \o (kept \o r2)
    <3>1. Nested(first, kept, r2)
      BY <1>7, <1>8, Nesting
    <3>. QED  BY <3>1, Zenon DEF Nested, p
  <2>7. first \o r1 = line \o (CRLF \o r1)
    <3>1. Nested(line, CRLF, r1)
      BY <1>2, <1>9, Nesting
    <3>. QED  BY <3>1, Zenon DEF Nested, first
  <2>. QED  BY <1>4, <1>8, <1>9, <2>3, <2>4, <2>5, <2>6, <2>7
<1>11. r3 = <<>> \o (CRLF \o body)
  BY <1>4, <1>7, ConcatEmptySeq
<1>12. line = LineOf(q, i) /\ r1 = Headers(q) /\ r2 = Formed(q) /\ r3 = Blank(q) /\ all = Symbols(q, i)
  BY DEF line, r1, r2, r3, all
<1>13. /\ Begins(all, line, r1) /\ Begins(r3, <<>>, body)
       /\ q.form => Begins(r2, FormLine, r3)
       /\ q.keep => Begins(r1, KeepLine, r2)
  BY <1>5, <1>6, <1>10, <1>11, Zenon DEF Begins
<1>. QED  BY <1>1, <1>2, <1>7, <1>8, <1>9, <1>12, <1>13 DEF Spelled

\* parse() has the request q in hand and the rest before it.
At(turn, b, q, rest) ==
  \E d \in Nat : /\ d \in 2..Len(Readable(b)) /\ Reached(turn, b, q, d)
                 /\ Behind(Readable(b), d) = rest

LEMMA HeaderRead ==
  ASSUME NEW S, CR \in S, LF \in S, NEW b, Buffer(b, S), NEW verified,
         NEW turn, Running(turn, b, verified), NEW x, x.state = "HEADERS",
         NEW l \in Seq(S), NEW r \in Seq(S), OneLine(l), NEW u, Begins(u, l, r),
         At(turn, b, x, u)
  PROVE  At(turn, b, AfterLine(x, l, (Len(l) + 2) + Len(r), verified), r)
<1>. DEFINE t == Readable(b)
<1>1. PICK d \in Nat : d \in 2..Len(t) /\ Reached(turn, b, x, d) /\ Behind(t, d) = u
  BY DEF At
<1>2. /\ d \in 0..Len(t) /\ x.state # "FINISH" /\ (x.state = "REQUEST_LINE" => RequestLineMatches(l))
      /\ Begins(Behind(t, d), l, r)
  BY <1>1
<1>. DEFINE e == d + (Len(l) + 2)
<1>3. /\ Reached(turn, b, AfterLine(x, l, (Len(l) + 2) + Len(r), verified), e)
      /\ e \in 0..Len(t) /\ Behind(t, e) = r /\ d + 2 <= e
  <2>1. LeadsOn(turn, b, verified, x, d, l, r)
    BY <1>1, <1>2, Reads
  <2>. QED  BY <2>1 DEF LeadsOn
<1>4. e \in Nat /\ e \in 2..Len(t)
  <2>. HIDE DEF e, t
  <2>. QED  BY <1>1, <1>3
<1>. HIDE DEF e
<1>. QED  BY <1>3, <1>4 DEF At

\* From the request line to the body.
LEMMA HeadRead ==
  ASSUME NEW q, NEW i, NEW S, Spelled(q, i, S), NEW b, Buffer(b, S), Readable(b) = Symbols(q, i),
         NEW verified, NEW turn, Running(turn, b, verified), {q.keep, q.form} \subseteq BOOLEAN
  PROVE  At(turn, b, InHand(q, i, IF q.keep THEN "keep-alive" ELSE "", q.form,
                            IF Len(q.body) = 0 THEN "FINISH" ELSE "BODY"), q.body)
<1>. DEFINE t == Readable(b)
            c == IF q.keep THEN "keep-alive" ELSE ""
<1>1. /\ CR \in S /\ LF \in S /\ t \in Seq(S) /\ Len(t) \in Nat
      /\ LineOf(q, i) \in Seq(S) /\ KeepLine \in Seq(S) /\ FormLine \in Seq(S) /\ <<>> \in Seq(S)
      /\ q.body \in Seq(S) /\ Blank(q) \in Seq(S) /\ Formed(q) \in Seq(S) /\ Headers(q) \in Seq(S)
      /\ Begins(t, LineOf(q, i), Headers(q)) /\ Begins(Blank(q), <<>>, q.body)
      /\ q.form => Begins(Formed(q), FormLine, Blank(q))
      /\ q.keep => Begins(Headers(q), KeepLine, Formed(q))
  <2>1. Readable(b) \in Seq(S)
    BY Content
  <2>. HIDE DEF t
  <2>2. t \in Seq(S) /\ t = Symbols(q, i)
    BY <2>1 DEF t
  <2>. QED  BY <2>2 DEF Spelled
<1>2. /\ Len(Headers(q)) \in Nat /\ Len(Formed(q)) \in Nat /\ Len(Blank(q)) \in Nat
      /\ Len(q.body) \in Nat
  BY <1>1
<1>. HIDE DEF t
<1>. DEFINE none == ""
            off == FALSE
<1>. HIDE DEF none, off
<1>3. At(turn, b, InHand(q, i, none, off, "HEADERS"), Headers(q))
  <2>. DEFINE l == LineOf(q, i)
              z == 0
  <2>1. OneLine(l) /\ Len(l) = 3 /\ RequestLineMatches(l)
    BY FirstLineParsed
  <2>2. AfterLine(Fresh, l, (Len(l) + 2) + Len(Headers(q)), verified)
          = InHand(q, i, none, off, "HEADERS")
    BY FirstLineParsed DEF none, off
  <2>3. Reached(turn, b, Fresh, z)
    BY Begun
  <2>4. Behind(t, z) = t /\ z \in 0..Len(t)
    BY <1>1 DEF Behind
  <2>5. Fresh.state # "FINISH"
    BY DEF Fresh
  <2>. DEFINE e == z + (Len(l) + 2)
  <2>6. /\ Reached(turn, b, AfterLine(Fresh, l, (Len(l) + 2) + Len(Headers(q)), verified), e)
        /\ e \in 0..Len(t) /\ Behind(t, e) = Headers(q)
    <3>1. Begins(Behind(Readable(b), z), l, Headers(q)) /\ z \in 0..Len(Readable(b))
      BY <1>1, <2>4 DEF t
    <3>2. l \in Seq(S)
      BY <1>1
    <3>. HIDE DEF l, z
    <3>3. LeadsOn(turn, b, verified, Fresh, z, l, Headers(q))
      BY <1>1, <2>1, <2>3, <2>5, <3>1, <3>2, Reads
    <3>. QED  BY <3>3 DEF LeadsOn, t
  <2>7. e \in 2..Len(t) /\ e \in Nat
    BY <1>1, <2>1, <2>6
  <2>. HIDE DEF e, l
  <2>. QED  BY <2>2, <2>6, <2>7 DEF At, t
<1>5. \A c0, f, state : InHand(q, i, c0, f, state).state = state
  BY DEF InHand
<1>6. At(turn, b, InHand(q, i, c, off, "HEADERS"), Formed(q))
  <2>1. CASE q.keep
    <3>1. Begins(Headers(q), KeepLine, Formed(q)) /\ c = "keep-alive"
      BY <1>1, <2>1
    <3>2. OneLine(KeepLine) /\ Len(KeepLine) = 3
      BY HeaderLines
    <3>. DEFINE left == (Len(KeepLine) + 2) + Len(Formed(q))
    <3>3. ~(left <= 2)
      BY <1>2, <3>2
    <3>4. At(turn, b, AfterLine(InHand(q, i, none, off, "HEADERS"), KeepLine, left, verified), Formed(q))
      <4>. DEFINE x == InHand(q, i, none, off, "HEADERS")
      <4>1. x.state = "HEADERS" /\ At(turn, b, x, Headers(q)) /\ Begins(Headers(q), KeepLine, Formed(q))
        BY <1>3, <1>5, <3>1
      <4>. HIDE DEF x
      <4>2. At(turn, b, AfterLine(x, KeepLine, (Len(KeepLine) + 2) + Len(Formed(q)), verified), Formed(q))
        BY <1>1, <3>2, <4>1, HeaderRead
      <4>. QED  BY <4>2 DEF x
    <3>. HIDE DEF left
    <3>5. AfterLine(InHand(q, i, none, off, "HEADERS"), KeepLine, left, verified)
            = InHand(q, i, "keep-alive", off, "HEADERS")
      BY <3>3, KeepParsed
    <3>. QED  BY <3>1, <3>4, <3>5
  <2>2. CASE ~q.keep
    <3>1. Headers(q) = Formed(q) /\ c = ""
      BY <2>2 DEF Headers
    <3>. QED  BY <1>3, <3>1 DEF none
  <2>. QED  BY <2>1, <2>2
<1>. HIDE DEF c
<1>7. At(turn, b, InHand(q, i, c, q.form, "HEADERS"), Blank(q))
  <2>1. CASE q.form = TRUE
    <3>1. Begins(Formed(q), FormLine, Blank(q))
      BY <1>1, <2>1
    <3>2. OneLine(FormLine) /\ Len(FormLine) = 1
      BY HeaderLines
    <3>. DEFINE left == (Len(FormLine) + 2) + Len(Blank(q))
    <3>3. ~(left <= 2)
      BY <1>2, <3>2
    <3>4. At(turn, b, AfterLine(InHand(q, i, c, off, "HEADERS"), FormLine, left, verified), Blank(q))
      BY <1>1, <1>5, <1>6, <3>1, <3>2, HeaderRead
    <3>. HIDE DEF left
    <3>5. AfterLine(InHand(q, i, c, off, "HEADERS"), FormLine, left, verified)
            = InHand(q, i, c, TRUE, "HEADERS")
      BY <3>3, FormParsed
    <3>6. InHand(q, i, c, q.form, "HEADERS") = InHand(q, i, c, TRUE, "HEADERS")
      BY <2>1
    <3>. QED  BY <3>4, <3>5, <3>6
  <2>2. CASE q.form = FALSE
    <3>1. Formed(q) = Blank(q)
      BY <2>2 DEF Formed
    <3>2. InHand(q, i, c, q.form, "HEADERS") = InHand(q, i, c, off, "HEADERS")
      BY <2>2 DEF off
    <3>. QED  BY <1>6, <3>1, <3>2
  <2>. QED  BY <2>1, <2>2
<1>8. At(turn, b, InHand(q, i, c, q.form, IF Len(q.body) = 0 THEN "FINISH" ELSE "BODY"), q.body)
  <2>1. OneLine(<<>>) /\ Len(<<>>) = 0
    BY HeaderLines
  <2>. DEFINE x == InHand(q, i, c, q.form, "HEADERS")
              left == (Len(<<>>) + 2) + Len(q.body)
              e == <<>>
  <2>2. left <= 2 <=> Len(q.body) = 0
    BY <1>2, <2>1
  <2>3. x.state = "HEADERS"
    BY <1>5
  <2>. HIDE DEF x
  <2>4. At(turn, b, AfterLine(x, e, left, verified), q.body)
    <3>1. e \in Seq(S) /\ OneLine(e) /\ At(turn, b, x, Blank(q)) /\ Begins(Blank(q), e, q.body)
      BY <1>1, <1>7, <2>1 DEF x
    <3>2. left = (Len(e) + 2) + Len(q.body)
      OBVIOUS
    <3>. HIDE DEF e, left
    <3>. QED  BY <1>1, <2>3, <3>1, <3>2, HeaderRead
  <2>. HIDE DEF left
  <2>5. AfterLine(x, e, left, verified) = InHand(q, i, c, q.form, IF left <= 2 THEN "FINISH" ELSE "BODY")
    BY BlankParsed DEF x
  <2>6. (IF left <= 2 THEN "FINISH" ELSE "BODY") = (IF Len(q.body) = 0 THEN "FINISH" ELSE "BODY")
    BY <2>2
  <2>. QED  BY <2>4, <2>5, <2>6
<1>. QED  BY <1>8 DEF c

\* What parse() makes of a buffer with exactly the i-th request, q, in it.
WholeParsed(b, verified, q, i) ==
  LET x == Parse(Fresh, b, verified) IN
  /\ x.ok = TRUE /\ x.request.of = i /\ IsKeepAlive(x.request) = q.keep
  /\ x.buff.read >= b.read + 2
  /\ ~q.form => x.request.path = ParsePath_(q.path) /\ x.buff.read = b.write
  /\ q.form => x.request.path \in {"/welcome.html", "/error.html"}

LEMMA TurnEnds ==
  ASSUME NEW goes, NEW ok, NEW q, NEW c, NEW x,
         x = [goes |-> goes, ok |-> ok, request |-> q, buff |-> c],
         NEW goes1, NEW ok1, NEW q1, NEW c1, NEW y, NEW z, NEW w,
         y = [x EXCEPT !.goes = goes1, !.request = q1],
         z = [x EXCEPT !.request = q1, !.buff = c1],
         w = [x EXCEPT !.goes = goes1, !.ok = ok1]
  PROVE  /\ y = [goes |-> goes1, ok |-> ok, request |-> q1, buff |-> c]
         /\ z = [goes |-> goes, ok |-> ok, request |-> q1, buff |-> c1]
         /\ w = [goes |-> goes1, ok |-> ok1, request |-> q, buff |-> c]
<1>1. /\ y = [goes |-> y.goes, ok |-> y.ok, request |-> y.request, buff |-> y.buff]
      /\ y.goes = goes1 /\ y.ok = ok /\ y.request = q1 /\ y.buff = c
  OBVIOUS
<1>2. /\ z = [goes |-> z.goes, ok |-> z.ok, request |-> z.request, buff |-> z.buff]
      /\ z.goes = goes /\ z.ok = ok /\ z.request = q1 /\ z.buff = c1
  OBVIOUS
<1>3. /\ w = [goes |-> w.goes, ok |-> w.ok, request |-> w.request, buff |-> w.buff]
      /\ w.goes = goes1 /\ w.ok = ok1 /\ w.request = q /\ w.buff = c
  OBVIOUS
<1>. QED  BY <1>1, <1>2, <1>3, Zenon

\* The body of a form.
LEMMA BodyRead ==
  ASSUME NEW S, NEW b, Buffer(b, S), NEW verified, NEW turn, Running(turn, b, verified),
         NEW x, x.state = "BODY", NEW u \in Seq(S), u # <<>>, At(turn, b, x, u)
  PROVE  \E c : /\ Leaves(b, verified, TRUE, AfterLine(x, Line(u), Len(u), verified), c)
                   \/ AfterLine(x, Line(u), Len(u), verified).state # "FINISH"
                /\ c.read >= b.read + 2
<1>. DEFINE t == Readable(b)
            m == ReadableBytes(b)
            next == AfterLine(x, Line(u), Len(u), verified)
<1>1. PICK d \in Nat : d \in 2..Len(t) /\ Reached(turn, b, x, d) /\ Behind(t, d) = u
  BY DEF At
<1>2. PICK n \in Nat : n <= d /\ turn[n] = Reading(b, x, d)
  BY <1>1 DEF Reached
<1>3. d \in 0..Len(t)
  BY <1>1
<1>. DEFINE y == Reading(b, x, d)
<1>4. /\ Readable(y.buff) = u /\ Len(t) = m /\ t \in Seq(S) /\ b.read \in Nat
  BY <1>1, <1>3, ReadingText
<1>5. Len(u) = Len(t) - d /\ Len(t) \in Nat
  BY <1>1, <1>3, <1>4, BehindType
<1>6. Len(u) \in Nat /\ Len(u) > 0
  OBVIOUS
<1>. HIDE DEF t, m
<1>7. n \in 0..(m - 1) /\ n + 1 \in 0..m /\ m \in Nat
  BY <1>1, <1>2, <1>4, <1>5, <1>6
<1>8. turn[n + 1] = Turn(y, verified)
  BY <1>2, <1>7 DEF Running, m
<1>. DEFINE on == TRUE
            off == FALSE
            c == y.buff
            k == Len(Line(u)) + 2
<1>9. y = [goes |-> on, ok |-> on, request |-> x, buff |-> c] /\ y.goes /\ c.read = b.read + d
  BY DEF Reading
<1>10. k \in Nat
  <2>1. 0 + 1 = 1 /\ LineEnd(u) \in 1..(Len(u) + 1)
    BY LineEnds
  <2>2. 0 \in Nat /\ LineEnd(u) - 1 \in Nat /\ 0 <= LineEnd(u) - 1 /\ LineEnd(u) - 1 <= Len(u)
    BY <1>6, <2>1
  <2>3. SubSeq(u, 0 + 1, LineEnd(u) - 1) \in Seq(S)
    BY <2>2, Slice
  <2>4. Line(u) \in Seq(S)
    BY <2>1, <2>3 DEF Line
  <2>. QED  BY <2>4
<1>11. Turn(y, verified) =
         IF LineEnd(u) > Len(u) THEN [y EXCEPT !.goes = off, !.request = next]
         ELSE [y EXCEPT !.request = next, !.buff = Retrieve(c, k)]
  <2>. HIDE DEF y
  <2>1. y.request = x /\ y.goes /\ x.state # "FINISH" /\ x.state # "REQUEST_LINE"
    BY <1>9
  <2>. QED  BY <1>4, <2>1, Zenon DEF Turn
<1>. HIDE DEF next, on, off
<1>. DEFINE w == Turn(y, verified)
<1>12. \E goes, c1 : /\ w = [goes |-> goes, ok |-> on, request |-> next, buff |-> c1]
                     /\ c1.read >= b.read + 2
  <2>1. c.read >= b.read + 2 /\ c.read \in Nat
    BY <1>1, <1>4, <1>9
  <2>2. CASE LineEnd(u) > Len(u)
    <3>. HIDE DEF y, w
    <3>1. w = [y EXCEPT !.goes = off, !.request = next]
      BY <1>11, <2>2 DEF w
    <3>2. w = [goes |-> off, ok |-> on, request |-> next, buff |-> c]
      <4>. HIDE DEF c
      <4>. QED  BY <1>9, <3>1, TurnEnds
    <3>. QED  BY <2>1, <3>2
  <2>3. CASE ~(LineEnd(u) > Len(u))
    <3>. DEFINE c1 == Retrieve(c, k)
    <3>0. c1.read = c.read + k
      BY DEF Reading, Retrieve
    <3>. HIDE DEF y, w, c, k, c1
    <3>1. w = [y EXCEPT !.request = next, !.buff = c1]
      BY <1>11, <2>3 DEF w, c1
    <3>2. w = [goes |-> on, ok |-> on, request |-> next, buff |-> c1]
      BY <1>9, <3>1, TurnEnds
    <3>3. c1.read >= b.read + 2
      BY <1>4, <1>10, <2>1, <3>0
    <3>. QED  BY <3>2, <3>3
  <2>. QED  BY <2>2, <2>3
<1>. HIDE DEF w, y, c, k
<1>13. PICK goes, c1 : /\ w = [goes |-> goes, ok |-> on, request |-> next, buff |-> c1]
                       /\ c1.read >= b.read + 2
  BY <1>12
<1>14. next.state = "FINISH" => Leaves(b, verified, on, next, c1)
  <2>1. turn[n + 1] = w
    BY <1>8 DEF w
  <2>. QED  BY <1>7, <1>13, <2>1, Rests DEF m
<1>. QED  BY <1>13, <1>14 DEF next, on

LEMMA Turns ==
  ASSUME NEW b, NEW verified, ReadableBytes(b) \in Nat
  PROVE  \E turn : Running(turn, b, verified)
BY ParseUnfolds DEF Running

\* What has no target in it is refused.
LEMMA Refused ==
  ASSUME NEW S, NEW b, Buffer(b, S), NEW verified, Readable(b) # <<>>,
         \A k \in 1..Len(Readable(b)) : Kind(Readable(b)[k]) # "target"
  PROVE  Leaves(b, verified, FALSE, Fresh, b)
<1>. DEFINE u == Readable(b)
            m == ReadableBytes(b)
            x == Start(Fresh, b)
            on == TRUE
            off == FALSE
<1>1. u \in Seq(S) /\ Len(u) = m /\ m \in Nat
  <2>1. u \in Seq(S) /\ Len(u) = b.write - b.read
    BY Content
  <2>. HIDE DEF u
  <2>. QED  BY <2>1 DEF ReadableBytes
<1>2. PICK turn : Running(turn, b, verified)
  <2>1. ReadableBytes(b) \in Nat
    BY <1>1
  <2>. HIDE DEF u, m, x
  <2>. QED  BY <2>1, Turns
<1>3. Readable(x.buff) = u /\ x.request = Fresh /\ x.goes /\ Fresh.state = "REQUEST_LINE"
  BY DEF Start, Fresh
<1>4. x = [goes |-> on, ok |-> on, request |-> Fresh, buff |-> b]
  BY DEF Start
<1>. HIDE DEF u, m, x
<1>5. Len(u) > 0
  BY <1>1 DEF u
<1>6. ~RequestLineMatches(Line(u))
  <2>1. Len(Line(u)) <= Len(u) /\ \A k \in 1..Len(Line(u)) : Line(u)[k] = u[k]
    BY <1>1, LineLength
  <2>2. \A k \in 1..Len(u) : Kind(u[k]) # "target"
    BY DEF u
  <2>3. Line(u) \in Seq(S)
    BY <1>1, LineLength
  <2>4. ASSUME NEW k, MatchesAt(Line(u), k) PROVE FALSE
    <3>1. k \in 2..Len(Line(u)) /\ Kind(Line(u)[k]) = "target"
      BY <2>4 DEF MatchesAt
    <3>2. k \in 1..Len(Line(u)) /\ k \in 1..Len(u)
      BY <1>1, <2>1, <2>3, <3>1
    <3>. QED  BY <2>1, <2>2, <3>1, <3>2
  <2>. QED  BY <2>4 DEF RequestLineMatches
<1>. DEFINE y == Turn(x, verified)
<1>7. y = [x EXCEPT !.goes = off, !.ok = off]
  <2>1. u # <<>>
    BY DEF u
  <2>. QED  BY <1>3, <1>6, <2>1, Zenon DEF Turn
<1>8. turn[0 + 1] = y
  <2>1. 0 \in 0..(m - 1)
    BY <1>1, <1>5
  <2>. QED  BY <1>2, <2>1 DEF Running, m, x
<1>. HIDE DEF y, on, off
<1>9. y = [goes |-> off, ok |-> off, request |-> Fresh, buff |-> b]
  BY <1>4, <1>7, TurnEnds
<1>10. Leaves(b, verified, off, Fresh, b)
  <2>1. 0 + 1 \in 0..ReadableBytes(b) /\ ReadableBytes(b) \in Nat /\ ~off
    BY <1>1, <1>5 DEF m, off
  <2>. QED  BY <1>2, <1>8, <1>9, <2>1, Rests
<1>. QED  BY <1>10 DEF off

LEMMA WholeRead ==
  ASSUME NEW q, NEW i, NEW S, Alphabet(q, i) \subseteq S, q.body \in Seq(S),
         NEW b, Buffer(b, S), Readable(b) = Symbols(q, i), NEW verified,
         {q.keep, q.form} \subseteq BOOLEAN, Ordinary(q)
  PROVE  WholeParsed(b, verified, q, i)
<1>. DEFINE c == IF q.keep THEN "keep-alive" ELSE ""
            t == Readable(b)
            x == Parse(Fresh, b, verified)
<1>0. ReadableBytes(b) \in Nat
  BY DEF Buffer, ReadableBytes
<1>1. PICK turn : Running(turn, b, verified)
  BY <1>0, ParseUnfolds DEF Running
<1>2. Spelled(q, i, S)
  BY Spelling
<1>3. At(turn, b, InHand(q, i, c, q.form, IF Len(q.body) = 0 THEN "FINISH" ELSE "BODY"), q.body)
  BY <1>1, <1>2, HeadRead
<1>4. \A y : y.connection = c /\ y.version = <<Version>> => IsKeepAlive(y) = q.keep
  BY DEF IsKeepAlive
<1>. HIDE DEF c
<1>5. CASE q.form = FALSE
  <2>. DEFINE y == InHand(q, i, c, q.form, "FINISH")
  <2>1. q.body = <<>> /\ Len(q.body) = 0
    BY <1>5 DEF Ordinary
  <2>2. At(turn, b, y, <<>>)
    BY <1>3, <2>1
  <2>3. y.state = "FINISH" /\ y.of = i /\ y.connection = c /\ y.version = <<Version>>
        /\ y.path = ParsePath_(q.path)
    BY DEF InHand
  <2>. HIDE DEF y
  <2>4. PICK d \in Nat : d \in 2..Len(t) /\ Reached(turn, b, y, d) /\ Behind(t, d) = <<>>
    BY <2>2 DEF At
  <2>5. PICK n \in Nat : n <= d /\ turn[n] = Reading(b, y, d)
    BY <2>4 DEF Reached
  <2>6. d \in 0..Len(t)
    BY <2>4
  <2>7. Len(t) = ReadableBytes(b) /\ t \in Seq(S) /\ b.read \in Nat /\ b.write \in Nat
        /\ Len(t) = b.write - b.read
    BY <2>6, ReadingText
  <2>8. Len(Behind(t, d)) = Len(t) - d
    BY <2>6, <2>7, BehindType
  <2>. HIDE DEF t
  <2>9. d = Len(t)
    BY <2>4, <2>7, <2>8
  <2>. DEFINE on == TRUE
              z == [cells |-> b.cells, read |-> b.read + d, write |-> b.write]
  <2>10. turn[n] = [goes |-> on, ok |-> on, request |-> y, buff |-> z]
    BY <2>5 DEF Reading
  <2>11. z.read = b.read + d
    OBVIOUS
  <2>. HIDE DEF on, z
  <2>12. n \in 0..ReadableBytes(b)
    BY <2>4, <2>5, <2>7, <2>9
  <2>13. Leaves(b, verified, on, y, z)
    BY <1>0, <1>1, <2>3, <2>10, <2>12, Rests
  <2>14. x.ok = on /\ x.request = y /\ x.buff = z
    BY <2>13 DEF Leaves
  <2>15. x.buff.read = b.write /\ x.buff.read >= b.read + 2
    BY <2>4, <2>7, <2>9, <2>11, <2>14
  <2>. HIDE DEF x
  <2>16. IsKeepAlive(x.request) = q.keep
    BY <1>4, <2>3, <2>14
  <2>. QED  BY <1>5, <2>3, <2>14, <2>15, <2>16 DEF WholeParsed, x, on
<1>6. CASE q.form = TRUE
  <2>. DEFINE y == InHand(q, i, c, TRUE, "BODY")
              u == q.body
              next == AfterLine(y, Line(u), Len(u), verified)
  <2>1. u # <<>> /\ u \in Seq(S) /\ q.method = "POST"
        /\ ParsePath_(q.path) \in {"/register.html", "/login.html"} 
    BY <1>6 DEF Ordinary
  <2>2. At(turn, b, y, u)
    <3>1. Len(u) # 0
      BY <2>1
    <3>. QED  BY <1>3, <1>6, <3>1
  <2>3. y.state = "BODY"
    BY DEF InHand
  <2>4. /\ next.state = "FINISH" /\ next.of = i /\ next.connection = c
        /\ next.version = <<Version>> /\ next.path \in {"/welcome.html", "/error.html"}
    BY <2>1, BodyParsed
  <2>. HIDE DEF y, u
  <2>5. PICK z : /\ Leaves(b, verified, TRUE, next, z) \/ next.state # "FINISH"
                 /\ z.read >= b.read + 2
    BY <1>1, <2>1, <2>2, <2>3, BodyRead
  <2>. HIDE DEF next
  <2>6. x.ok = TRUE /\ x.request = next /\ x.buff = z
    BY <2>4, <2>5 DEF Leaves
  <2>. HIDE DEF x
  <2>7. IsKeepAlive(x.request) = q.keep
    BY <1>4, <2>4, <2>6
  <2>. QED  BY <1>6, <2>4, <2>5, <2>6, <2>7 DEF WholeParsed, x
<1>. QED  BY <1>5, <1>6

-----------------------------------------------------------------------------
(***************************************************************************)
(* The response.                                                           *)
(***************************************************************************)

\* A response by its members, and what changes them.
Response(code, path, size, mapped, lost) ==
  [code |-> code, path |-> path, size |-> size, mapped |-> mapped, lost |-> lost]

IsResponse(r) ==
  /\ r = Response(r.code, r.path, r.size, r.mapped, r.lost)
  /\ r.size \in Nat /\ r.mapped \in Nat /\ r.lost \in Nat

LEMMA ResponseFields ==
  ASSUME NEW c, NEW p, NEW s, NEW m, NEW l, NEW r, r = Response(c, p, s, m, l)
  PROVE  r.code = c /\ r.path = p /\ r.size = s /\ r.mapped = m /\ r.lost = l
BY DEF Response

LEMMA Recoded ==
  ASSUME NEW c, NEW p, NEW s, NEW m, NEW l, NEW r, r = Response(c, p, s, m, l),
         NEW c1, NEW u, u = [r EXCEPT !.code = c1]
  PROVE  u = Response(c1, p, s, m, l)
BY DEF Response

LEMMA Renamed ==
  ASSUME NEW c, NEW p, NEW s, NEW m, NEW l, NEW r, r = Response(c, p, s, m, l),
         NEW p1, NEW u, u = [r EXCEPT !.path = p1]
  PROVE  u = Response(c, p1, s, m, l)
BY DEF Response

LEMMA Measured ==
  ASSUME NEW c, NEW p, NEW s, NEW m, NEW l, NEW r, r = Response(c, p, s, m, l),
         NEW s1, NEW u, u = [r EXCEPT !.size = s1]
  PROVE  u = Response(c, p, s1, m, l)
BY DEF Response

LEMMA Remapped ==
  ASSUME NEW c, NEW p, NEW s, NEW m, NEW l, NEW r, r = Response(c, p, s, m, l),
         NEW m1, NEW u, u = [r EXCEPT !.mapped = m1]
  PROVE  u = Response(c, p, s, m1, l)
BY DEF Response

LEMMA Forgotten ==
  ASSUME NEW c, NEW p, NEW s, NEW m, NEW l, NEW r, r = Response(c, p, s, m, l),
         NEW l1, NEW u, u = [r EXCEPT !.lost = l1]
  PROVE  u = Response(c, p, s, m, l1)
BY DEF Response

\* The length that stat() leaves behind.
Known(p, s) == IF p \in DOMAIN Site THEN Site[p].size ELSE s

LEMMA Statted ==
  ASSUME NEW c, NEW p, NEW s, NEW m, NEW l
  PROVE  Stat(Response(c, p, s, m, l)) = Response(c, p, Known(p, s), m, l)
<1>. DEFINE r == Response(c, p, s, m, l)
            k == Known(p, s)
            x == [r EXCEPT !.size = k]
<1>1. r.path = p /\ r.size = s
  BY DEF Response
<1>2. Stat(r) = x
  BY <1>1 DEF Stat, Known
<1>3. r = Response(c, p, s, m, l) /\ x = [r EXCEPT !.size = k]
  OBVIOUS
<1>. HIDE DEF r, k, x
<1>4. x = Response(c, p, k, m, l)
  BY <1>3, Measured
<1>. QED  BY <1>2, <1>4 DEF r, k

\* What Init and the choice of the file make of any response.
ErrorPage(status) ==
  IF status = 400 THEN "/400.html" ELSE IF status = 403 THEN "/403.html" ELSE "/404.html"

Choice(path, code, l) ==
  LET status == Status(Response(code, path, 0, 0, l))
      size == Known(path, 0)
  IN IF status \in {400, 403, 404}
       THEN Response(status, ErrorPage(status), Known(ErrorPage(status), size), 0, l)
     ELSE Response(status, path, size, 0, l)

LEMMA Chooses ==
  ASSUME NEW r, IsResponse(r), NEW path, NEW code
  PROVE  Chosen(ResponseInit(r, path, code)) = Choice(path, code, r.lost)
<1>. DEFINE l == r.lost
            start == Response(code, path, 0, 0, l)
            status == Status(start)
            size == Known(path, 0)
            page == ErrorPage(status)
<1>1. ResponseInit(r, path, code) = start
  <2>. DEFINE u == ResponseInit(r, path, code)
  <2>1. u = [r EXCEPT !.code = code, !.path = path, !.size = 0, !.mapped = 0]
    BY DEF ResponseInit
  <2>2. \E c, p, s, m : r = Response(c, p, s, m, l)
    BY DEF IsResponse
  <2>. DEFINE zero == 0
  <2>3. u = [r EXCEPT !.code = code, !.path = path, !.size = zero, !.mapped = zero]
    BY <2>1
  <2>. HIDE DEF u, l, zero
  <2>4. PICK c, p, s, m : r = Response(c, p, s, m, l)
    BY <2>2
  <2>5. u = Response(code, path, zero, zero, l)
    <3>1. /\ u = [code |-> u.code, path |-> u.path, size |-> u.size, mapped |-> u.mapped,
                  lost |-> u.lost]
          /\ u.code = code /\ u.path = path /\ u.size = zero /\ u.mapped = zero /\ u.lost = l
      BY <2>3, <2>4 DEF Response
    <3>. QED  BY <3>1, Zenon DEF Response
  <2>. QED  BY <2>5 DEF u, zero
<1>. HIDE DEF l, status, size
<1>2. [Stat(start) EXCEPT !.code = status] = Response(status, path, size, 0, l)
  <2>. DEFINE v == Stat(start)
              w == [v EXCEPT !.code = status]
  <2>1. v = Response(code, path, size, 0, l) /\ w = [v EXCEPT !.code = status]
    BY Statted DEF size
  <2>. HIDE DEF v, w
  <2>2. w = Response(status, path, size, 0, l)
    BY <2>1, Recoded
  <2>. QED  BY <2>2 DEF v, w
<1>. DEFINE x == Response(status, path, size, 0, l)
<1>3. Chosen(start) = ErrorHtml_(x)
  BY <1>2, Zenon DEF Chosen, status
<1>4. x.code = status
  BY DEF Response
<1>5. ASSUME NEW p
      PROVE  Stat([x EXCEPT !.path = p]) = Response(status, p, Known(p, size), 0, l)
  <2>. DEFINE y == [x EXCEPT !.path = p]
  <2>1. x = Response(status, path, size, 0, l) /\ y = [x EXCEPT !.path = p]
    OBVIOUS
  <2>. HIDE DEF x, y
  <2>2. y = Response(status, p, size, 0, l)
    BY <2>1, Renamed
  <2>3. Stat(y) = Response(status, p, Known(p, size), 0, l)
    BY <2>2, Statted
  <2>. QED  BY <2>3 DEF y
<1>. HIDE DEF x
<1>6. ASSUME NEW p, ErrorHtml_(x) = Stat([x EXCEPT !.path = p])
      PROVE  Chosen(start) = Response(status, p, Known(p, size), 0, l)
  BY <1>3, <1>5, <1>6
<1>7. status = 400 => ErrorHtml_(x) = Stat([x EXCEPT !.path = "/400.html"])
  BY <1>4 DEF ErrorHtml_
<1>8. status = 403 => ErrorHtml_(x) = Stat([x EXCEPT !.path = "/403.html"])
  <2>. HIDE DEF x
  <2>. QED  BY <1>4 DEF ErrorHtml_
<1>9. status = 404 => ErrorHtml_(x) = Stat([x EXCEPT !.path = "/404.html"])
  BY <1>4 DEF ErrorHtml_
<1>10. status \notin {400, 403, 404} => ErrorHtml_(x) = x
  BY <1>4 DEF ErrorHtml_
<1>11. status \in {400, 403, 404} => Chosen(start) = Response(status, page, Known(page, size), 0, l)
  <2>1. status \in {400, 403, 404} => ErrorHtml_(x) = Stat([x EXCEPT !.path = page])
    BY <1>7, <1>8, <1>9 DEF ErrorPage
  <2>. HIDE DEF page
  <2>. QED  BY <1>6, <2>1
<1>12. status \notin {400, 403, 404} => Chosen(start) = Response(status, path, size, 0, l)
  BY <1>3, <1>10 DEF x
<1>. HIDE DEF page
<1>13. Chosen(start) =
         IF status \in {400, 403, 404} THEN Response(status, page, Known(page, size), 0, l)
         ELSE Response(status, path, size, 0, l)
  BY <1>11, <1>12
<1>14. Choice(path, code, l) =
         IF status \in {400, 403, 404} THEN Response(status, page, Known(page, size), 0, l)
         ELSE Response(status, path, size, 0, l)
  BY Zenon DEF Choice, status, size, page
<1>. QED  BY <1>1, <1>13, <1>14 DEF l

\* The header and the body of a response whose file has been chosen.
LEMMA Contained ==
  ASSUME NEW c, NEW p, NEW s \in Nat, NEW l \in Nat, NEW x, x = Response(c, p, s, 0, l),
         NEW o, NEW y, y = AddContent_(x, o)
  PROVE  /\ IsResponse(y) /\ y.code = c
         /\ p \notin DOMAIN Site =>
              ~Crashes(x, o) /\ Announced(y, o) = TextUnits /\ Follows(y, o) = TextUnits /\ y.lost = l
         /\ p \in DOMAIN Site /\ ~Site[p].minusOne /\ s # 0 /\ o = "done" =>
              ~Crashes(x, o) /\ Announced(y, o) = s /\ Follows(y, o) = s /\ y.lost = l
<1>0. TextUnits \in Nat
  BY SiteAssumption
<1>1. /\ x.code = c /\ x.path = p /\ x.size = s /\ x.mapped = 0 /\ x.lost = l
  BY ResponseFields
<1>. DEFINE zero == 0
<1>2. x = Response(c, p, s, zero, l) /\ zero \in Nat
  OBVIOUS
<1>3. CASE ~Opens(x, o)
  <2>0. p \in DOMAIN Site => o # "done"
    BY <1>1, <1>3 DEF Opens
  <2>1. y = x
    BY <1>3, Zenon DEF AddContent_
  <2>2. ~Maps(y, o) /\ y.size = s /\ y.mapped = 0
    BY <1>1, <1>3, <2>1 DEF Maps
  <2>3. ~Crashes(x, o) /\ Announced(y, o) = TextUnits
    BY <1>3, <2>2, Zenon DEF Crashes, Announced
  <2>4. Follows(y, o) = TextUnits
    <3>1. (IF y.size > 0 /\ y.mapped > 0 THEN y.size ELSE 0) = 0
      BY <2>2
    <3>2. Follows(y, o) = TextUnits + (IF y.size > 0 /\ y.mapped > 0 THEN y.size ELSE 0)
      BY <2>2, Zenon DEF Follows
    <3>. QED  BY <1>0, <3>1, <3>2
  <2>5. IsResponse(y)
    BY <1>1, <1>2, <2>1 DEF IsResponse
  <2>. QED  BY <1>1, <2>0, <2>1, <2>3, <2>4, <2>5
<1>4. CASE Opens(x, o) /\ Site[p].minusOne
  <2>. DEFINE k == l + 2
  <2>0. p \in DOMAIN Site /\ TakenForFailure(x, o)
    BY <1>1, <1>4 DEF Opens, TakenForFailure
  <2>1. y = [x EXCEPT !.lost = k] /\ k \in Nat
    BY <1>1, <1>4, <2>0 DEF AddContent_
  <2>. HIDE DEF k, zero
  <2>2. y = Response(c, p, s, zero, k)
    BY <1>2, <2>1, Forgotten
  <2>3. /\ y.code = c /\ y.path = p /\ y.size = s /\ y.mapped = zero /\ y.lost = k
    BY <2>2, ResponseFields
  <2>. QED  BY <1>2, <1>4, <2>0, <2>1, <2>2, <2>3 DEF IsResponse
<1>5. CASE Opens(x, o) /\ ~Site[p].minusOne
  <2>0. p \in DOMAIN Site /\ ~TakenForFailure(x, o)
    BY <1>1, <1>5 DEF Opens, TakenForFailure
  <2>1. y = [x EXCEPT !.mapped = s]
    BY <1>1, <1>5, <2>0 DEF AddContent_
  <2>2. y = Response(c, p, s, s, l)
    BY <2>1, Remapped
  <2>3. /\ y.code = c /\ y.path = p /\ y.size = s /\ y.mapped = s /\ y.lost = l
    BY <2>2, ResponseFields
  <2>4. Maps(y, o)
    BY <1>1, <1>5, <2>3 DEF Maps, Opens, TakenForFailure
  <2>5. Announced(y, o) = s
    BY <2>3, <2>4 DEF Announced
  <2>6. s # 0 => Follows(y, o) = s
    <3>1. s # 0 => y.size > 0 /\ y.mapped > 0
      BY <2>3
    <3>2. Follows(y, o) = 0 + (IF y.size > 0 /\ y.mapped > 0 THEN y.size ELSE 0)
      BY <2>4, Zenon DEF Follows
    <3>. QED  BY <2>3, <3>1, <3>2
  <2>7. IsResponse(y)
    BY <2>2, <2>3 DEF IsResponse
  <2>8. s # 0 /\ o = "done" => ~Crashes(x, o)
    BY <1>1 DEF Crashes
  <2>. QED  BY <2>0, <2>3, <2>5, <2>6, <2>7, <2>8
<1>. QED  BY <1>3, <1>4, <1>5

\* The response to a path: what Process makes of the one before it.
Gives(o, r, path, code, c, n) ==
  LET x == Chosen(ResponseInit(r, path, code))
      y == AddContent_(x, o)
  IN ~Crashes(x, o) /\ y.code = c /\ Announced(y, o) = n /\ Follows(y, o) = n /\ y.lost = r.lost

LEMMA StaysResponse ==
  ASSUME NEW r, IsResponse(r), NEW path, NEW code, NEW o
  PROVE  IsResponse(AddContent_(Chosen(ResponseInit(r, path, code)), o))
<1>. DEFINE start == Response(code, path, 0, 0, r.lost)
            x == Chosen(ResponseInit(r, path, code))
            size == Known(path, 0)
<1>1. \A p, s : s \in Nat => Known(p, s) \in Nat
  BY SiteAssumption DEF Known
<1>2. size \in Nat
  BY <1>1
<1>3. r.lost \in Nat
  BY DEF IsResponse
<1>4. \E c, p, s : s \in Nat /\ x = Response(c, p, s, 0, r.lost)
  <2>. DEFINE status == Status(start)
              page == ErrorPage(status)
  <2>1. x = IF status \in {400, 403, 404} THEN Response(status, page, Known(page, size), 0, r.lost)
            ELSE Response(status, path, size, 0, r.lost)
    <3>1. x = Choice(path, code, r.lost)
      BY Chooses
    <3>. QED  BY <3>1, Zenon DEF Choice
  <2>. HIDE DEF x, status, page, size
  <2>2. Known(page, size) \in Nat
    BY <1>1, <1>2
  <2>. QED  BY <1>2, <2>1, <2>2
<1>. HIDE DEF x
<1>5. PICK c, p, s : s \in Nat /\ x = Response(c, p, s, 0, r.lost)
  BY <1>4
<1>6. IsResponse(AddContent_(x, o))
  BY <1>3, <1>5, Contained
<1>. QED  BY <1>6 DEF x

LEMMA Responds ==
  ASSUME OrdinarySite, NEW r, IsResponse(r), NEW path, NEW code, NEW o, o = "done"
  PROVE  /\ path \notin DOMAIN Site \/ Site[path].dir => Gives(o, r, path, code, 404, Page("/404.html"))
         /\ path \in DOMAIN Site /\ ~Site[path].dir /\ ~Site[path].public =>
              Gives(o, r, path, code, 403, TextUnits)
         /\ path \in DOMAIN Site /\ ~Site[path].dir /\ Site[path].public /\ code = 200
                 /\ ~Site[path].minusOne /\ Site[path].size # 0 =>
              Gives(o, r, path, code, 200, Site[path].size)
<1>. DEFINE start == Response(code, path, 0, 0, r.lost)
            x == Chosen(ResponseInit(r, path, code))
            y == AddContent_(x, o)
            size == Known(path, 0)
            status == Status(start)
            l == r.lost
<1>1. x = IF status \in {400, 403, 404}
            THEN Response(status, ErrorPage(status), Known(ErrorPage(status), size), 0, l)
          ELSE Response(status, path, size, 0, l)
  <2>1. x = Choice(path, code, l)
    BY Chooses
  <2>. QED  BY <2>1, Zenon DEF Choice
<1>2. start.path = path /\ start.code = code
  BY DEF Response
<1>3. l \in Nat
  BY DEF IsResponse
<1>4. /\ path \notin DOMAIN Site => size = 0
      /\ path \in DOMAIN Site => size = Site[path].size /\ size \in Nat
  BY SiteAssumption DEF Known
<1>. HIDE DEF size, l
<1>5. \A c, n : (/\ ~Crashes(x, o) /\ y.code = c /\ Announced(y, o) = n /\ Follows(y, o) = n /\ y.lost = l)
                  => Gives(o, r, path, code, c, n)
  BY DEF Gives, l
<1>6. ASSUME path \notin DOMAIN Site \/ Site[path].dir
      PROVE  Gives(o, r, path, code, 404, Page("/404.html"))
  <2>1. status = 404
    BY <1>2, <1>6 DEF Status
  <2>. DEFINE p == "/404.html"
              s == Site[p].size
  <2>2. p \in DOMAIN Site /\ s \in Nat /\ s # 0 /\ ~Site[p].minusOne
    <3>1. p \in {"/404.html", "/welcome.html"}
      OBVIOUS
    <3>. HIDE DEF p
    <3>2. p \in DOMAIN Site /\ ~Site[p].minusOne /\ Site[p].size > 0
      BY <3>1 DEF OrdinarySite
    <3>3. Site[p].size \in Nat
      BY <3>2, SiteAssumption
    <3>. QED  BY <3>2, <3>3
  <2>3. Known(p, size) = s /\ Page("/404.html") = s
    BY <2>2 DEF Known, Page
  <2>4. x = Response(404, p, s, 0, l)
    <3>1. ErrorPage(404) = p
      BY DEF ErrorPage
    <3>. QED  BY <1>1, <2>1, <2>3, <3>1
  <2>5. y = AddContent_(x, o)
    OBVIOUS
  <2>. HIDE DEF x, y, p, s
  <2>6. ~Crashes(x, o) /\ y.code = 404 /\ Announced(y, o) = s /\ Follows(y, o) = s /\ y.lost = l
    BY <1>3, <2>2, <2>4, <2>5, Contained
  <2>. QED  BY <1>5, <2>3, <2>6
<1>7. ASSUME path \in DOMAIN Site, ~Site[path].dir, ~Site[path].public
      PROVE  Gives(o, r, path, code, 403, TextUnits)
  <2>1. status = 403
    BY <1>2, <1>7 DEF Status
  <2>. DEFINE p == "/403.html"
  <2>2. p \notin DOMAIN Site
    BY DEF OrdinarySite
  <2>3. Known(p, size) = size
    BY <2>2 DEF Known
  <2>4. x = Response(403, p, size, 0, l)
    <3>1. ErrorPage(403) = p
      BY DEF ErrorPage
    <3>. QED  BY <1>1, <2>1, <2>3, <3>1
  <2>5. y = AddContent_(x, o)
    OBVIOUS
  <2>. HIDE DEF x, y, p
  <2>6. ~Crashes(x, o) /\ y.code = 403 /\ Announced(y, o) = TextUnits /\ Follows(y, o) = TextUnits
        /\ y.lost = l
    BY <1>3, <1>4, <1>7, <2>2, <2>4, <2>5, Contained
  <2>. QED  BY <1>5, <2>6
<1>8. ASSUME path \in DOMAIN Site, ~Site[path].dir, Site[path].public, code = 200,
             ~Site[path].minusOne, Site[path].size # 0
      PROVE  Gives(o, r, path, code, 200, Site[path].size)
  <2>1. status = 200
    BY <1>2, <1>8 DEF Status
  <2>4. x = Response(200, path, size, 0, l)
    BY <1>1, <2>1
  <2>5. y = AddContent_(x, o)
    OBVIOUS
  <2>. HIDE DEF x, y
  <2>6. ~Crashes(x, o) /\ y.code = 200 /\ Announced(y, o) = size /\ Follows(y, o) = size /\ y.lost = l
    BY <1>3, <1>4, <1>8, <2>4, <2>5, Contained
  <2>. QED  BY <1>4, <1>5, <1>8, <2>6
<1>. QED  BY <1>6, <1>7, <1>8

\* What Process makes of the buffer b after the response r: the file it chooses, the response
\* and the answer.
File(b, verified, r) ==
  LET p == Parse(Fresh, b, verified) IN
  Chosen(ResponseInit(r, p.request.path, IF p.ok THEN 200 ELSE 400))

Reply(b, verified, r, o) == AddContent_(File(b, verified, r), o)

Said(b, verified, r, o) ==
  Answer(Parse(Fresh, b, verified).request, Reply(b, verified, r, o), o)

\* The answer to a request that is alone in the buffer.
LEMMA WholeAnswered ==
  ASSUME OrdinarySite, script \in Scripts, NEW n \in 1..Len(script), Ordinary(script[n]),
         NEW b, NEW verified, WholeParsed(b, verified, script[n], n),
         NEW r, IsResponse(r), ~Odd(n), NEW o, o = "done"
  PROVE  /\ ~Crashes(File(b, verified, r), o) /\ Reply(b, verified, r, o).lost = r.lost
         /\ Said(b, verified, r, o) \in Intended(n)
<1>. DEFINE p == Parse(Fresh, b, verified)
            q == p.request
            path == q.path
            x == Chosen(ResponseInit(r, path, 200))
            y == AddContent_(x, o)
            wanted == ParsePath_(script[n].path)
<1>1. /\ p.ok = TRUE /\ q.of = n /\ IsKeepAlive(q) = script[n].keep
      /\ ~script[n].form => path = wanted
      /\ script[n].form => path \in {"/welcome.html", "/error.html"}
  BY DEF WholeParsed
<1>2. (IF p.ok THEN 200 ELSE 400) = 200
  BY <1>1
<1>. HIDE DEF p
<1>3. ASSUME NEW c, NEW k, Gives(o, r, path, 200, c, k)
      PROVE  ~Crashes(x, o) /\ y.lost = r.lost /\ Answer(q, y, o) = Answering(n, c, k)
  <2>1. ~Crashes(x, o) /\ y.lost = r.lost /\ y.code = c /\ Announced(y, o) = k /\ Follows(y, o) = k
    BY <1>3, Zenon DEF Gives
  <2>. HIDE DEF x, y, q
  <2>2. Answer(q, y, o) = Answering(n, c, k)
    BY <1>1, <2>1, Zenon DEF Answer, Answering
  <2>. QED  BY <2>1, <2>2
<1>4. \E c, k : Gives(o, r, path, 200, c, k) /\ Answering(n, c, k) \in Intended(n)
  <2>. HIDE DEF q
  <2>1. CASE script[n].form
    <3>1. Intended(n) = {Answering(n, 200, Page("/welcome.html")), Answering(n, 404, Page("/404.html"))}
      BY <2>1, Zenon DEF Intended
    <3>2. CASE path = "/welcome.html"
      <4>1. path \in {"/404.html", "/welcome.html"}
        BY <3>2
      <4>2. /\ path \in DOMAIN Site /\ ~Site[path].dir /\ Site[path].public
            /\ ~Site[path].minusOne /\ Site[path].size > 0
        BY <4>1 DEF OrdinarySite
      <4>3. Site[path].size # 0
        <5>. DEFINE k == Site[path].size
        <5>1. k > 0 /\ k \in Nat
          BY <4>2, SiteAssumption
        <5>. HIDE DEF k
        <5>2. k # 0
          BY <5>1
        <5>. QED  BY <5>2 DEF k
      <4>4. Gives(o, r, path, 200, 200, Site[path].size)
        BY <4>2, <4>3, Responds
      <4>5. Page("/welcome.html") = Site[path].size
        BY <3>2, <4>2 DEF Page
      <4>. QED  BY <3>1, <4>4, <4>5
    <3>3. CASE path = "/error.html"
      <4>1. path \notin DOMAIN Site
        BY <3>3 DEF OrdinarySite
      <4>2. Gives(o, r, path, 200, 404, Page("/404.html"))
        BY <4>1, Responds
      <4>. QED  BY <3>1, <4>2
    <3>. QED  BY <1>1, <2>1, <3>2, <3>3
  <2>2. CASE ~script[n].form
    <3>0. path = wanted
      BY <1>1, <2>2
    <3>. HIDE DEF path
    <3>1. Intended(n) =
            IF path \notin DOMAIN Site THEN {Answering(n, 404, Page("/404.html"))}
            ELSE IF ~Site[path].public THEN {Answering(n, 403, TextUnits)}
            ELSE {Answering(n, 200, Site[path].size)}
      BY <2>2, <3>0, Zenon DEF Intended
    <3>2. path \in DOMAIN Site => ~Site[path].dir
      BY <3>0 DEF Ordinary
    <3>3. path \in DOMAIN Site => ~Site[path].minusOne /\ Site[path].size # 0
      BY <3>0 DEF Odd
    <3>4. CASE path \notin DOMAIN Site
      <4>1. Gives(o, r, path, 200, 404, Page("/404.html"))
        BY <3>4, Responds
      <4>2. Answering(n, 404, Page("/404.html")) \in Intended(n)
        BY <3>1, <3>4
      <4>. QED  BY <4>1, <4>2
    <3>5. CASE path \in DOMAIN Site /\ ~Site[path].public
      <4>1. Gives(o, r, path, 200, 403, TextUnits)
        BY <3>2, <3>5, Responds
      <4>2. Answering(n, 403, TextUnits) \in Intended(n)
        BY <3>1, <3>5
      <4>. QED  BY <4>1, <4>2
    <3>6. CASE path \in DOMAIN Site /\ Site[path].public
      <4>1. Gives(o, r, path, 200, 200, Site[path].size)
        BY <3>2, <3>3, <3>6, Responds
      <4>2. Answering(n, 200, Site[path].size) \in Intended(n)
        BY <3>1, <3>6
      <4>. QED  BY <4>1, <4>2
    <3>. QED  BY <3>4, <3>5, <3>6
  <2>. QED  BY <2>1, <2>2
<1>5. ~Crashes(x, o) /\ y.lost = r.lost /\ Answer(q, y, o) \in Intended(n)
  <2>. HIDE DEF q, x, y, path
  <2>. QED  BY <1>3, <1>4
<1>6. File(b, verified, r) = x
  BY <1>2, Zenon DEF File, p
<1>. QED  BY <1>5, <1>6 DEF Reply, Said, p

\* The answer to what is no request.
LEMMA StrayAnswered ==
  ASSUME OrdinarySite, NEW b, NEW verified, Leaves(b, verified, FALSE, Fresh, b),
         NEW r, IsResponse(r), NEW o, o = "done"
  PROVE  /\ ~Crashes(File(b, verified, r), o) /\ Reply(b, verified, r, o).lost = r.lost
         /\ Said(b, verified, r, o).of = 0
         /\ ~IsKeepAlive(Parse(Fresh, b, verified).request)
         /\ Parse(Fresh, b, verified).buff = b
<1>. DEFINE p == Parse(Fresh, b, verified)
            x == Chosen(ResponseInit(r, "", 400))
            y == AddContent_(x, o)
<1>1. p.ok = FALSE /\ p.request = Fresh /\ p.buff = b
  BY DEF Leaves
<1>2. Fresh.path = "" /\ Fresh.of = 0 /\ ~IsKeepAlive(Fresh)
  BY DEF Fresh, IsKeepAlive
<1>. HIDE DEF p
<1>3. p.request.path = "" /\ (IF p.ok THEN 200 ELSE 400) = 400
  BY <1>1, <1>2
<1>4. Gives(o, r, "", 400, 404, Page("/404.html"))
  <2>1. Site[""].dir
    BY SiteAssumption
  <2>. DEFINE none == ""
  <2>2. Site[none].dir
    BY <2>1
  <2>. HIDE DEF none
  <2>3. Gives(o, r, none, 400, 404, Page("/404.html"))
    BY <2>2, Responds
  <2>. QED  BY <2>3 DEF none
<1>5. ~Crashes(x, o) /\ y.lost = r.lost
  BY <1>4, Zenon DEF Gives
<1>6. File(b, verified, r) = x
  BY <1>3, Zenon DEF File, p
<1>7. Said(b, verified, r, o).of = 0
  BY <1>1, <1>2 DEF Said, Answer, p
<1>. QED  BY <1>1, <1>2, <1>5, <1>6, <1>7 DEF Reply, p

-----------------------------------------------------------------------------
(***************************************************************************)
(* Clients that send their requests whole, one by one.                     *)
(***************************************************************************)

LEMMA NoZero ==
  ASSUME script \in Scripts, PlainBodies(script) PROVE Nul \notin ToSet(Stream)
<1>1. /\ Stream \in Seq(AllSymbols(script)) /\ Len(Stream) \in Nat
      /\ Len(script) \in Nat /\ DOMAIN script = 1..Len(script)
      /\ \A i \in 0..Len(script) : EndOf(i) \in Nat
      /\ \A i \in 1..Len(script) : Laid(i)
      /\ \A p \in 1..Len(Stream) : \E i \in 1..Len(script) : EndOf(i - 1) < p /\ p <= EndOf(i)
  BY StreamType, Layout
<1>2. ASSUME NEW p \in 1..Len(Stream) PROVE Stream[p] # Nul
  <2>1. PICK i \in 1..Len(script) : EndOf(i - 1) < p /\ p <= EndOf(i)
    BY <1>1
  <2>. DEFINE new == Symbols(script[i], i)
  <2>2. new \in Seq(AllSymbols(script)) /\ Len(new) \in Nat
    BY RequestType
  <2>3. /\ EndOf(i) = EndOf(i - 1) + Len(new)
        /\ \A j \in 1..Len(new) : Stream[EndOf(i - 1) + j] = new[j]
    BY <1>1, <2>1 DEF Laid
  <2>4. Nul \notin ToSet(new)
    BY <1>1 DEF PlainBodies
  <2>. HIDE DEF new
  <2>5. EndOf(i - 1) \in Nat /\ p \in Nat
    <3>1. i - 1 \in 0..Len(script)
      BY <1>1
    <3>. QED  BY <1>1, <3>1
  <2>6. p - EndOf(i - 1) \in 1..Len(new) /\ EndOf(i - 1) + (p - EndOf(i - 1)) = p
    BY <2>1, <2>2, <2>3, <2>5
  <2>7. Stream[p] = new[p - EndOf(i - 1)]
    BY <2>3, <2>6
  <2>8. DOMAIN new = 1..Len(new)
    BY <2>2
  <2>. QED  BY <2>4, <2>6, <2>7, <2>8 DEF ToSet
<1>3. DOMAIN Stream = 1..Len(Stream)
  BY <1>1
<1>. QED  BY <1>2, <1>3 DEF ToSet

\* Where the n-th request is, and what of the stream is where.
Along(n) ==
  /\ Len(script) \in Nat /\ DOMAIN script = 1..Len(script)
  /\ \A i \in 0..Len(script) : EndOf(i) \in Nat
  /\ \A i, j \in 0..Len(script) : i <= j => EndOf(i) <= EndOf(j)
  /\ n \in Nat /\ n <= Len(script)
  /\ n > 0 => /\ n \in 1..Len(script) /\ n - 1 \in 0..Len(script)
              /\ EndOf(n - 1) \in Nat /\ EndOf(n - 1) < EndOf(n)
  /\ consumed \in Nat /\ got \in Nat /\ arrived \in Nat
  /\ consumed <= got /\ got <= arrived /\ arrived <= Len(Stream) /\ Len(Stream) \in Nat
  /\ Readable(readBuff_) = SubSeq(Stream, consumed + 1, got)
  /\ ReadableBytes(readBuff_) = got - consumed
  /\ readBuff_.write = readBuff_.read + (got - consumed) /\ readBuff_.read \in Nat

LEMMA EndStep ==
  ASSUME script \in Scripts, NEW i \in 1..Len(script)
  PROVE  EndOf(i - 1) \in Nat /\ EndOf(i) = EndOf(i - 1) + Len(Symbols(script[i], i))
         /\ EndOf(i - 1) < EndOf(i)
<1>. DEFINE new == Symbols(script[i], i)
            c == EndOf(i - 1)
<1>1. Len(new) \in Nat /\ \E h : Shaped(new, script[i], i, h)
  BY RequestType
<1>2. Laid(i) /\ i - 1 \in 0..Len(script) /\ c \in Nat
  <2>1. /\ Len(script) \in Nat /\ Laid(i)
        /\ \A j \in 0..Len(script) : EndOf(j) \in Nat
    BY Layout
  <2>2. i - 1 \in 0..Len(script)
    BY <2>1
  <2>. QED  BY <2>1, <2>2
<1>3. EndOf(i) = c + Len(new)
  BY <1>2 DEF Laid
<1>. HIDE DEF new, c
<1>4. Len(new) >= 7
  <2>1. PICK h : h \in Nat /\ h >= 5 /\ h + 2 <= Len(new)
    BY <1>1 DEF Shaped
  <2>. QED  BY <1>1, <2>1
<1>5. c < EndOf(i)
  BY <1>1, <1>2, <1>3, <1>4
<1>. QED  BY <1>2, <1>3, <1>5 DEF new, c

LEMMA GoesAlong ==
  ASSUME Typed, Exact, Tame, NEW n \in 0..Len(script) PROVE Along(n)
<1>1. Nul \notin ToSet(Stream)
  BY NoZero DEF Typed, Tame
<1>2. /\ consumed \in Nat /\ got \in Nat /\ arrived \in Nat
      /\ consumed <= got /\ got <= arrived /\ arrived <= Len(Stream) /\ script \in Scripts
      /\ Readable(readBuff_) = SubSeq(Stream, consumed + 1, got)
      /\ Buffer(readBuff_, AllSymbols(script))
  BY <1>1 DEF Typed, Exact
<1>3. /\ Len(script) \in Nat /\ DOMAIN script = 1..Len(script)
      /\ \A i \in 0..Len(script) : EndOf(i) \in Nat
      /\ \A i, j \in 0..Len(script) : i <= j => EndOf(i) <= EndOf(j)
  BY <1>2, Layout
<1>4. n \in Nat /\ n <= Len(script)
  BY <1>3
<1>5. ASSUME n > 0
      PROVE  /\ n \in 1..Len(script) /\ n - 1 \in 0..Len(script)
             /\ EndOf(n - 1) \in Nat /\ EndOf(n - 1) < EndOf(n)
  <2>1. n \in 1..Len(script) /\ n - 1 \in 0..Len(script)
    BY <1>3, <1>5
  <2>. QED  BY <1>2, <2>1, EndStep
<1>6. /\ readBuff_.read \in Nat /\ readBuff_.write \in Nat
      /\ readBuff_.write - readBuff_.read = got - consumed /\ Len(Stream) \in Nat
  <2>1. Stream \in Seq(AllSymbols(script)) /\ got <= Len(Stream) /\ Len(Stream) \in Nat
    BY <1>2, StreamType
  <2>. DEFINE g == got
  <2>2. Readable(readBuff_) = SubSeq(Stream, consumed + 1, g)
    BY <1>2
  <2>3. g \in Nat /\ consumed <= g /\ g <= Len(Stream)
    BY <1>2, <2>1
  <2>. HIDE DEF g
  <2>4. Len(SubSeq(Stream, consumed + 1, g)) = g - consumed
    BY <1>2, <2>1, <2>3, Slice
  <2>5. Len(Readable(readBuff_)) = readBuff_.write - readBuff_.read
    BY <1>2, Content
  <2>6. readBuff_.read \in Nat /\ readBuff_.write \in Nat
    BY <1>2 DEF Buffer
  <2>. QED  BY <2>1, <2>2, <2>4, <2>5, <2>6 DEF g
<1>7. ReadableBytes(readBuff_) = got - consumed
  BY <1>6 DEF ReadableBytes
<1>8. readBuff_.write = readBuff_.read + (got - consumed)
  BY <1>2, <1>6
<1>. QED  BY <1>2, <1>3, <1>4, <1>5, <1>6, <1>7, <1>8 DEF Along

\* The request that parse() finds when it has arrived and nothing of it is taken,
LEMMA WholeText ==
  ASSUME script \in Scripts, NEW n, Along(n), n > 0, consumed = EndOf(n - 1), got = EndOf(n)
  PROVE  Readable(readBuff_) = Symbols(script[n], n)
<1>. DEFINE new == Symbols(script[n], n)
            S == AllSymbols(script)
            t == Readable(readBuff_)
            c == EndOf(n - 1)
            g == EndOf(n)
<1>1. n \in 1..Len(script) /\ c \in Nat
  BY DEF Along
<1>2. new \in Seq(S) /\ Len(new) \in Nat
  BY <1>1, RequestType
<1>3. /\ g = c + Len(new)
      /\ \A j \in 1..Len(new) : Stream[c + j] = new[j]
  <2>1. Laid(n)
    BY <1>1, Layout
  <2>. QED  BY <2>1 DEF Laid
<1>4. Stream \in Seq(S)
  BY StreamType
<1>5. t = SubSeq(Stream, c + 1, g)
  BY DEF Along
<1>6. g <= Len(Stream)
  BY DEF Along
<1>. HIDE DEF new, S, t, c, g
<1>7. c <= g /\ g \in Nat /\ g - c = Len(new)
  BY <1>1, <1>2, <1>3
<1>8. t \in Seq(S) /\ Len(t) = g - c /\ \A i \in 1..(g - c) : t[i] = Stream[c + i]
  BY <1>1, <1>4, <1>5, <1>6, <1>7, Slice
<1>9. Len(t) = Len(new) /\ \A i \in 1..Len(t) : t[i] = new[i]
  BY <1>3, <1>7, <1>8
<1>10. t = new
  BY <1>2, <1>8, <1>9, SameSeq
<1>. QED  BY <1>10 DEF t, new

\* and what it finds when the request line is taken of it: no request line.
LEMMA StrayText ==
  ASSUME script \in Scripts, NEW n, Along(n), n > 0,
         EndOf(n - 1) + 2 <= consumed, consumed < got, got = EndOf(n)
  PROVE  /\ Readable(readBuff_) # <<>>
         /\ \A k \in 1..Len(Readable(readBuff_)) : Kind(Readable(readBuff_)[k]) # "target"
<1>. DEFINE new == Symbols(script[n], n)
            S == AllSymbols(script)
            t == Readable(readBuff_)
            e == EndOf(n - 1)
            g == EndOf(n)
<1>1. n \in 1..Len(script) /\ e \in Nat /\ DOMAIN script = 1..Len(script)
  BY DEF Along
<1>2. /\ new \in Seq(S) /\ Len(new) \in Nat
      /\ \E h : Shaped(new, script[n], n, h)
  BY <1>1, RequestType
<1>3. g = e + Len(new) /\ \A j \in 1..Len(new) : Stream[e + j] = new[j]
  <2>1. Laid(n)
    BY <1>1, Layout
  <2>. QED  BY <2>1 DEF Laid
<1>4. \A j \in 1..Len(new) : Kind(new[j]) = "target" => j = 2
  BY <1>2 DEF Shaped
<1>5. Stream \in Seq(S)
  BY StreamType
<1>6. t = SubSeq(Stream, consumed + 1, g) /\ consumed \in Nat /\ g <= Len(Stream)
  BY DEF Along
<1>7. e + 2 <= consumed /\ consumed < g
  OBVIOUS
<1>. HIDE DEF new, S, t, e, g
<1>8. g \in Nat /\ consumed <= g
  BY <1>1, <1>2, <1>3, <1>6, <1>7
<1>9. Len(t) = g - consumed /\ \A i \in 1..(g - consumed) : t[i] = Stream[consumed + i]
  BY <1>5, <1>6, <1>8, Slice
<1>10. ASSUME NEW k \in 1..Len(t) PROVE Kind(t[k]) # "target"
  <2>. DEFINE j == (consumed + k) - e
  <2>1. k \in 1..(g - consumed) /\ j \in 1..Len(new) /\ j # 2 /\ e + j = consumed + k
    BY <1>1, <1>2, <1>3, <1>6, <1>7, <1>8, <1>9
  <2>. HIDE DEF j
  <2>2. t[k] = new[j]
    BY <1>3, <1>9, <2>1
  <2>. QED  BY <1>4, <2>1, <2>2
<1>11. t # <<>>
  <2>1. Len(t) # 0
    BY <1>6, <1>7, <1>8, <1>9
  <2>. QED  BY <2>1
<1>. QED  BY <1>10, <1>11 DEF t

\* Process, by what it makes of the buffer.
LEMMA Processed ==
  ASSUME NEW verified, NEW o, Process(verified, o)
  PROVE  LET b == readBuff_
             r == response_
             p == Parse(Fresh, b, verified)
         IN
         /\ keepAlive' = IsKeepAlive(p.request)
         /\ consumed' = consumed + p.buff.read - b.read
         /\ pc = "process" /\ ReadableBytes(b) > 0
         /\ UNCHANGED <<script, isET, whole, arrived, got>>
         /\ (o = "done" /\ UNCHANGED failures) \/ failures' = failures + 1
         /\ \/ /\ Crashes(File(b, verified, r), o)
               /\ pc' = "crashed" /\ UNCHANGED <<response_, answers>>
            \/ /\ ~Crashes(File(b, verified, r), o) /\ pc' = "write"
               /\ response_' = Reply(b, verified, r, o)
               /\ answers' = Append(answers, Said(b, verified, r, o))
<1>. DEFINE p == Parse(Fresh, readBuff_, verified)
            x == Chosen(ResponseInit(response_, p.request.path, IF p.ok THEN 200 ELSE 400))
<1>1. /\ pc = "process" /\ ReadableBytes(readBuff_) > 0
      /\ consumed' = consumed + p.buff.read - readBuff_.read
      /\ keepAlive' = IsKeepAlive(p.request)
      /\ UNCHANGED <<fixedVars, arrived, got>>
  BY DEF Process
<1>2. \/ /\ Crashes(x, o)
         /\ pc' = "crashed" /\ UNCHANGED <<response_, answers>>
      \/ /\ ~Crashes(x, o)
         /\ response_' = AddContent_(x, o)
         /\ answers' = Append(answers, Answer(p.request, response_', o))
         /\ pc' = "write"
  BY Zenon DEF Process
<1>3. File(readBuff_, verified, response_) = x
  BY Zenon DEF File
<1>4. Reply(readBuff_, verified, response_, o) = AddContent_(x, o)
  BY <1>3, Zenon DEF Reply
<1>5. Said(readBuff_, verified, response_, o) = Answer(p.request, AddContent_(x, o), o)
  BY <1>4, Zenon DEF Said
<1>6. (o = "done" /\ UNCHANGED failures) \/ failures' = failures + 1
  BY Zenon DEF Process
<1>. HIDE DEF x, p
<1>7. UNCHANGED <<script, isET, whole, arrived, got>>
  BY <1>1 DEF fixedVars
<1>8. \/ /\ Crashes(x, o)
         /\ pc' = "crashed" /\ UNCHANGED <<response_, answers>>
      \/ /\ ~Crashes(x, o) /\ pc' = "write"
         /\ response_' = AddContent_(x, o)
         /\ answers' = Append(answers, Answer(p.request, AddContent_(x, o), o))
  BY <1>2
<1>. QED  BY <1>1, <1>3, <1>4, <1>5, <1>6, <1>7, <1>8 DEF p

\* A level-triggered connection reads a request that fits at once.
LEMMA ReadsWhole ==
  ASSUME Typed, ReadSome, NEW n, Along(n), n > 0, Fits(script),
         got = EndOf(n - 1), arrived = EndOf(n)
  PROVE  got' = arrived
<1>. DEFINE most == got + ReadMax(readBuff_)
            room == PostWritableBytes(readBuff_)
            k == Len(Symbols(script[n], n))
<1>1. got' = Min({arrived, most})
  BY DEF ReadSome
<1>2. arrived = got + k /\ arrived \in Nat /\ got \in Nat /\ k \in Nat
  <2>1. n \in 1..Len(script) /\ got \in Nat /\ arrived \in Nat
    BY DEF Along
  <2>2. k \in Nat
    BY <2>1, RequestType DEF Typed
  <2>3. EndOf(n) = EndOf(n - 1) + k
    BY <2>1, EndStep DEF Typed
  <2>. HIDE DEF k
  <2>. QED  BY <2>1, <2>2, <2>3
<1>3. k <= Overflow
  BY DEF Along, Fits
<1>4. room \in Nat /\ most = got + (room + Overflow) /\ Overflow \in Nat
  BY BufferAssumption DEF Typed, Buffer, PostWritableBytes, ReadMax
<1>. HIDE DEF most, room, k
<1>5. most \in Nat /\ arrived <= most
  BY <1>2, <1>3, <1>4
<1>6. Min({arrived, most}) \in {arrived, most} /\ \A m \in {arrived, most} : Min({arrived, most}) <= m
  <2>1. {arrived, most} \in SUBSET Nat /\ {arrived, most} # {}
    BY <1>2, <1>5
  <2>. QED  BY <2>1, FirstOf
<1>7. Min({arrived, most}) = arrived
  BY <1>2, <1>5, <1>6
<1>. QED  BY <1>1, <1>7

\* Each of the first n requests has the answer it should have, or asked for an odd file.
Served(i) == Odd(i) \/ \E k \in DOMAIN answers : answers[k] \in Intended(i)
AllServed(n) == \A i \in 1..n : Served(i)

\* The first n requests have arrived.  All are answered and none is under way;
Idle(n) ==
  /\ pc \in {"listen", "closed"} /\ got = arrived
  /\ pc = "listen" => consumed = got
  /\ AllServed(n)

\* or the last of them is still to be read,
Coming(n) ==
  /\ n > 0 /\ pc \in {"listen", "read"} /\ consumed = EndOf(n - 1)
  /\ got \in consumed..arrived /\ (pc = "listen" \/ ~isET => got = consumed)
  /\ AllServed(n - 1)

\* or it is read,
There(n) ==
  /\ n > 0 /\ pc = "process" /\ got = arrived /\ consumed = EndOf(n - 1)
  /\ AllServed(n - 1)

\* or it is answered: what is left of it is the body of a form.
Over(n) ==
  /\ n > 0 /\ pc \in {"process", "write"} /\ got = arrived
  /\ \/ pc = "write" /\ ~keepAlive
     \/ /\ EndOf(n - 1) + 2 <= consumed
        /\ consumed < got => answers # <<>> /\ answers[Len(answers)].of = n /\ script[n].form
  /\ AllServed(n)

WholeAt(n) ==
  /\ arrived = EndOf(n)
  /\ response_.lost > 0 \/ pc = "crashed" => \E i \in 1..n : Odd(i)
  /\ pc = "crashed" \/ Idle(n) \/ Coming(n) \/ There(n) \/ Over(n)

Whole ==
  /\ IsResponse(response_) /\ failures \in Nat
  /\ whole /\ failures = 0 /\ Tame => StrayAfterForm /\ \E n \in 0..Len(script) : WholeAt(n)

LEMMA SameRequests ==
  ASSUME script' = script
  PROVE  /\ \A i : EndOf(i)' = EndOf(i)
         /\ \A i : Odd(i)' = Odd(i)
         /\ \A i : Intended(i)' = Intended(i)
         /\ Ends' = Ends
<1>1. \A i : EndOf(i)' = EndOf(i)
  BY DEF EndOf
<1>2. \A i : Odd(i)' = Odd(i)
  BY DEF Odd
<1>3. \A i : Intended(i)' = Intended(i)
  BY DEF Intended, Answering
<1>4. Ends' = Ends
  BY DEF Ends, EndOf
<1>. QED  BY <1>1, <1>2, <1>3, <1>4

\* A step that says nothing changes nothing of what has been said.
LEMMA Unsaid ==
  ASSUME UNCHANGED <<script, answers>>
  PROVE  /\ \A n : EndOf(n)' = EndOf(n)
         /\ \A i : Odd(i)' = Odd(i)
         /\ \A n : AllServed(n)' = AllServed(n)
         /\ StrayAfterForm' = StrayAfterForm
<1>1. /\ \A i : EndOf(i)' = EndOf(i)
      /\ \A i : Odd(i)' = Odd(i)
      /\ \A i : Intended(i)' = Intended(i)
  BY SameRequests
<1>2. \A n : AllServed(n)' = AllServed(n)
  BY <1>1 DEF AllServed, Served
<1>3. StrayAfterForm' = StrayAfterForm
  BY DEF StrayAfterForm
<1>. QED  BY <1>1, <1>2, <1>3

\* One more answer.
LEMMA SaysMore ==
  ASSUME Typed, script' = script, NEW a, answers' = Append(answers, a)
  PROVE  /\ \A i : Served(i) => Served(i)'
         /\ \A i : a \in Intended(i) => Served(i)'
         /\ answers' # <<>> /\ answers'[Len(answers')] = a
         /\ \/ StrayAfterForm /\ a.of # 0
            \/ /\ StrayAfterForm /\ answers # <<>>
               /\ answers[Len(answers)].of # 0 /\ script[answers[Len(answers)].of].form
            => StrayAfterForm'
<1>. DEFINE n == Len(answers)
<1>1. /\ n \in Nat /\ Len(answers') = n + 1
      /\ DOMAIN answers = 1..n /\ DOMAIN answers' = 1..(n + 1)
      /\ answers'[n + 1] = a
      /\ \A k \in 1..n : answers'[k] = answers[k]
  BY Answered
<1>2. answers # <<>> => n > 0
  <2>1. PICK T : answers \in Seq(T)
    BY DEF Typed
  <2>. QED  BY <2>1
<1>3. answers' # <<>>
  <2>1. Len(answers') # 0
    BY <1>1
  <2>2. Len(<<>>) = 0
    OBVIOUS
  <2>. QED  BY <2>1, <2>2
<1>. DEFINE last == answers[Len(answers)]
<1>4. last = answers[n]
  OBVIOUS
<1>. HIDE DEF n, last
<1>5. \A i : Odd(i)' = Odd(i) /\ Intended(i)' = Intended(i)
  BY SameRequests
<1>6. /\ n + 1 \in 1..(n + 1) /\ \A k \in 1..n : k \in 1..(n + 1)
      /\ \A k \in 1..(n + 1) : k \in 1..n \/ k = n + 1
  BY <1>1
<1>7. ASSUME NEW i, Served(i) PROVE Served(i)'
  <2>1. CASE Odd(i)
    BY <1>5, <2>1 DEF Served
  <2>2. CASE \E k \in DOMAIN answers : answers[k] \in Intended(i)
    <3>1. PICK k \in 1..n : answers[k] \in Intended(i)
      BY <1>1, <2>2
    <3>2. k \in DOMAIN answers' /\ answers'[k] \in Intended(i)'
      BY <1>1, <1>5, <1>6, <3>1
    <3>. QED  BY <3>2 DEF Served
  <2>. QED  BY <1>7, <2>1, <2>2 DEF Served
<1>8. ASSUME NEW i, a \in Intended(i) PROVE Served(i)'
  <2>1. n + 1 \in DOMAIN answers' /\ answers'[n + 1] \in Intended(i)'
    BY <1>1, <1>5, <1>6, <1>8
  <2>. QED  BY <2>1 DEF Served
<1>9. ASSUME StrayAfterForm,
             \/ a.of # 0
             \/ answers # <<>> /\ last.of # 0 /\ script[last.of].form
      PROVE  StrayAfterForm'
  <2>1. ASSUME NEW k \in 1..(n + 1), answers'[k].of = 0
        PROVE  k > 1 /\ answers'[k - 1].of # 0 /\ script[answers'[k - 1].of].form
    <3>1. CASE k \in 1..n
      <4>1. k > 1 /\ answers[k - 1].of # 0 /\ script[answers[k - 1].of].form
        BY <1>1, <1>9, <2>1, <3>1 DEF StrayAfterForm
      <4>2. k - 1 \in 1..n
        BY <1>1, <3>1, <4>1
      <4>. QED  BY <1>1, <4>1, <4>2
    <3>2. CASE k = n + 1
      <4>1. answers # <<>> /\ last.of # 0 /\ script[last.of].form
        BY <1>1, <1>9, <2>1, <3>2
      <4>2. n > 0 /\ n \in 1..n /\ k - 1 = n /\ k > 1
        BY <1>1, <1>2, <3>2, <4>1
      <4>. QED  BY <1>1, <1>4, <4>1, <4>2
    <3>. QED  BY <1>6, <3>1, <3>2
  <2>. QED  BY <1>1, <2>1 DEF StrayAfterForm
<1>10. answers'[Len(answers')] = a
  BY <1>1
<1>. QED  BY <1>3, <1>7, <1>8, <1>9, <1>10 DEF last

\* A client sends the next request when it has the answer to the last.
LEMMA DeliverWhole ==
  ASSUME Typed, Exact, Tame, whole, NEW n \in 0..Len(script), WholeAt(n),
         NEW m, Deliver(m)
  PROVE  \E k \in 0..Len(script) : WholeAt(k)'
<1>. DEFINE j == n + 1
<1>1. Along(n)
  BY GoesAlong
<1>2. /\ pc = "listen" /\ arrived = got /\ arrived < m /\ m \in Ends /\ arrived' = m
      /\ \A e \in Ends : e <= arrived \/ m <= e
      /\ UNCHANGED <<script, isET, consumed, got, response_, answers, pc>>
  BY DEF Deliver, fixedVars
<1>3. Idle(n) /\ arrived = EndOf(n)
  <2>1. Idle(n) \/ Coming(n)
    BY <1>2 DEF WholeAt, There, Over
  <2>2. ASSUME Coming(n) PROVE FALSE
    <3>1. n > 0 /\ got = EndOf(n - 1) /\ arrived = EndOf(n)
      BY <1>2, <2>2 DEF Coming, WholeAt
    <3>2. got = arrived
      BY <1>2
    <3>3. EndOf(n - 1) \in Nat /\ EndOf(n - 1) < EndOf(n)
      BY <1>1, <3>1 DEF Along
    <3>. QED  BY <3>1, <3>2, <3>3
  <2>. QED  BY <2>1, <2>2 DEF WholeAt
<1>4. /\ Len(script) \in Nat /\ n \in Nat /\ n <= Len(script) /\ arrived \in Nat
      /\ \A i \in 0..Len(script) : EndOf(i) \in Nat
      /\ \A i, k \in 0..Len(script) : i <= k => EndOf(i) <= EndOf(k)
  BY <1>1 DEF Along
<1>5. j \in 1..Len(script) /\ m = EndOf(j)
  <2>1. PICK k \in 0..Len(script) : m = EndOf(k)
    BY <1>2 DEF Ends
  <2>2. ~(k <= n)
    <3>1. k <= n => EndOf(k) <= EndOf(n)
      BY <1>4, <2>1
    <3>2. EndOf(k) \in Nat
      BY <1>4
    <3>. QED  BY <1>2, <1>3, <1>4, <2>1, <3>1, <3>2
  <2>3. j \in 1..Len(script) /\ j \in 0..Len(script) /\ j - 1 = n /\ j <= k
    BY <1>4, <2>2
  <2>4. EndOf(n) < EndOf(j) /\ EndOf(j) \in Nat /\ EndOf(n) \in Nat
    <3>1. EndOf(j - 1) < EndOf(j)
      BY <2>3, EndStep DEF Typed
    <3>. QED  BY <1>4, <2>3, <3>1
  <2>5. m <= EndOf(j)
    <3>1. EndOf(j) \in Ends
      BY <2>3 DEF Ends
    <3>2. ~(EndOf(j) <= arrived)
      BY <1>3, <2>4
    <3>. QED  BY <1>2, <3>1, <3>2
  <2>6. EndOf(j) <= m
    BY <1>4, <2>1, <2>3
  <2>. QED  BY <1>4, <2>1, <2>3, <2>4, <2>5, <2>6
<1>6. /\ \A k : EndOf(k)' = EndOf(k)
      /\ \A i : Odd(i)' = Odd(i)
      /\ \A k : AllServed(k)' = AllServed(k)
  BY <1>2, Unsaid
<1>7. j > 0 /\ j - 1 = n /\ j \in 0..Len(script) /\ 1..n \subseteq 1..j
  BY <1>4, <1>5
<1>. HIDE DEF j
<1>8. Coming(j)'
  <2>1. consumed = EndOf(n) /\ got = consumed /\ AllServed(n) /\ got \in Nat /\ got <= m
    BY <1>2, <1>3, <1>4, <1>5 DEF Idle
  <2>2. (EndOf(j - 1))' = EndOf(n) /\ AllServed(j - 1)' = AllServed(n)
    BY <1>6, <1>7
  <2>3. got \in consumed..m
    <3>1. m \in Nat
      BY <1>4, <1>5, <1>7
    <3>. QED  BY <2>1, <3>1
  <2>. QED  BY <1>2, <1>7, <2>1, <2>2, <2>3 DEF Coming
<1>9. (response_.lost > 0 \/ pc = "crashed")' => \E i \in 1..j : Odd(i)'
  <2>1. response_'.lost > 0 \/ pc' = "crashed" => \E i \in 1..n : Odd(i)
    BY <1>2 DEF WholeAt
  <2>. QED  BY <1>6, <1>7, <2>1
<1>10. WholeAt(j)'
  <2>1. arrived' = EndOf(j)'
    BY <1>2, <1>5, <1>6
  <2>. QED  BY <1>8, <1>9, <2>1 DEF WholeAt
<1>. QED  BY <1>7, <1>10

\* The next client begins where the last one ended.
LEMMA ClientWhole ==
  ASSUME Typed, Exact, Tame, NEW n \in 0..Len(script), WholeAt(n), NextClient
  PROVE  WholeAt(n)'
<1>1. Along(n)
  BY GoesAlong
<1>2. PICK e \in Ends : /\ arrived <= e /\ \A f \in Ends : f < arrived \/ e <= f
                        /\ arrived' = e /\ got' = e /\ consumed' = e
  BY DEF NextClient
<1>3. pc = "closed" /\ pc' = "listen" /\ UNCHANGED <<script, isET, response_, answers>>
  BY DEF NextClient, fixedVars
<1>4. Idle(n) /\ arrived = EndOf(n)
  BY <1>3 DEF WholeAt, Coming, There, Over
<1>5. arrived \in Nat /\ arrived \in Ends /\ e \in Nat
  <2>1. arrived \in Nat /\ Len(script) \in Nat /\ \A i \in 0..Len(script) : EndOf(i) \in Nat
    BY <1>1 DEF Along
  <2>. QED  BY <1>2, <1>4, <2>1 DEF Ends
<1>6. e = arrived
  BY <1>2, <1>5
<1>7. /\ \A k : EndOf(k)' = EndOf(k)
      /\ \A i : Odd(i)' = Odd(i)
      /\ \A k : AllServed(k)' = AllServed(k)
  BY <1>3, Unsaid
<1>8. Idle(n)'
  BY <1>2, <1>3, <1>4, <1>7 DEF Idle
<1>. QED  BY <1>2, <1>3, <1>4, <1>6, <1>7, <1>8 DEF WholeAt

\* What a step keeps that says nothing, crashes nothing and leaves the stream alone.
LEMMA Quietly ==
  ASSUME UNCHANGED <<script, isET, arrived, response_, answers>>, pc' # "crashed",
         NEW n, WholeAt(n)
  PROVE  /\ EndOf(n)' = EndOf(n) /\ EndOf(n - 1)' = EndOf(n - 1)
         /\ AllServed(n)' = AllServed(n) /\ AllServed(n - 1)' = AllServed(n - 1)
         /\ Idle(n)' \/ Coming(n)' \/ There(n)' \/ Over(n)' => WholeAt(n)'
<1>1. /\ \A k : EndOf(k)' = EndOf(k)
      /\ \A i : Odd(i)' = Odd(i)
      /\ \A k : AllServed(k)' = AllServed(k)
  BY Unsaid
<1>2. arrived' = EndOf(n)'
  BY <1>1 DEF WholeAt
<1>3. (response_.lost > 0 \/ pc = "crashed")' => \E i \in 1..n : Odd(i)'
  BY <1>1 DEF WholeAt
<1>. QED  BY <1>1, <1>2, <1>3 DEF WholeAt

LEMMA OnReadWhole ==
  ASSUME Typed, Exact, Tame, NEW n \in 0..Len(script), WholeAt(n), OnRead_
  PROVE  WholeAt(n)'
<1>1. pc = "listen" /\ pc' = "read" /\ got < arrived
      /\ UNCHANGED <<script, isET, arrived, got, consumed, response_, answers>>
  BY DEF OnRead_, fixedVars
<1>2. got \in Nat /\ arrived \in Nat
  BY DEF Typed
<1>3. Coming(n)
  <2>1. ~Idle(n)
    BY <1>1, <1>2 DEF Idle
  <2>. QED  BY <1>1, <2>1 DEF WholeAt, There, Over
<1>4. Coming(n)'
  <2>1. EndOf(n - 1)' = EndOf(n - 1) /\ AllServed(n - 1)' = AllServed(n - 1)
    BY <1>1, Quietly
  <2>. QED  BY <1>1, <1>3, <2>1 DEF Coming
<1>. QED  BY <1>1, <1>4, Quietly

LEMMA ReadWhole ==
  ASSUME Typed, Exact, Tame, NEW n \in 0..Len(script), WholeAt(n), ReadSome
  PROVE  WholeAt(n)'
<1>1. /\ pc = "read" /\ got < arrived /\ pc' = IF isET THEN "read" ELSE "process"
      /\ UNCHANGED <<script, isET, arrived, consumed, response_, answers>>
  BY DEF ReadSome, fixedVars
<1>2. Coming(n) /\ arrived = EndOf(n)
  BY <1>1 DEF WholeAt, Idle, There, Over
<1>3. pc' # "crashed"
  BY <1>1
<1>4. EndOf(n - 1)' = EndOf(n - 1) /\ AllServed(n - 1)' = AllServed(n - 1)
  BY <1>1, <1>3, Quietly
<1>5. Along(n) /\ got' \in got..arrived
  BY GoesAlong, ReadsSome
<1>6. consumed \in Nat /\ got \in Nat /\ arrived \in Nat /\ consumed <= got
  BY <1>5 DEF Along
<1>7. CASE isET
  <2>1. got' \in consumed..arrived
    BY <1>5, <1>6
  <2>2. pc' = "read"
    BY <1>1, <1>7
  <2>3. Coming(n)'
    BY <1>1, <1>2, <1>4, <1>7, <2>1, <2>2 DEF Coming
  <2>. QED  BY <1>1, <1>3, <2>3, Quietly
<1>8. CASE ~isET
  <2>1. got = EndOf(n - 1) /\ Fits(script) /\ n > 0
    BY <1>2, <1>8 DEF Coming, Tame
  <2>2. got' = arrived
    BY <1>2, <1>5, <2>1, ReadsWhole
  <2>3. There(n)'
    BY <1>1, <1>2, <1>4, <1>8, <2>2 DEF Coming, There
  <2>. QED  BY <1>1, <1>3, <2>3, Quietly
<1>. QED  BY <1>7, <1>8

LEMMA ReadEndsWhole ==
  ASSUME Typed, Exact, Tame, NEW n \in 0..Len(script), WholeAt(n), ReadEnds
  PROVE  WholeAt(n)'
<1>1. /\ pc = "read" /\ got = arrived /\ pc' = "process"
      /\ UNCHANGED <<script, isET, arrived, got, consumed, response_, answers>>
  BY DEF ReadEnds, fixedVars
<1>2. Coming(n)
  BY <1>1 DEF WholeAt, Idle, There, Over
<1>3. EndOf(n - 1)' = EndOf(n - 1) /\ AllServed(n - 1)' = AllServed(n - 1)
  BY <1>1, Quietly
<1>4. There(n)'
  BY <1>1, <1>2, <1>3 DEF Coming, There
<1>. QED  BY <1>1, <1>4, Quietly

LEMMA NothingWhole ==
  ASSUME Typed, Exact, Tame, NEW n \in 0..Len(script), WholeAt(n), ProcessNothing
  PROVE  WholeAt(n)'
<1>1. /\ pc = "process" /\ pc' = "listen" /\ ReadableBytes(readBuff_) = 0
      /\ UNCHANGED <<script, isET, arrived, got, consumed, response_, answers>>
  BY DEF ProcessNothing, fixedVars
<1>2. Along(n)
  BY GoesAlong
<1>3. consumed = got
  BY <1>1, <1>2 DEF Along
<1>4. ~There(n)
  <2>1. ASSUME There(n) PROVE FALSE
    <3>1. n > 0 /\ got = EndOf(n) /\ consumed = EndOf(n - 1)
      BY <2>1 DEF There, WholeAt
    <3>2. EndOf(n - 1) \in Nat /\ EndOf(n - 1) < EndOf(n)
      BY <1>2, <3>1 DEF Along
    <3>. QED  BY <1>3, <3>1, <3>2
  <2>. QED  BY <2>1
<1>5. Over(n)
  BY <1>1, <1>4 DEF WholeAt, Idle, Coming
<1>6. AllServed(n)' = AllServed(n)
  BY <1>1, Quietly
<1>7. Idle(n)'
  BY <1>1, <1>3, <1>5, <1>6 DEF Over, Idle
<1>. QED  BY <1>1, <1>7, Quietly

LEMMA WriteWhole ==
  ASSUME Typed, Exact, Tame, IsResponse(response_), NEW n \in 0..Len(script), WholeAt(n), OnWrite_
  PROVE  IsResponse(response_)' /\ WholeAt(n)'
<1>. DEFINE r == response_
            zero == 0
            u == [r EXCEPT !.mapped = zero]
<1>1. /\ pc = "write" /\ pc' = IF keepAlive THEN "process" ELSE "closed"
      /\ response_' = IF keepAlive THEN r ELSE u
      /\ UNCHANGED <<script, isET, arrived, got, consumed, keepAlive, answers>>
  BY DEF OnWrite_, fixedVars
<1>2. IsResponse(u) /\ u.lost = r.lost
  <2>1. /\ r = Response(r.code, r.path, r.size, r.mapped, r.lost)
        /\ r.size \in Nat /\ r.lost \in Nat
    BY DEF IsResponse
  <2>2. zero \in Nat
    OBVIOUS
  <2>3. u = [r EXCEPT !.mapped = zero]
    OBVIOUS
  <2>. HIDE DEF r, zero, u
  <2>4. u = Response(r.code, r.path, r.size, zero, r.lost)
    BY <2>1, <2>3, Remapped
  <2>5. u.code = r.code /\ u.path = r.path /\ u.size = r.size /\ u.mapped = zero /\ u.lost = r.lost
    BY <2>4, ResponseFields
  <2>. QED  BY <2>1, <2>2, <2>4, <2>5 DEF IsResponse
<1>. HIDE DEF u
<1>3. IsResponse(response_)' /\ response_'.lost = response_.lost
  BY <1>1, <1>2
<1>4. Over(n)
  BY <1>1 DEF WholeAt, Idle, Coming, There
<1>5. /\ \A k : EndOf(k)' = EndOf(k)
      /\ \A i : Odd(i)' = Odd(i)
      /\ \A k : AllServed(k)' = AllServed(k)
  BY <1>1, Unsaid
<1>6. CASE keepAlive
  <2>1. pc' = "process"
    BY <1>1, <1>6
  <2>2. Over(n)'
    BY <1>1, <1>4, <1>5, <1>6, <2>1 DEF Over
  <2>. QED  BY <1>1, <1>3, <1>5, <2>1, <2>2 DEF WholeAt
<1>7. CASE ~keepAlive
  <2>1. pc' = "closed"
    BY <1>1, <1>7
  <2>2. Idle(n)'
    BY <1>1, <1>4, <1>5, <2>1 DEF Over, Idle
  <2>. QED  BY <1>1, <1>3, <1>5, <2>1, <2>2 DEF WholeAt
<1>. QED  BY <1>3, <1>6, <1>7

\* The first turn of process() on a request: it is answered, and at most the body of a form
\* is left.
LEMMA ThereWhole ==
  ASSUME OrdinarySite, Typed, Exact, Tame, IsResponse(response_), StrayAfterForm,
         NEW n \in 0..Len(script), WholeAt(n), There(n), NEW verified, NEW o, o = "done", Process(verified, o)
  PROVE  WholeAt(n)' /\ StrayAfterForm'
<1>. DEFINE b == readBuff_
            r == response_
            p == Parse(Fresh, b, verified)
            q == script[n]
            a == Said(b, verified, r, o)
<1>1. Along(n) /\ script \in Scripts /\ Buffer(b, AllSymbols(script))
  BY GoesAlong DEF Typed
<1>2. n > 0 /\ got = arrived /\ consumed = EndOf(n - 1) /\ got = EndOf(n) /\ AllServed(n - 1)
  BY DEF There, WholeAt
<1>3. n \in 1..Len(script) /\ DOMAIN script = 1..Len(script) /\ n \in Nat
  BY <1>1, <1>2 DEF Along
<1>4. Ordinary(q)
  BY <1>3 DEF Tame
<1>5. WholeParsed(b, verified, q, n)
  <2>1. Readable(b) = Symbols(q, n)
    BY <1>1, <1>2, WholeText
  <2>2. q.body \in Seq(AllSymbols(script))
    BY <1>1, <1>3, RequestType
  <2>3. Alphabet(q, n) \subseteq AllSymbols(script)
    BY <1>3 DEF AllSymbols
  <2>4. {q.keep, q.form} \subseteq BOOLEAN
    BY <1>1, <1>3, ScriptsAssumption
  <2>. HIDE DEF q, b
  <2>. QED  BY <1>1, <1>4, <2>1, <2>2, <2>3, <2>4, WholeRead
<1>6. /\ consumed' = consumed + p.buff.read - b.read
      /\ UNCHANGED <<script, isET, whole, arrived, got>>
      /\ \/ /\ Crashes(File(b, verified, r), o)
            /\ pc' = "crashed" /\ UNCHANGED <<response_, answers>>
         \/ /\ ~Crashes(File(b, verified, r), o) /\ pc' = "write"
            /\ response_' = Reply(b, verified, r, o)
            /\ answers' = Append(answers, a)
  BY Processed
<1>7. ~Odd(n) => /\ ~Crashes(File(b, verified, r), o) /\ Reply(b, verified, r, o).lost = r.lost
                 /\ a \in Intended(n)
  BY <1>1, <1>3, <1>4, <1>5, WholeAnswered
<1>8. /\ \A i : EndOf(i)' = EndOf(i)
      /\ \A i : Odd(i)' = Odd(i)
  BY <1>6, SameRequests
<1>9. /\ p.buff.read >= b.read + 2 /\ p.request.of = n
      /\ ~q.form => p.buff.read = b.write
  BY <1>5 DEF WholeParsed
<1>10. a.of = n
  BY <1>9 DEF Said, Answer
<1>. HIDE DEF p, a, q
<1>11. n \in 1..n
  BY <1>2, <1>3
<1>12. r.lost > 0 => \E i \in 1..n : Odd(i)
  BY DEF WholeAt
<1>13. arrived' = EndOf(n)'
  BY <1>6, <1>8 DEF WholeAt
<1>14. CASE Crashes(File(b, verified, r), o) /\ pc' = "crashed" /\ UNCHANGED <<response_, answers>>
  <2>1. \E i \in 1..n : Odd(i)'
    BY <1>7, <1>8, <1>11, <1>14
  <2>2. StrayAfterForm'
    BY <1>6, <1>14, Unsaid
  <2>. QED  BY <1>13, <1>14, <2>1, <2>2 DEF WholeAt
<1>15. CASE /\ pc' = "write" /\ response_' = Reply(b, verified, r, o)
            /\ answers' = Append(answers, a)
  <2>1. /\ \A i : Served(i) => Served(i)'
        /\ \A i : a \in Intended(i) => Served(i)'
        /\ answers' # <<>> /\ answers'[Len(answers')] = a
        /\ StrayAfterForm /\ a.of # 0 => StrayAfterForm'
    BY <1>6, <1>15, SaysMore
  <2>2. StrayAfterForm'
    BY <1>2, <1>10, <2>1
  <2>3. Served(n)'
    <3>1. CASE Odd(n)
      BY <1>8, <3>1 DEF Served
    <3>2. CASE ~Odd(n)
      BY <1>7, <2>1, <3>2
    <3>. QED  BY <3>1, <3>2
  <2>4. AllServed(n)'
    <3>1. ASSUME NEW i \in 1..n PROVE Served(i)'
      <4>1. CASE i = n
        BY <2>3, <4>1
      <4>2. CASE i # n
        <5>1. i \in 1..(n - 1)
          BY <1>3, <4>2
        <5>. QED  BY <1>2, <2>1, <5>1 DEF AllServed
      <4>. QED  BY <4>1, <4>2
    <3>. QED  BY <3>1 DEF AllServed
  <2>5. EndOf(n - 1)' + 2 <= consumed' /\ (consumed' < got' => q.form)
    <3>1. /\ b.write = b.read + (got - consumed) /\ b.read \in Nat
          /\ consumed \in Nat /\ got \in Nat /\ consumed <= got
      BY <1>1 DEF Along
    <3>2. Parsed(p, b)
      BY <1>1, ParseParsed DEF p
    <3>3. p.buff.read \in b.read..b.write
      BY <3>2 DEF Parsed
    <3>. DEFINE k == p.buff.read
                w == b.write
                d == b.read
    <3>4. /\ w = d + (got - consumed) /\ d \in Nat /\ k \in d..w /\ k >= d + 2
          /\ consumed' = consumed + k - d /\ (~q.form => k = w)
      BY <1>6, <1>9, <3>1, <3>3
    <3>. HIDE DEF k, w, d
    <3>5. consumed + 2 <= consumed' /\ (~q.form => consumed' = got)
      BY <3>1, <3>4
    <3>6. consumed' < got => consumed' # got
      BY <3>1
    <3>. QED  BY <1>2, <1>6, <1>8, <3>5, <3>6
  <2>6. Over(n)'
    <3>1. answers'[Len(answers')].of = n /\ script'[n].form = q.form
      BY <1>6, <1>10, <2>1 DEF q
    <3>. QED  BY <1>2, <1>6, <1>15, <2>1, <2>4, <2>5, <3>1 DEF Over
  <2>7. (response_.lost > 0 \/ pc = "crashed")' => \E i \in 1..n : Odd(i)'
    <3>1. CASE Odd(n)
      BY <1>8, <1>11, <3>1
    <3>2. CASE ~Odd(n)
      <4>1. response_'.lost = r.lost /\ pc' # "crashed"
        BY <1>7, <1>15, <3>2
      <4>. QED  BY <1>8, <1>12, <4>1
    <3>. QED  BY <3>1, <3>2
  <2>. QED  BY <1>13, <2>2, <2>6, <2>7 DEF WholeAt
<1>. QED  BY <1>6, <1>14, <1>15

\* The turn on what is left of a form: it is refused.
LEMMA OverWhole ==
  ASSUME OrdinarySite, Typed, Exact, Tame, IsResponse(response_), StrayAfterForm,
         NEW n \in 0..Len(script), WholeAt(n), Over(n), NEW verified, NEW o, o = "done", Process(verified, o)
  PROVE  WholeAt(n)' /\ StrayAfterForm'
<1>. DEFINE b == readBuff_
            r == response_
            a == Said(b, verified, r, o)
<1>1. Along(n) /\ script \in Scripts /\ Buffer(b, AllSymbols(script))
  BY GoesAlong DEF Typed
<1>2. /\ keepAlive' = IsKeepAlive(Parse(Fresh, b, verified).request)
      /\ pc = "process" /\ ReadableBytes(b) > 0
      /\ UNCHANGED <<script, isET, whole, arrived, got>>
      /\ \/ /\ Crashes(File(b, verified, r), o)
            /\ pc' = "crashed" /\ UNCHANGED <<response_, answers>>
         \/ /\ ~Crashes(File(b, verified, r), o) /\ pc' = "write"
            /\ response_' = Reply(b, verified, r, o)
            /\ answers' = Append(answers, a)
  BY Processed
<1>3. consumed < got
  BY <1>1, <1>2 DEF Along
<1>4. /\ n > 0 /\ got = arrived /\ got = EndOf(n) /\ EndOf(n - 1) + 2 <= consumed /\ AllServed(n)
      /\ answers # <<>> /\ answers[Len(answers)].of = n /\ script[n].form
  BY <1>2, <1>3 DEF Over, WholeAt
<1>5. /\ Readable(b) # <<>>
      /\ \A k \in 1..Len(Readable(b)) : Kind(Readable(b)[k]) # "target"
  BY <1>1, <1>3, <1>4, StrayText
<1>6. Leaves(b, verified, FALSE, Fresh, b)
  BY <1>1, <1>5, Refused
<1>7. /\ ~Crashes(File(b, verified, r), o) /\ Reply(b, verified, r, o).lost = r.lost
      /\ ~IsKeepAlive(Parse(Fresh, b, verified).request)
  <2>1. IsResponse(r) /\ o = "done"
    OBVIOUS
  <2>. HIDE DEF b, r
  <2>2. /\ ~Crashes(File(b, verified, r), o) /\ Reply(b, verified, r, o).lost = r.lost
        /\ Said(b, verified, r, o).of = 0
        /\ ~IsKeepAlive(Parse(Fresh, b, verified).request)
        /\ Parse(Fresh, b, verified).buff = b
    BY <1>6, <2>1, StrayAnswered
  <2>. QED  BY <2>2
<1>8. /\ pc' = "write" /\ response_'.lost = r.lost /\ answers' = Append(answers, a) /\ ~keepAlive'
  BY <1>2, <1>7
<1>. HIDE DEF a
<1>9. /\ \A i : EndOf(i)' = EndOf(i)
      /\ \A i : Odd(i)' = Odd(i)
  BY <1>2, SameRequests
<1>10. /\ \A i : Served(i) => Served(i)'
       /\ \/ StrayAfterForm /\ a.of # 0
          \/ /\ StrayAfterForm /\ answers # <<>>
             /\ answers[Len(answers)].of # 0 /\ script[answers[Len(answers)].of].form
          => StrayAfterForm'
  BY <1>2, <1>8, SaysMore
<1>11. StrayAfterForm'
  <2>1. answers[Len(answers)].of # 0 /\ script[answers[Len(answers)].of].form
    BY <1>1, <1>4 DEF Along
  <2>. QED  BY <1>4, <1>10, <2>1
<1>12. AllServed(n)'
  BY <1>4, <1>10 DEF AllServed
<1>13. Over(n)'
  BY <1>2, <1>4, <1>8, <1>12 DEF Over
<1>14. (response_.lost > 0 \/ pc = "crashed")' => \E i \in 1..n : Odd(i)'
  BY <1>8, <1>9 DEF WholeAt
<1>15. arrived' = EndOf(n)'
  BY <1>2, <1>9 DEF WholeAt
<1>. QED  BY <1>11, <1>13, <1>14, <1>15 DEF WholeAt

LEMMA InitWhole == ASSUME Init PROVE Whole
<1>1. /\ script \in Scripts /\ arrived = 0 /\ got = 0 /\ consumed = 0
      /\ response_ = NewResponse /\ answers = <<>> /\ failures = 0 /\ pc = "listen"
  BY DEF Init
<1>2. IsResponse(response_) /\ response_.lost = 0
  <2>. DEFINE zero == 0
              none == ""
              fine == 200
  <2>1. response_ = Response(fine, none, zero, zero, zero)
    BY <1>1 DEF NewResponse, Response
  <2>2. zero \in Nat
    OBVIOUS
  <2>. HIDE DEF fine, none, zero
  <2>3. /\ response_.code = fine /\ response_.path = none /\ response_.size = zero
        /\ response_.mapped = zero /\ response_.lost = zero
    BY <2>1, ResponseFields
  <2>4. IsResponse(response_)
    BY <2>1, <2>2, <2>3 DEF IsResponse
  <2>. QED  BY <2>3, <2>4 DEF zero
<1>3. StrayAfterForm
  BY <1>1 DEF StrayAfterForm
<1>4. Len(script) \in Nat /\ EndOf(0) = 0
  BY <1>1, Layout
<1>5. Idle(0)
  BY <1>1 DEF Idle, AllServed
<1>6. WholeAt(0)
  BY <1>1, <1>2, <1>4, <1>5 DEF WholeAt
<1>7. 0 \in 0..Len(script)
  BY <1>4
<1>8. failures \in Nat
  BY <1>1
<1>. QED  BY <1>2, <1>3, <1>6, <1>7, <1>8 DEF Whole

\* A file that cannot be opened or mapped is counted.
LEMMA Fails ==
  ASSUME Whole, [Next]_vars
  PROVE  /\ failures' \in Nat /\ (failures' = 0 => failures = 0)
         /\ \A verified, o : Process(verified, o) /\ failures' = 0 => o = "done"
<1>1. failures \in Nat
  BY DEF Whole
<1>2. ASSUME NEW verified, NEW o, Process(verified, o)
      PROVE  (o = "done" /\ UNCHANGED failures) \/ failures' = failures + 1
  BY <1>2, Processed
<1>3. UNCHANGED failures \/ failures' = failures + 1
  <2>1. CASE \E verified \in BOOLEAN, o \in Outcomes : Process(verified, o)
    BY <1>2, <2>1
  <2>2. CASE UNCHANGED failures
    BY <2>2
  <2>. QED  BY <2>1, <2>2
            DEF Next, vars, Deliver, NextClient, OnRead_, ReadSome, ReadEnds, ProcessNothing,
                OnWrite_
<1>4. failures + 1 # 0 /\ failures + 1 \in Nat
  BY <1>1
<1>. QED  BY <1>1, <1>2, <1>3, <1>4

LEMMA StaysWhole ==
  ASSUME OrdinarySite, Typed, Exact, Whole, [Next]_vars PROVE Whole'
<1>1. script' = script /\ isET' = isET /\ whole' = whole
  BY NextFixes DEF fixedVars
<1>2. IsResponse(response_)'
  <2>1. CASE OnWrite_
    <3>. DEFINE r == response_
                zero == 0
                u == [r EXCEPT !.mapped = zero]
    <3>1. response_' = r \/ response_' = u
      BY <2>1 DEF OnWrite_
    <3>2. /\ r = Response(r.code, r.path, r.size, r.mapped, r.lost)
          /\ r.size \in Nat /\ r.lost \in Nat /\ zero \in Nat
      BY DEF Whole, IsResponse
    <3>3. u = [r EXCEPT !.mapped = zero]
      OBVIOUS
    <3>. HIDE DEF r, zero, u
    <3>4. u = Response(r.code, r.path, r.size, zero, r.lost)
      BY <3>2, <3>3, Remapped
    <3>5. /\ u.code = r.code /\ u.path = r.path /\ u.size = r.size /\ u.mapped = zero
          /\ u.lost = r.lost
      BY <3>4, ResponseFields
    <3>6. IsResponse(u)
      BY <3>2, <3>4, <3>5 DEF IsResponse
    <3>. QED  BY <3>1, <3>6 DEF Whole, r
  <2>2. CASE \E verified \in BOOLEAN, o \in Outcomes : Process(verified, o)
    <3>1. PICK verified \in BOOLEAN, o \in Outcomes : Process(verified, o)
      BY <2>2
    <3>2. IsResponse(Reply(readBuff_, verified, response_, o))
      BY StaysResponse DEF Whole, Reply, File
    <3>3. response_' = response_ \/ response_' = Reply(readBuff_, verified, response_, o)
      BY <3>1, Processed
    <3>. QED  BY <3>2, <3>3 DEF Whole
  <2>3. CASE UNCHANGED response_
    BY <2>3 DEF Whole
  <2>. QED  BY <2>1, <2>2, <2>3
            DEF Next, vars, Deliver, NextClient, OnRead_, ReadSome, ReadEnds, ProcessNothing
<1>3. ASSUME whole, failures' = 0, Tame, NEW n \in 0..Len(script), WholeAt(n), StrayAfterForm
      PROVE  StrayAfterForm' /\ \E k \in 0..Len(script) : WholeAt(k)'
  <2>0. IsResponse(response_)
    BY DEF Whole
  <2>1. CASE UNCHANGED vars
    <3>1. UNCHANGED <<script, isET, arrived, got, consumed, keepAlive, response_, answers, pc>>
      BY <2>1 DEF vars, fixedVars
    <3>2. /\ \A k : EndOf(k)' = EndOf(k)
          /\ \A i : Odd(i)' = Odd(i)
          /\ \A k : AllServed(k)' = AllServed(k)
          /\ StrayAfterForm'
      BY <1>3, <3>1, Unsaid
    <3>3. /\ Idle(n)' = Idle(n) /\ Coming(n)' = Coming(n) /\ There(n)' = There(n)
          /\ Over(n)' = Over(n)
      BY <3>1, <3>2 DEF Idle, Coming, There, Over
    <3>4. WholeAt(n)'
      BY <1>3, <3>1, <3>2, <3>3 DEF WholeAt
    <3>. QED  BY <3>2, <3>4
  <2>2. CASE \E m \in 1..Len(Stream) : Deliver(m)
    <3>1. UNCHANGED answers
      BY <2>2 DEF Deliver
    <3>2. StrayAfterForm'
      BY <1>1, <1>3, <3>1, Unsaid
    <3>. QED  BY <1>3, <2>2, <3>2, DeliverWhole
  <2>3. CASE NextClient \/ OnRead_ \/ ReadSome \/ ReadEnds \/ ProcessNothing \/ OnWrite_
    <3>1. UNCHANGED answers
      BY <2>3 DEF NextClient, OnRead_, ReadSome, ReadEnds, ProcessNothing, OnWrite_
    <3>2. StrayAfterForm'
      BY <1>1, <1>3, <3>1, Unsaid
    <3>3. WholeAt(n)'
      BY <1>3, <2>0, <2>3, ClientWhole, OnReadWhole, ReadWhole, ReadEndsWhole, NothingWhole,
         WriteWhole
    <3>. QED  BY <3>2, <3>3
  <2>4. CASE \E verified \in BOOLEAN, o \in Outcomes : Process(verified, o)
    <3>1. PICK verified \in BOOLEAN, o \in Outcomes : Process(verified, o)
      BY <2>4
    <3>2. o = "done"
      BY <1>3, <3>1, Fails
    <3>3. There(n) \/ Over(n)
      <4>1. pc = "process"
        BY <3>1 DEF Process
      <4>. QED  BY <1>3, <4>1 DEF WholeAt, Idle, Coming
    <3>4. WholeAt(n)' /\ StrayAfterForm'
      BY <1>3, <2>0, <3>1, <3>2, <3>3, ThereWhole, OverWhole
    <3>. QED  BY <3>4
  <2>. QED  BY <2>1, <2>2, <2>3, <2>4 DEF Next
<1>4. whole' /\ Tame' => whole /\ Tame
  BY <1>1 DEF Tame, PlainBodies, Fits
<1>5. failures' \in Nat /\ (failures' = 0 => failures = 0)
  BY Fails
<1>6. ASSUME whole', failures' = 0, Tame'
      PROVE  StrayAfterForm' /\ \E k \in 0..Len(script)' : WholeAt(k)'
  <2>1. PICK n \in 0..Len(script) : whole /\ Tame /\ WholeAt(n) /\ StrayAfterForm
    BY <1>4, <1>5, <1>6 DEF Whole
  <2>2. StrayAfterForm' /\ \E k \in 0..Len(script) : WholeAt(k)'
    BY <1>3, <1>6, <2>1
  <2>. QED  BY <1>1, <2>2
<1>. QED  BY <1>2, <1>5, <1>6 DEF Whole

LEMMA WholeServes ==
  ASSUME Typed, Exact, Ordered, Counted, Whole, Tame PROVE WholeServed
<1>1. EnoughAnswers
  BY CountedEnough
<1>2. ASSUME whole, failures = 0 PROVE EachAnswered /\ StrayAfterForm /\ NothingLost
  <2>1. PICK n \in 0..Len(script) : WholeAt(n) /\ StrayAfterForm
    BY <1>2 DEF Whole
  <2>2. Along(n)
    BY <2>1, GoesAlong
  <2>3. /\ Len(script) \in Nat /\ DOMAIN script = 1..Len(script) /\ n \in Nat
        /\ \A i \in 0..Len(script) : EndOf(i) \in Nat
        /\ \A i, j \in 0..Len(script) : i <= j => EndOf(i) <= EndOf(j)
    BY <2>2 DEF Along
  <2>4. arrived = EndOf(n)
    BY <2>1 DEF WholeAt
  <2>5. ASSUME NEW i \in DOMAIN script, Sent(i), pc \in {"listen", "closed"}, got = arrived, ~Odd(i)
        PROVE  \E k \in DOMAIN answers :
                 /\ answers[k] \in Intended(i)
                 /\ \A j \in DOMAIN answers : answers[j].of = i => j = k
    <3>1. Idle(n)
      <4>1. Idle(n) \/ Coming(n)
        BY <2>1, <2>5 DEF WholeAt, There, Over
      <4>2. ASSUME Coming(n) PROVE FALSE
        <5>1. n > 0 /\ pc = "listen" /\ got = EndOf(n - 1)
          BY <2>5, <4>2 DEF Coming
        <5>2. EndOf(n - 1) \in Nat /\ EndOf(n - 1) < EndOf(n)
          BY <2>2, <5>1 DEF Along
        <5>. QED  BY <2>4, <2>5, <5>1, <5>2
      <4>. QED  BY <4>1, <4>2
    <3>2. i \in 1..n
      <4>1. i \in 1..Len(script) /\ EndOf(i) <= EndOf(n)
        BY <2>3, <2>4, <2>5 DEF Sent
      <4>2. EndOf(i - 1) < EndOf(i) /\ EndOf(i - 1) \in Nat
        BY <4>1, EndStep DEF Typed
      <4>3. ~(n <= i - 1)
        <5>1. ASSUME n <= i - 1 PROVE FALSE
          <6>1. i - 1 \in 0..Len(script) /\ i \in 0..Len(script)
            BY <2>3, <4>1
          <6>2. EndOf(n) <= EndOf(i - 1) /\ EndOf(n) \in Nat /\ EndOf(i) \in Nat
            BY <2>3, <5>1, <6>1
          <6>. QED  BY <4>1, <4>2, <6>2
        <5>. QED  BY <5>1
      <4>. QED  BY <2>3, <4>1, <4>3
    <3>3. PICK k \in DOMAIN answers : answers[k] \in Intended(i)
      BY <2>5, <3>1, <3>2 DEF Idle, AllServed, Served
    <3>4. answers[k].of = i
      <4>1. \E c, l : answers[k] = Answering(i, c, l)
        BY <3>3, Zenon DEF Intended
      <4>. QED  BY <4>1 DEF Answering
    <3>5. ASSUME NEW j \in DOMAIN answers, answers[j].of = i PROVE j = k
      <4>1. j \in Nat /\ k \in Nat
        <5>1. PICK T : answers \in Seq(T)
          BY DEF Typed
        <5>. QED  BY <5>1
      <4>2. i \in Nat /\ i # 0
        BY <2>3, <3>2
      <4>3. ~(j < k) /\ ~(k < j)
        BY <3>4, <3>5, <4>2 DEF Ordered, InOrder
      <4>. QED  BY <4>1, <4>3
    <3>. QED  BY <3>3, <3>5
  <2>6. EachAnswered
    BY <2>5 DEF EachAnswered
  <2>7. NothingLost
    <3>1. ASSUME response_.lost > 0 \/ pc = "crashed" PROVE \E i \in DOMAIN script : Sent(i) /\ Odd(i)
      <4>1. PICK i \in 1..n : Odd(i)
        BY <2>1, <3>1 DEF WholeAt
      <4>2. i \in DOMAIN script /\ EndOf(i) <= EndOf(n)
        BY <2>3
      <4>. QED  BY <2>4, <4>1, <4>2 DEF Sent
    <3>. QED  BY <3>1 DEF NothingLost
  <2>. QED  BY <2>1, <2>6, <2>7
<1>. QED  BY <1>1, <1>2 DEF WholeServed

\* WholeServed, on every site with the pages that the code names and for all clients that are
\* Tame: with whole requests sent one by one, and as long as open() and mmap() do not fail for
\* a file that is there, each gets the one answer it should, no file or
\* mapping is lost that should not have been asked for, and nobody is left waiting.
THEOREM WholeServedCorrect == OrdinarySite => (Spec => [](Tame => WholeServed))
<1>. SUFFICES ASSUME OrdinarySite PROVE Spec => [](Tame => WholeServed)
  OBVIOUS
<1>. DEFINE Counts == Nul \notin ToSet(Stream) => Counted
            Fine == Tame => WholeServed
<1>1. Init => Typed /\ Exact /\ Ordered /\ Counts /\ Whole
  BY InitTyped, InitExact, InitOrdered, InitCounted, InitWhole
<1>2. Typed /\ Exact /\ Ordered /\ Counts /\ Whole /\ [Next]_vars
        => Typed' /\ Exact' /\ Ordered' /\ Counts' /\ Whole'
  <2>1. [Next]_vars => Stream' = Stream
    BY NextFixes, StreamFixed
  <2>. QED  BY <2>1, Typing, Exactly, Ordering, Counting, StaysWhole
<1>3. Typed /\ Exact /\ Ordered /\ Counts /\ Whole => Fine
  <2>1. Typed /\ Tame => Nul \notin ToSet(Stream)
    BY NoZero DEF Typed, Tame
  <2>. QED  BY <2>1, WholeServes
<1>4. Spec => []Fine
  <2>. HIDE DEF Counts, Fine
  <2>. QED  BY <1>1, <1>2, <1>3, PTL DEF Spec
<1>. QED  BY <1>4 DEF Fine
=============================================================================
