-------------------------- MODULE MinHeapTimer_proofs --------------------------
(***************************************************************************)
(* Proofs about MinHeapTimer for any set of descriptors, any timeout and   *)
(* any course of the clock.                                                *)
(***************************************************************************)
EXTENDS MinHeapTimer, NaturalsInduction, WellFoundedInduction, SequenceTheorems, TLAPS

Indices(t) == 0..(Size(t) - 1)
Id(t, i)   == Item(t, i).item_id
Ts(t, i)   == Item(t, i).ts_remaining

Entry == [item_id : Fds, ts_remaining : Int]

\* A timer whose map is the inverse of its heap.
Exact(t) ==
  /\ t = [heap |-> t.heap, refs |-> t.refs, sane |-> t.sane]
  /\ t.heap \in Seq(Entry) /\ t.refs \in [DOMAIN t.refs -> Nat]
  /\ \A i \in Indices(t) : Id(t, i) \in DOMAIN t.refs /\ t.refs[Id(t, i)] = i
  /\ \A fd \in DOMAIN t.refs : t.refs[fd] \in Indices(t) /\ Id(t, t.refs[fd]) = fd

\* When each descriptor is due.
Due(t) == [fd \in DOMAIN t.refs |-> Ts(t, t.refs[fd])]

\* u has the entries of t at other positions, from end on at the same.
Reordered(t, u, end) ==
  /\ Exact(u) /\ Size(u) = Size(t) /\ Due(u) = Due(t)
  /\ \A i \in Indices(t) : i >= end => Item(u, i) = Item(t, i)

LEMMA Parents ==
  ASSUME NEW i \in Nat \ {0}
  PROVE  /\ Parent(i) \in Nat /\ Parent(i) < i
         /\ i = 2 * Parent(i) + 1 \/ i = 2 * Parent(i) + 2
  BY DEF Parent

LEMMA Items ==
  ASSUME NEW t, Exact(t)
  PROVE  /\ Size(t) \in Nat
         /\ \A i \in Indices(t) : /\ Item(t, i) \in Entry /\ Id(t, i) \in Fds /\ Ts(t, i) \in Int
                                  /\ Item(t, i) = [item_id |-> Id(t, i), ts_remaining |-> Ts(t, i)]
<1>1. Size(t) \in Nat
  BY DEF Exact, Size
<1>2. ASSUME NEW i \in Indices(t) PROVE Item(t, i) \in Entry
  BY <1>1, <1>2 DEF Exact, Indices, Item, Size
<1>. QED  BY <1>1, <1>2 DEF Entry, Id, Ts

-----------------------------------------------------------------------------
(***************************************************************************)
(* Induction, without an operator as a parameter: over a set of numbers.   *)
(***************************************************************************)
LEMMA Minimum ==
  ASSUME NEW T \in SUBSET Nat, T # {}
  PROVE  \E m \in T : \A n \in T : m <= n
<1>1. IsWellFoundedOn(OpToRel(<, Nat), Nat)
  BY NatLessThanWellFounded
<1>2. PICK m \in T : \A n \in T : ~ (<<n, m>> \in OpToRel(<, Nat))
  BY <1>1, WFMin
<1>3. \A n \in T : ~(n < m)
  BY <1>2 DEF OpToRel
<1>. QED  BY <1>3

LEMMA Induction ==
  ASSUME NEW I, 0 \in I, \A n \in Nat : n \in I => n + 1 \in I
  PROVE  \A n \in Nat : n \in I
<1>1. ASSUME Nat \ I # {} PROVE FALSE
  <2>1. PICK m \in Nat \ I : \A n \in Nat \ I : m <= n
    BY <1>1, Minimum
  <2>2. m # 0 /\ m - 1 \in Nat /\ m - 1 < m
    BY <2>1
  <2>3. m - 1 \in I
    BY <2>1, <2>2
  <2>4. m = (m - 1) + 1
    BY <2>1
  <2>. QED  BY <2>1, <2>2, <2>3, <2>4
<1>. QED  BY <1>1

-----------------------------------------------------------------------------
(***************************************************************************)
(* SwapItem_.                                                              *)
(***************************************************************************)
LEMMA Swapped ==
  ASSUME NEW t, Exact(t), NEW i \in Indices(t), NEW j \in Indices(t), i # j
  PROVE  LET u == SwapItem_(t, i, j) IN
         /\ Size(u) = Size(t) /\ Item(u, i) = Item(t, j) /\ Item(u, j) = Item(t, i)
         /\ \A k \in Indices(t) : k # i /\ k # j => Item(u, k) = Item(t, k)
         /\ Exact(u) /\ Due(u) = Due(t)
<1>. DEFINE u == SwapItem_(t, i, j)
            a == Id(t, i)
            b == Id(t, j)
<1>1. /\ u = [heap |-> u.heap, refs |-> u.refs, sane |-> u.sane] /\ u.sane = t.sane
      /\ u.heap = [t.heap EXCEPT ![i + 1] = Item(t, j), ![j + 1] = Item(t, i)]
      /\ u.refs = [t.refs EXCEPT ![b] = i, ![a] = j]
  <2>. DEFINE M == Moved(t, i, j)
              R == [t.refs EXCEPT ![b] = i, ![a] = j]
  <2>1. u = [t EXCEPT !.heap = M, !.refs = R]
    BY Zenon DEF SwapItem_, Id
  <2>2. t = [heap |-> t.heap, refs |-> t.refs, sane |-> t.sane]
    BY DEF Exact
  <2>. HIDE DEF M, R, u
  <2>3. u = [heap |-> M, refs |-> R, sane |-> t.sane]
    BY <2>1, <2>2
  <2>4. u.heap = M /\ u.refs = R /\ u.sane = t.sane
    BY <2>3
  <2>. QED  BY <2>3, <2>4 DEF M, R, Moved
<1>2. /\ Size(t) \in Nat /\ i + 1 \in 1..Len(t.heap) /\ j + 1 \in 1..Len(t.heap)
      /\ Item(t, i) \in Entry /\ Item(t, j) \in Entry
  BY Items DEF Indices, Size
<1>3. a \in DOMAIN t.refs /\ b \in DOMAIN t.refs /\ a # b /\ t.refs[a] = i /\ t.refs[b] = j
  BY DEF Exact
<1>. HIDE DEF u, a, b
<1>4. u.heap \in Seq(Entry) /\ Size(u) = Size(t) /\ Indices(u) = Indices(t)
  <2>1. t.heap \in Seq(Entry)
    BY DEF Exact
  <2>. QED  BY <1>1, <1>2, <2>1 DEF Size, Indices
<1>5. Item(u, i) = Item(t, j) /\ Item(u, j) = Item(t, i)
  <2>1. t.heap \in Seq(Entry) /\ i + 1 # j + 1
    BY DEF Exact, Indices
  <2>. QED  BY <1>1, <1>2, <2>1 DEF Item
<1>6. ASSUME NEW k \in Indices(t), k # i, k # j PROVE Item(u, k) = Item(t, k)
  <2>1. t.heap \in Seq(Entry) /\ k + 1 # i + 1 /\ k + 1 # j + 1 /\ k + 1 \in 1..Len(t.heap)
    BY <1>2, <1>6 DEF Exact, Indices, Size
  <2>. QED  BY <1>1, <1>2, <2>1 DEF Item
<1>7. /\ DOMAIN u.refs = DOMAIN t.refs /\ u.refs \in [DOMAIN t.refs -> Nat]
      /\ u.refs[a] = j /\ u.refs[b] = i
      /\ \A fd \in DOMAIN t.refs : fd # a /\ fd # b => u.refs[fd] = t.refs[fd]
  <2>1. t.refs \in [DOMAIN t.refs -> Nat] /\ i \in Nat /\ j \in Nat
    BY DEF Exact, Indices
  <2>. QED  BY <1>1, <1>3, <2>1
<1>8. ASSUME NEW k \in Indices(t) PROVE Id(u, k) \in DOMAIN u.refs /\ u.refs[Id(u, k)] = k
  <2>1. CASE k = i
    BY <1>5, <1>7, <1>3, <2>1 DEF Id, a, b
  <2>2. CASE k = j
    BY <1>5, <1>7, <1>3, <2>2 DEF Id, a, b
  <2>3. CASE k # i /\ k # j
    <3>1. Id(u, k) = Id(t, k) /\ Id(t, k) \in DOMAIN t.refs /\ t.refs[Id(t, k)] = k
      BY <1>6, <2>3 DEF Id, Exact
    <3>. QED  BY <1>3, <1>7, <2>3, <3>1
  <2>. QED  BY <2>1, <2>2, <2>3
<1>9. ASSUME NEW fd \in DOMAIN t.refs
      PROVE  /\ u.refs[fd] \in Indices(t) /\ Item(u, u.refs[fd]) = Item(t, t.refs[fd])
             /\ Id(u, u.refs[fd]) = fd
  <2>1. t.refs[fd] \in Indices(t) /\ Id(t, t.refs[fd]) = fd
    BY DEF Exact
  <2>2. CASE fd = a
    BY <1>3, <1>5, <1>7, <2>1, <2>2 DEF Id
  <2>3. CASE fd = b
    BY <1>3, <1>5, <1>7, <2>1, <2>3 DEF Id
  <2>4. CASE fd # a /\ fd # b
    <3>1. t.refs[fd] # i /\ t.refs[fd] # j
      BY <2>1, <2>4 DEF a, b
    <3>. QED  BY <1>6, <1>7, <2>1, <2>4, <3>1 DEF Id
  <2>. QED  BY <2>2, <2>3, <2>4
<1>10. Exact(u)
  BY <1>1, <1>4, <1>7, <1>8, <1>9 DEF Exact
<1>11. Due(u) = Due(t)
  BY <1>7, <1>9 DEF Due, Ts
<1>. QED  BY <1>1, <1>4, <1>5, <1>6, <1>7, <1>10, <1>11 DEF u

-----------------------------------------------------------------------------
(***************************************************************************)
(* The order of the first end entries, but for the one at p.               *)
(***************************************************************************)
\* Nothing is out of order except, perhaps, the entry at p.
Hole(t, p, end) ==
  /\ \A k \in 1..(end - 1) : k # p /\ Parent(k) # p => Ts(t, Parent(k)) <= Ts(t, k)
  /\ \A k \in 1..(end - 1) : Parent(k) = p /\ p > 0 => Ts(t, Parent(p)) <= Ts(t, k)

\* It is not too low, not too high.
Lower(t, p, end) == Hole(t, p, end) /\ (p > 0 => Ts(t, Parent(p)) <= Ts(t, p))
Upper(t, p, end) ==
  Hole(t, p, end) /\ \A k \in 1..(end - 1) : Parent(k) = p => Ts(t, p) <= Ts(t, k)

Ordered(t, end) == \A k \in 1..(end - 1) : Ts(t, Parent(k)) <= Ts(t, k)

LEMMA HoleFilled ==
  ASSUME NEW t, NEW p \in Nat, NEW end \in Nat, Lower(t, p, end), Upper(t, p, end)
  PROVE  Ordered(t, end)
<1>1. ASSUME NEW k \in 1..(end - 1) PROVE Ts(t, Parent(k)) <= Ts(t, k)
  BY <1>1 DEF Lower, Upper, Hole
<1>. QED  BY <1>1 DEF Ordered

LEMMA OrderedHole ==
  ASSUME NEW t, Exact(t), NEW end \in 0..Size(t), Ordered(t, end), NEW p \in Nat
  PROVE  Hole(t, p, end)
<1>1. ASSUME NEW k \in 1..(end - 1), Parent(k) = p, p > 0 PROVE Ts(t, Parent(p)) <= Ts(t, k)
  <2>1. /\ k \in Nat \ {0} /\ p < k /\ p \in 1..(end - 1) /\ Parent(p) \in Nat /\ Parent(p) < p
        /\ Size(t) \in Nat
    BY <1>1, Parents, Items
  <2>2. k \in Indices(t) /\ p \in Indices(t) /\ Parent(p) \in Indices(t)
    BY <1>1, <2>1 DEF Indices
  <2>3. Ts(t, Parent(p)) <= Ts(t, p) /\ Ts(t, p) <= Ts(t, k)
    BY <1>1, <2>1 DEF Ordered
  <2>4. Ts(t, Parent(p)) \in Int /\ Ts(t, p) \in Int /\ Ts(t, k) \in Int
    BY <2>2, Items
  <2>. QED  BY <2>3, <2>4
<1>. QED  BY <1>1 DEF Hole, Ordered

-----------------------------------------------------------------------------
(***************************************************************************)
(* SiftDown_.                                                              *)
(***************************************************************************)
LEMMA Children ==
  ASSUME NEW p \in Nat, NEW k \in Nat \ {0}
  PROVE  Parent(k) = p <=> k = 2 * p + 1 \/ k = 2 * p + 2
  BY DEF Parent

LEMMA LeastChild ==
  ASSUME NEW t, Exact(t), NEW end \in 0..Size(t), NEW p \in 0..(end - 1)
  PROVE  LET c == Child(t, p, end) IN
         /\ c \in Nat /\ c > p /\ Parent(c) = p
         /\ c < end => \A k \in 1..(end - 1) : Parent(k) = p => Ts(t, c) <= Ts(t, k)
         /\ c >= end => \A k \in 1..(end - 1) : Parent(k) # p
<1>. DEFINE c == Child(t, p, end)
            d == 2 * p + 1
<1>1. Size(t) \in Nat /\ \A k \in 0..(end - 1) : Ts(t, k) \in Int
  BY Items DEF Indices
<1>2. /\ d \in Nat \ {0} /\ d + 1 \in Nat /\ d > p /\ p \in Nat /\ end \in Nat
      /\ c = IF d + 1 < end /\ Ts(t, d + 1) < Ts(t, d) THEN d + 1 ELSE d
  BY <1>1 DEF Child, Less, Ts
<1>3. \A k \in 1..(end - 1) : Parent(k) = p => k = d \/ k = d + 1
  <2>1. \A k \in 1..(end - 1) : k \in Nat \ {0}
    BY <1>2
  <2>. QED  BY <1>2, <2>1, Children
<1>4. c \in Nat /\ c > p /\ Parent(c) = p
  BY <1>2, Children
<1>. HIDE DEF c, d
<1>5. ASSUME c < end, NEW k \in 1..(end - 1), Parent(k) = p PROVE Ts(t, c) <= Ts(t, k)
  <2>1. k = d \/ k = d + 1
    BY <1>3, <1>5
  <2>2. d + 1 < end => Ts(t, d + 1) \in Int
    BY <1>1, <1>2
  <2>3. d < end => Ts(t, d) \in Int
    BY <1>1, <1>2
  <2>4. k < end
    BY <1>2
  <2>. QED  BY <1>2, <1>5, <2>1, <2>2, <2>3, <2>4
<1>6. ASSUME c >= end, NEW k \in 1..(end - 1), Parent(k) = p PROVE FALSE
  <2>1. k = d \/ k = d + 1
    BY <1>3, <1>6
  <2>. QED  BY <1>2, <1>6, <2>1
<1>. QED  BY <1>4, <1>5, <1>6 DEF c

\* One turn: the loop stops, or the least child has come up.
LEMMA SinkTurn ==
  ASSUME NEW t, Exact(t), NEW end \in 0..Size(t), NEW p \in 0..(end - 1)
  PROVE  LET y == Sink([timer |-> t, at |-> p], end) IN
         \/ /\ y = [timer |-> t, at |-> p]
            /\ Hole(t, p, end) => Upper(t, p, end)
         \/ /\ y = [timer |-> y.timer, at |-> y.at] /\ y.at \in (p + 1)..(end - 1)
            /\ Reordered(t, y.timer, end)
            /\ Hole(t, p, end) => Lower(y.timer, y.at, end)
<1>. DEFINE c == Child(t, p, end)
            u == SwapItem_(t, p, c)
<1>1. /\ c \in Nat /\ c > p /\ Parent(c) = p
      /\ c < end => \A k \in 1..(end - 1) : Parent(k) = p => Ts(t, c) <= Ts(t, k)
      /\ c >= end => \A k \in 1..(end - 1) : Parent(k) # p
  BY LeastChild
<1>2. /\ Size(t) \in Nat /\ end \in Nat /\ p \in Nat /\ p \in Indices(t)
      /\ \A k \in 0..(end - 1) : k \in Indices(t) /\ Ts(t, k) \in Int
      /\ \A k \in 1..(end - 1) : Parent(k) \in 0..(end - 1) /\ Parent(k) < k
  <2>1. Size(t) \in Nat
    BY Items
  <2>2. \A k \in 0..(end - 1) : k \in Indices(t)
    BY <2>1 DEF Indices
  <2>3. \A k \in 0..(end - 1) : Ts(t, k) \in Int
    BY <2>2, Items
  <2>4. ASSUME NEW k \in 1..(end - 1) PROVE Parent(k) \in 0..(end - 1) /\ Parent(k) < k
    <3>1. k \in Nat \ {0}
      BY <2>1
    <3>. QED  BY <2>1, <3>1, Parents
  <2>. QED  BY <2>1, <2>2, <2>3, <2>4
<1>3. Sink([timer |-> t, at |-> p], end)
        = IF c >= end \/ Ts(t, p) < Ts(t, c) THEN [timer |-> t, at |-> p]
          ELSE [timer |-> u, at |-> c]
  BY DEF Sink, Less, Ts
<1>. HIDE DEF c, u
<1>4. CASE c >= end \/ Ts(t, p) < Ts(t, c)
  <2>1. ASSUME Hole(t, p, end), NEW k \in 1..(end - 1), Parent(k) = p
        PROVE  Ts(t, p) <= Ts(t, k)
    <3>1. c < end /\ Ts(t, c) <= Ts(t, k) /\ Ts(t, p) < Ts(t, c)
      BY <1>1, <1>2, <1>4, <2>1
    <3>2. Ts(t, c) \in Int /\ Ts(t, k) \in Int /\ Ts(t, p) \in Int
      BY <1>1, <1>2, <3>1
    <3>. QED  BY <3>1, <3>2
  <2>. QED  BY <1>3, <1>4, <2>1 DEF Upper
<1>5. CASE ~(c >= end \/ Ts(t, p) < Ts(t, c))
  <2>1. c \in (p + 1)..(end - 1) /\ c \in Indices(t) /\ c # p /\ Ts(t, c) <= Ts(t, p)
    BY <1>1, <1>2, <1>5
  <2>2. /\ Size(u) = Size(t) /\ Item(u, p) = Item(t, c) /\ Item(u, c) = Item(t, p)
        /\ \A k \in Indices(t) : k # p /\ k # c => Item(u, k) = Item(t, k)
        /\ Exact(u) /\ Due(u) = Due(t)
    BY <1>2, <2>1, Swapped DEF u
  <2>3. Reordered(t, u, end)
    <3>1. \A k \in Indices(t) : k >= end => k # p /\ k # c
      BY <1>2, <2>1 DEF Indices
    <3>. QED  BY <2>2, <3>1 DEF Reordered
  <2>4. \A k \in 0..(end - 1) :
          Ts(u, k) = IF k = p THEN Ts(t, c) ELSE IF k = c THEN Ts(t, p) ELSE Ts(t, k)
    BY <1>2, <2>2 DEF Ts
  <2>5. ASSUME Hole(t, p, end) PROVE Lower(u, c, end)
    <3>1. p > 0 => Ts(t, Parent(p)) <= Ts(t, c) /\ Parent(p) \in 0..(end - 1) /\ Parent(p) < p
      BY <1>1, <1>2, <2>1, <2>5 DEF Hole
    <3>2. ASSUME NEW k \in 1..(end - 1), k # c, Parent(k) # c
          PROVE  Ts(u, Parent(k)) <= Ts(u, k)
      <4>1. Parent(k) \in 0..(end - 1) /\ Parent(k) < k /\ k \in 0..(end - 1)
        BY <1>2
      <4>2. CASE k = p
        BY <1>2, <2>1, <2>4, <3>1, <3>2, <4>1, <4>2
      <4>3. CASE Parent(k) = p
        BY <1>1, <1>2, <2>1, <2>4, <3>2, <4>1, <4>3
      <4>4. CASE k # p /\ Parent(k) # p
        BY <2>4, <2>5, <3>2, <4>1, <4>4 DEF Hole
      <4>. QED  BY <4>2, <4>3, <4>4
    <3>3. ASSUME NEW k \in 1..(end - 1), Parent(k) = c PROVE Ts(u, Parent(c)) <= Ts(u, k)
      <4>1. c < k /\ k # p /\ k # c /\ k \in 0..(end - 1)
        BY <1>1, <1>2, <2>1, <3>3
      <4>2. Ts(t, c) <= Ts(t, k)
        BY <2>1, <2>5, <3>3, <4>1 DEF Hole
      <4>. QED  BY <1>1, <1>2, <2>1, <2>4, <4>1, <4>2
    <3>4. Ts(u, Parent(c)) <= Ts(u, c)
      BY <1>1, <1>2, <2>1, <2>4
    <3>. QED  BY <3>2, <3>3, <3>4 DEF Lower, Hole
  <2>6. Sink([timer |-> t, at |-> p], end) = [timer |-> u, at |-> c]
    BY <1>3, <1>5
  <2>. QED  BY <2>1, <2>3, <2>5, <2>6
<1>. QED  BY <1>4, <1>5

\* The turns of the loop are what their recursive definition says.
Sinking(t, idx, end) ==
  LET turn[n \in 0..end] ==
        IF n = 0 THEN [timer |-> t, at |-> idx] ELSE Sink(turn[n - 1], end)
  IN turn

IsSinking(f, t, idx, end, m) ==
  f = [n \in 0..m |-> IF n = 0 THEN [timer |-> t, at |-> idx] ELSE Sink(f[n - 1], end)]

LEMMA SinkingExists ==
  ASSUME NEW t, NEW idx, NEW end, NEW m \in Nat PROVE \E f : IsSinking(f, t, idx, end, m)
<1>. DEFINE I == {k \in Nat : \E f : IsSinking(f, t, idx, end, k)}
<1>1. 0 \in I
  <2>1. IsSinking([n \in 0..0 |-> [timer |-> t, at |-> idx]], t, idx, end, 0)
    BY DEF IsSinking
  <2>. QED  BY <2>1
<1>2. ASSUME NEW k \in Nat, k \in I PROVE k + 1 \in I
  <2>1. PICK f : IsSinking(f, t, idx, end, k)
    BY <1>2
  <2>. DEFINE h == [n \in 0..(k + 1) |-> IF n = k + 1 THEN Sink(f[k], end) ELSE f[n]]
  <2>2. ASSUME NEW n \in 0..(k + 1)
        PROVE  h[n] = IF n = 0 THEN [timer |-> t, at |-> idx] ELSE Sink(h[n - 1], end)
    <3>1. CASE n = k + 1
      BY <3>1
    <3>2. CASE n \in 0..k
      <4>1. h[n] = f[n] /\ (n # 0 => n - 1 \in 0..k /\ h[n - 1] = f[n - 1])
        BY <3>2
      <4>2. f[n] = IF n = 0 THEN [timer |-> t, at |-> idx] ELSE Sink(f[n - 1], end)
        BY <2>1, <3>2 DEF IsSinking
      <4>. QED  BY <4>1, <4>2
    <3>. QED  BY <3>1, <3>2
  <2>3. h = [n \in 0..(k + 1) |-> h[n]]
    OBVIOUS
  <2>. HIDE DEF h
  <2>4. IsSinking(h, t, idx, end, k + 1)
    BY <2>2, <2>3 DEF IsSinking
  <2>. QED  BY <2>4
<1>. HIDE DEF I
<1>3. m \in I
  BY <1>1, <1>2, Induction
<1>. QED  BY <1>3 DEF I

LEMMA SinkingUnfolds ==
  ASSUME NEW t, NEW idx, NEW end \in Nat
  PROVE  /\ SiftDown_(t, idx, end) = Sinking(t, idx, end)[end]
         /\ Sinking(t, idx, end)[0] = [timer |-> t, at |-> idx]
         /\ \A n \in 0..(end - 1) :
              Sinking(t, idx, end)[n + 1] = Sink(Sinking(t, idx, end)[n], end)
<1>1. \E f : f = [n \in 0..end |-> IF n = 0 THEN [timer |-> t, at |-> idx] ELSE Sink(f[n - 1], end)]
  <2>1. PICK f : IsSinking(f, t, idx, end, end)
    BY SinkingExists
  <2>2. f = [n \in 0..end |-> IF n = 0 THEN [timer |-> t, at |-> idx] ELSE Sink(f[n - 1], end)]
    BY <2>1 DEF IsSinking
  <2>. QED  BY <2>2
<1>2. Sinking(t, idx, end)
        = [n \in 0..end |-> IF n = 0 THEN [timer |-> t, at |-> idx]
                            ELSE Sink(Sinking(t, idx, end)[n - 1], end)]
  BY <1>1 DEF Sinking
<1>3. SiftDown_(t, idx, end) = Sinking(t, idx, end)[end]
  BY DEF SiftDown_, Sinking
<1>. DEFINE f == Sinking(t, idx, end)
<1>. HIDE DEF f
<1>4. f = [n \in 0..end |-> IF n = 0 THEN [timer |-> t, at |-> idx] ELSE Sink(f[n - 1], end)]
  BY <1>2 DEF f
<1>5. ASSUME NEW n \in 0..(end - 1) PROVE f[n + 1] = Sink(f[n], end)
  <2>1. n + 1 \in 0..end /\ n + 1 # 0 /\ (n + 1) - 1 = n
    BY <1>5
  <2>. QED  BY <1>4, <2>1
<1>. QED  BY <1>3, <1>4, <1>5 DEF f

LEMMA ReorderedTwice ==
  ASSUME NEW t, NEW u, NEW v, NEW end, Reordered(t, u, end), Reordered(u, v, end)
  PROVE  Reordered(t, v, end)
<1>1. Indices(u) = Indices(t)
  BY DEF Reordered, Indices
<1>. QED  BY <1>1 DEF Reordered

\* What is known after n turns.
Sunk(t, idx, end, y, n) ==
  /\ y = [timer |-> y.timer, at |-> y.at] /\ y.at \in idx..(end - 1)
  /\ Reordered(t, y.timer, end)
  /\ y.at = idx => y.timer = t
  /\ y.at > idx /\ Hole(t, idx, end) => Lower(y.timer, y.at, end)
  /\ Sink(y, end) = y \/ y.at >= idx + n

LEMMA SunkStep ==
  ASSUME NEW t, Exact(t), NEW end \in 0..Size(t), NEW idx \in 0..(end - 1), NEW n \in Nat,
         NEW y, Sunk(t, idx, end, y, n)
  PROVE  Sunk(t, idx, end, Sink(y, end), n + 1)
<1>1. Size(t) \in Nat /\ end \in Nat /\ idx \in Nat
  BY Items
<1>2. /\ y = [timer |-> y.timer, at |-> y.at] /\ y.at \in idx..(end - 1)
      /\ Reordered(t, y.timer, end)
      /\ y.at = idx => y.timer = t
      /\ y.at > idx /\ Hole(t, idx, end) => Lower(y.timer, y.at, end)
      /\ Sink(y, end) = y \/ y.at >= idx + n
  BY DEF Sunk
<1>3. CASE Sink(y, end) = y
  BY <1>2, <1>3 DEF Sunk
<1>4. CASE Sink(y, end) # y
  <2>. DEFINE u == y.timer
              p == y.at
              z == Sink(y, end)
  <2>1. Exact(u) /\ end \in 0..Size(u) /\ p \in 0..(end - 1)
    BY <1>1, <1>2 DEF Reordered
  <2>. HIDE DEF u, p, z
  <2>2. z = Sink([timer |-> u, at |-> p], end) /\ z # [timer |-> u, at |-> p]
    BY <1>2, <1>4 DEF u, p, z
  <2>3. /\ z = [timer |-> z.timer, at |-> z.at] /\ z.at \in (p + 1)..(end - 1)
        /\ Reordered(u, z.timer, end)
        /\ Hole(u, p, end) => Lower(z.timer, z.at, end)
    BY <2>1, <2>2, SinkTurn
  <2>4. Reordered(t, z.timer, end)
    BY <1>2, <2>3, ReorderedTwice DEF u
  <2>5. Hole(t, idx, end) => Hole(u, p, end)
    BY <1>1, <1>2 DEF Lower, u, p
  <2>6. z.at > idx /\ z.at \in idx..(end - 1) /\ z.at >= idx + (n + 1)
    BY <1>1, <1>2, <1>4, <2>1, <2>3 DEF p
  <2>7. Sunk(t, idx, end, z, n + 1)
    BY <1>1, <2>3, <2>4, <2>5, <2>6 DEF Sunk
  <2>. QED  BY <2>7 DEF z
<1>. QED  BY <1>3, <1>4

\* SiftDown_ reorders the first end entries.  If it moves an entry, it takes the place of
\* one that is not later; if nothing is out of order but one entry that is not too low, they
\* are in order afterwards.
LEMMA SiftsDown ==
  ASSUME NEW t, Exact(t), NEW end \in 0..Size(t), NEW idx \in 0..(end - 1)
  PROVE  LET y == SiftDown_(t, idx, end) IN
         /\ y.at \in idx..(end - 1) /\ Reordered(t, y.timer, end)
         /\ y.at = idx => y.timer = t /\ (Hole(t, idx, end) => Upper(t, idx, end))
         /\ y.at > idx /\ Hole(t, idx, end) => Ordered(y.timer, end)
         /\ Lower(t, idx, end) => Ordered(y.timer, end)
<1>. DEFINE turn == Sinking(t, idx, end)
            I == {n \in Nat : n <= end => Sunk(t, idx, end, turn[n], n)}
            y == SiftDown_(t, idx, end)
<1>1. Size(t) \in Nat /\ end \in Nat /\ idx \in Nat
  BY Items
<1>2. /\ y = turn[end] /\ turn[0] = [timer |-> t, at |-> idx]
      /\ \A n \in 0..(end - 1) : turn[n + 1] = Sink(turn[n], end)
  BY <1>1, SinkingUnfolds
<1>. HIDE DEF turn, y
<1>3. 0 \in I
  <2>1. Reordered(t, t, end)
    BY DEF Reordered
  <2>2. /\ [timer |-> t, at |-> idx].timer = t
        /\ [timer |-> t, at |-> idx].at = idx
    OBVIOUS
  <2>3. Sunk(t, idx, end, [timer |-> t, at |-> idx], 0)
    BY <1>1, <2>1, <2>2 DEF Sunk
  <2>. QED  BY <1>2, <2>3
<1>4. ASSUME NEW n \in Nat, n \in I PROVE n + 1 \in I
  <2>1. ASSUME n + 1 <= end PROVE Sunk(t, idx, end, turn[n + 1], n + 1)
    <3>1. n \in 0..(end - 1) /\ n <= end
      BY <1>1, <2>1
    <3>. QED  BY <1>2, <1>4, <3>1, SunkStep
  <2>. QED  BY <2>1
<1>5. Sunk(t, idx, end, y, end)
  <2>. HIDE DEF I
  <2>1. end \in I
    BY <1>1, <1>3, <1>4, Induction
  <2>. QED  BY <1>1, <1>2, <2>1 DEF I
<1>6. /\ y = [timer |-> y.timer, at |-> y.at] /\ y.at \in idx..(end - 1)
      /\ Reordered(t, y.timer, end)
      /\ y.at = idx => y.timer = t
      /\ y.at > idx /\ Hole(t, idx, end) => Lower(y.timer, y.at, end)
      /\ Sink(y, end) = y
  BY <1>1, <1>5 DEF Sunk
<1>. DEFINE u == y.timer
            p == y.at
<1>7. Exact(u) /\ end \in 0..Size(u) /\ p \in 0..(end - 1) /\ p \in Nat
  BY <1>1, <1>6 DEF Reordered
<1>. HIDE DEF u, p
<1>8. Sink([timer |-> u, at |-> p], end) = [timer |-> u, at |-> p]
  BY <1>6 DEF u, p
<1>9. Hole(u, p, end) => Upper(u, p, end)
  <2>1. [timer |-> u, at |-> p].at \notin (p + 1)..(end - 1)
    BY <1>1, <1>7
  <2>. QED  BY <1>7, <1>8, <2>1, SinkTurn
<1>10. p > idx /\ Hole(t, idx, end) => Ordered(u, end)
  <2>1. p > idx /\ Hole(t, idx, end) => Lower(u, p, end)
    BY <1>6 DEF u, p
  <2>. QED  BY <1>1, <1>7, <1>9, <2>1, HoleFilled DEF Lower
<1>11. p = idx => u = t
  BY <1>6 DEF u, p
<1>12. Lower(t, idx, end) => Ordered(u, end)
  <2>1. CASE p = idx
    BY <1>1, <1>7, <1>9, <1>11, <2>1, HoleFilled DEF Lower
  <2>2. CASE p > idx
    BY <1>10, <2>2 DEF Lower
  <2>3. p = idx \/ p > idx
    BY <1>6 DEF p
  <2>. QED  BY <2>1, <2>2, <2>3
<1>. QED  BY <1>6, <1>9, <1>10, <1>11, <1>12 DEF u, p, y

-----------------------------------------------------------------------------
(***************************************************************************)
(* SiftUp_.                                                                *)
(***************************************************************************)
LEMMA RiseTurn ==
  ASSUME NEW t, Exact(t), NEW end \in 0..Size(t), NEW p \in 0..(end - 1)
  PROVE  LET y == Rise([timer |-> t, at |-> p]) IN
         \/ /\ y = [timer |-> t, at |-> p]
            /\ Upper(t, p, end) => Ordered(t, end)
         \/ /\ y = [timer |-> y.timer, at |-> y.at] /\ p > 0 /\ y.at \in 0..(p - 1)
            /\ Reordered(t, y.timer, end)
            /\ Upper(t, p, end) => Upper(y.timer, y.at, end)
<1>. DEFINE q == Parent(p)
            u == SwapItem_(t, q, p)
<1>1. /\ Size(t) \in Nat /\ end \in Nat /\ p \in Nat
      /\ \A k \in 0..(end - 1) : k \in Indices(t) /\ Ts(t, k) \in Int
      /\ \A k \in 1..(end - 1) : Parent(k) \in 0..(end - 1) /\ Parent(k) < k
  <2>1. Size(t) \in Nat
    BY Items
  <2>2. \A k \in 0..(end - 1) : k \in Indices(t)
    BY <2>1 DEF Indices
  <2>3. \A k \in 0..(end - 1) : Ts(t, k) \in Int
    BY <2>2, Items
  <2>4. ASSUME NEW k \in 1..(end - 1) PROVE Parent(k) \in 0..(end - 1) /\ Parent(k) < k
    <3>1. k \in Nat \ {0}
      BY <2>1
    <3>. QED  BY <2>1, <3>1, Parents
  <2>. QED  BY <2>1, <2>2, <2>3, <2>4
<1>2. Rise([timer |-> t, at |-> p])
        = IF p = 0 \/ Ts(t, q) < Ts(t, p) THEN [timer |-> t, at |-> p]
          ELSE [timer |-> u, at |-> q]
  BY DEF Rise, Less, Ts
<1>. HIDE DEF u
<1>3. CASE p = 0 \/ Ts(t, q) < Ts(t, p)
  <2>1. p > 0 => Ts(t, q) <= Ts(t, p)
    <3>1. ASSUME p > 0 PROVE Ts(t, q) <= Ts(t, p)
      <4>1. p \in 0..(end - 1) /\ q \in 0..(end - 1) /\ Ts(t, q) < Ts(t, p)
        BY <1>1, <1>3, <3>1
      <4>. QED  BY <1>1, <4>1
    <3>. QED  BY <3>1
  <2>2. Upper(t, p, end) => Lower(t, p, end)
    BY <2>1 DEF Upper, Lower
  <2>3. Upper(t, p, end) => Ordered(t, end)
    BY <1>1, <2>2, HoleFilled
  <2>. QED  BY <1>2, <1>3, <2>3
<1>4. CASE ~(p = 0 \/ Ts(t, q) < Ts(t, p))
  <2>1. /\ p > 0 /\ p \in 1..(end - 1) /\ q \in 0..(p - 1) /\ q \in 0..(end - 1) /\ q # p
        /\ Ts(t, p) <= Ts(t, q)
    <3>1. p > 0 /\ p \in 1..(end - 1) /\ q \in 0..(end - 1) /\ q < p
      BY <1>1, <1>4
    <3>2. Ts(t, p) \in Int /\ Ts(t, q) \in Int
      BY <1>1, <3>1
    <3>. QED  BY <1>1, <1>4, <3>1, <3>2
  <2>2. /\ Size(u) = Size(t) /\ Item(u, q) = Item(t, p) /\ Item(u, p) = Item(t, q)
        /\ \A k \in Indices(t) : k # p /\ k # q => Item(u, k) = Item(t, k)
        /\ Exact(u) /\ Due(u) = Due(t)
    BY <1>1, <2>1, Swapped DEF u
  <2>3. Reordered(t, u, end)
    <3>1. \A k \in Indices(t) : k >= end => k # p /\ k # q
      BY <1>1, <2>1 DEF Indices
    <3>. QED  BY <2>2, <3>1 DEF Reordered
  <2>4. \A k \in 0..(end - 1) :
          Ts(u, k) = IF k = p THEN Ts(t, q) ELSE IF k = q THEN Ts(t, p) ELSE Ts(t, k)
    BY <1>1, <2>2 DEF Ts
  <2>5. ASSUME Upper(t, p, end) PROVE Upper(u, q, end)
    <3>1. q > 0 => /\ Parent(q) \in 0..(end - 1) /\ Parent(q) < q
                   /\ Ts(t, Parent(q)) <= Ts(t, q)
      BY <1>1, <2>1, <2>5 DEF Upper, Hole
    <3>2. ASSUME NEW k \in 1..(end - 1), k # q, Parent(k) # q
          PROVE  Ts(u, Parent(k)) <= Ts(u, k)
      <4>1. Parent(k) \in 0..(end - 1) /\ Parent(k) < k /\ k \in 0..(end - 1) /\ k # p
        BY <1>1, <2>1, <3>2
      <4>2. CASE Parent(k) = p
        BY <1>1, <2>1, <2>4, <2>5, <3>2, <4>1, <4>2 DEF Upper, Hole
      <4>3. CASE Parent(k) # p
        BY <2>4, <2>5, <3>2, <4>1, <4>3 DEF Upper, Hole
      <4>. QED  BY <4>2, <4>3
    <3>3. ASSUME NEW k \in 1..(end - 1), Parent(k) = q
          PROVE  /\ Ts(u, q) <= Ts(u, k)
                 /\ q > 0 => Ts(u, Parent(q)) <= Ts(u, k)
      <4>1. q < k /\ k \in 0..(end - 1) /\ k # q
        BY <1>1, <3>3
      <4>2. k # p => Ts(t, q) <= Ts(t, k)
        BY <2>1, <2>5, <3>3, <4>1 DEF Upper, Hole
      <4>3. Ts(u, q) = Ts(t, p) /\ Ts(u, k) = IF k = p THEN Ts(t, q) ELSE Ts(t, k)
        BY <2>1, <2>4, <4>1
      <4>4. Ts(t, p) \in Int /\ Ts(t, q) \in Int /\ Ts(t, k) \in Int
        BY <1>1, <2>1, <4>1
      <4>5. Ts(u, q) <= Ts(u, k) /\ Ts(t, q) <= Ts(u, k)
        BY <2>1, <4>2, <4>3, <4>4
      <4>6. ASSUME q > 0 PROVE Ts(u, Parent(q)) <= Ts(u, k)
        <5>1. Ts(u, Parent(q)) = Ts(t, Parent(q))
          BY <2>1, <2>4, <3>1, <4>6
        <5>2. Ts(t, Parent(q)) \in Int /\ Ts(t, Parent(q)) <= Ts(t, q)
          BY <1>1, <3>1, <4>6
        <5>. QED  BY <4>3, <4>4, <4>5, <5>1, <5>2
      <4>. QED  BY <4>5, <4>6
    <3>. QED  BY <3>2, <3>3 DEF Upper, Hole
  <2>6. Rise([timer |-> t, at |-> p]) = [timer |-> u, at |-> q]
    BY <1>2, <1>4
  <2>. QED  BY <2>1, <2>3, <2>5, <2>6
<1>. QED  BY <1>3, <1>4

Rising(t, idx) ==
  LET turn[n \in 0..idx] == IF n = 0 THEN [timer |-> t, at |-> idx] ELSE Rise(turn[n - 1])
  IN turn

IsRising(f, t, idx, m) ==
  f = [n \in 0..m |-> IF n = 0 THEN [timer |-> t, at |-> idx] ELSE Rise(f[n - 1])]

LEMMA RisingExists ==
  ASSUME NEW t, NEW idx, NEW m \in Nat PROVE \E f : IsRising(f, t, idx, m)
<1>. DEFINE I == {k \in Nat : \E f : IsRising(f, t, idx, k)}
<1>1. 0 \in I
  <2>1. IsRising([n \in 0..0 |-> [timer |-> t, at |-> idx]], t, idx, 0)
    BY DEF IsRising
  <2>. QED  BY <2>1
<1>2. ASSUME NEW k \in Nat, k \in I PROVE k + 1 \in I
  <2>1. PICK f : IsRising(f, t, idx, k)
    BY <1>2
  <2>. DEFINE h == [n \in 0..(k + 1) |-> IF n = k + 1 THEN Rise(f[k]) ELSE f[n]]
  <2>2. ASSUME NEW n \in 0..(k + 1)
        PROVE  h[n] = IF n = 0 THEN [timer |-> t, at |-> idx] ELSE Rise(h[n - 1])
    <3>1. CASE n = k + 1
      BY <3>1
    <3>2. CASE n \in 0..k
      <4>1. h[n] = f[n] /\ (n # 0 => n - 1 \in 0..k /\ h[n - 1] = f[n - 1])
        BY <3>2
      <4>2. f[n] = IF n = 0 THEN [timer |-> t, at |-> idx] ELSE Rise(f[n - 1])
        BY <2>1, <3>2 DEF IsRising
      <4>. QED  BY <4>1, <4>2
    <3>. QED  BY <3>1, <3>2
  <2>3. h = [n \in 0..(k + 1) |-> h[n]]
    OBVIOUS
  <2>. HIDE DEF h
  <2>4. IsRising(h, t, idx, k + 1)
    BY <2>2, <2>3 DEF IsRising
  <2>. QED  BY <2>4
<1>. HIDE DEF I
<1>3. m \in I
  BY <1>1, <1>2, Induction
<1>. QED  BY <1>3 DEF I

LEMMA RisingUnfolds ==
  ASSUME NEW t, NEW idx \in Nat
  PROVE  /\ Risen(t, idx) = Rising(t, idx)[idx]
         /\ Rising(t, idx)[0] = [timer |-> t, at |-> idx]
         /\ \A n \in 0..(idx - 1) : Rising(t, idx)[n + 1] = Rise(Rising(t, idx)[n])
<1>1. \E f : f = [n \in 0..idx |-> IF n = 0 THEN [timer |-> t, at |-> idx] ELSE Rise(f[n - 1])]
  <2>1. PICK f : IsRising(f, t, idx, idx)
    BY RisingExists
  <2>2. f = [n \in 0..idx |-> IF n = 0 THEN [timer |-> t, at |-> idx] ELSE Rise(f[n - 1])]
    BY <2>1 DEF IsRising
  <2>. QED  BY <2>2
<1>2. Rising(t, idx)
        = [n \in 0..idx |-> IF n = 0 THEN [timer |-> t, at |-> idx]
                            ELSE Rise(Rising(t, idx)[n - 1])]
  BY <1>1 DEF Rising
<1>3. Risen(t, idx) = Rising(t, idx)[idx]
  BY DEF Risen, Rising
<1>. DEFINE f == Rising(t, idx)
<1>. HIDE DEF f
<1>4. f = [n \in 0..idx |-> IF n = 0 THEN [timer |-> t, at |-> idx] ELSE Rise(f[n - 1])]
  BY <1>2 DEF f
<1>5. ASSUME NEW n \in 0..(idx - 1) PROVE f[n + 1] = Rise(f[n])
  <2>1. n + 1 \in 0..idx /\ n + 1 # 0 /\ (n + 1) - 1 = n
    BY <1>5
  <2>. QED  BY <1>4, <2>1
<1>. QED  BY <1>3, <1>4, <1>5 DEF f

\* What is known after n turns.
Rose(t, idx, end, y, n) ==
  /\ y = [timer |-> y.timer, at |-> y.at] /\ y.at \in 0..idx
  /\ Reordered(t, y.timer, end)
  /\ Upper(t, idx, end) => Upper(y.timer, y.at, end)
  /\ Rise(y) = y \/ y.at + n <= idx

LEMMA RoseStep ==
  ASSUME NEW t, Exact(t), NEW end \in 0..Size(t), NEW idx \in 0..(end - 1), NEW n \in Nat,
         NEW y, Rose(t, idx, end, y, n)
  PROVE  Rose(t, idx, end, Rise(y), n + 1)
<1>1. Size(t) \in Nat /\ end \in Nat /\ idx \in Nat /\ idx < end
  BY Items
<1>2. /\ y = [timer |-> y.timer, at |-> y.at] /\ y.at \in 0..idx
      /\ Reordered(t, y.timer, end)
      /\ Upper(t, idx, end) => Upper(y.timer, y.at, end)
      /\ Rise(y) = y \/ y.at + n <= idx
  BY DEF Rose
<1>3. CASE Rise(y) = y
  BY <1>2, <1>3 DEF Rose
<1>4. CASE Rise(y) # y
  <2>. DEFINE u == y.timer
              p == y.at
              z == Rise(y)
  <2>1. Exact(u) /\ end \in 0..Size(u) /\ p \in 0..(end - 1)
    BY <1>1, <1>2 DEF Reordered
  <2>. HIDE DEF u, p, z
  <2>2. z = Rise([timer |-> u, at |-> p]) /\ z # [timer |-> u, at |-> p]
    BY <1>2, <1>4 DEF u, p, z
  <2>3. /\ z = [timer |-> z.timer, at |-> z.at] /\ p > 0 /\ z.at \in 0..(p - 1)
        /\ Reordered(u, z.timer, end)
        /\ Upper(u, p, end) => Upper(z.timer, z.at, end)
    BY <2>1, <2>2, RiseTurn
  <2>4. Reordered(t, z.timer, end)
    BY <1>2, <2>3, ReorderedTwice DEF u
  <2>5. Upper(t, idx, end) => Upper(u, p, end)
    BY <1>2 DEF u, p
  <2>6. z.at \in 0..idx /\ z.at + (n + 1) <= idx
    BY <1>1, <1>2, <1>4, <2>1, <2>3 DEF p
  <2>7. Rose(t, idx, end, z, n + 1)
    BY <1>1, <2>3, <2>4, <2>5, <2>6 DEF Rose
  <2>. QED  BY <2>7 DEF z
<1>. QED  BY <1>3, <1>4

\* SiftUp_ reorders the first entries; if nothing is out of order but one entry that is not
\* too high, they are in order afterwards - whatever lies in front of the array.
LEMMA SiftsUp ==
  ASSUME NEW t, Exact(t), NEW end \in 0..Size(t), NEW idx \in 0..(end - 1), NEW earlier
  PROVE  LET u == SiftUp_(t, idx, earlier) IN
         Reordered(t, u, end) /\ (Upper(t, idx, end) => Ordered(u, end))
<1>. DEFINE turn == Rising(t, idx)
            I == {n \in Nat : n <= idx => Rose(t, idx, end, turn[n], n)}
            y == Risen(t, idx)
<1>1. Size(t) \in Nat /\ end \in Nat /\ idx \in Nat /\ idx < end
  BY Items
<1>2. /\ y = turn[idx] /\ turn[0] = [timer |-> t, at |-> idx]
      /\ \A n \in 0..(idx - 1) : turn[n + 1] = Rise(turn[n])
  BY <1>1, RisingUnfolds
<1>. HIDE DEF turn, y
<1>3. 0 \in I
  <2>1. Reordered(t, t, end)
    BY DEF Reordered
  <2>2. /\ [timer |-> t, at |-> idx].timer = t
        /\ [timer |-> t, at |-> idx].at = idx
    OBVIOUS
  <2>3. Rose(t, idx, end, [timer |-> t, at |-> idx], 0)
    BY <1>1, <2>1, <2>2 DEF Rose
  <2>. QED  BY <1>2, <2>3
<1>4. ASSUME NEW n \in Nat, n \in I PROVE n + 1 \in I
  <2>1. ASSUME n + 1 <= idx PROVE Rose(t, idx, end, turn[n + 1], n + 1)
    <3>1. n \in 0..(idx - 1) /\ n <= idx
      BY <1>1, <2>1
    <3>. QED  BY <1>2, <1>4, <3>1, RoseStep
  <2>. QED  BY <2>1
<1>5. Rose(t, idx, end, y, idx)
  <2>. HIDE DEF I
  <2>1. idx \in I
    BY <1>1, <1>3, <1>4, Induction
  <2>. QED  BY <1>1, <1>2, <2>1 DEF I
<1>6. /\ y = [timer |-> y.timer, at |-> y.at] /\ y.at \in 0..idx
      /\ Reordered(t, y.timer, end)
      /\ Upper(t, idx, end) => Upper(y.timer, y.at, end)
      /\ Rise(y) = y
  <2>1. y.at = 0 => Rise(y) = y
    BY DEF Rise
  <2>. QED  BY <1>1, <1>5, <2>1 DEF Rose
<1>. DEFINE u == y.timer
            p == y.at
<1>7. Exact(u) /\ end \in 0..Size(u) /\ p \in 0..(end - 1) /\ p \in Nat
  BY <1>1, <1>6 DEF Reordered
<1>. HIDE DEF u, p
<1>8. Rise([timer |-> u, at |-> p]) = [timer |-> u, at |-> p]
  BY <1>6 DEF u, p
<1>9. Upper(t, idx, end) => Ordered(u, end)
  <2>1. ~ (p > 0 /\ [timer |-> u, at |-> p].at \in 0..(p - 1))
    BY <1>1, <1>7
  <2>2. Upper(u, p, end) => Ordered(u, end)
    BY <1>7, <1>8, <2>1, RiseTurn
  <2>. QED  BY <1>6, <2>2 DEF u, p
<1>10. CASE p # 0
  BY <1>6, <1>9, <1>10 DEF SiftUp_, u, p, y
<1>11. CASE p = 0
  <2>. DEFINE v == SiftUp_(t, idx, earlier)
  <2>1. v = [heap |-> u.heap, refs |-> u.refs, sane |-> earlier]
    <3>1. u = [heap |-> u.heap, refs |-> u.refs, sane |-> u.sane]
      BY <1>7 DEF Exact
    <3>2. v = [u EXCEPT !.sane = earlier]
      BY <1>11 DEF SiftUp_, u, p, y
    <3>. HIDE DEF v
    <3>. QED  BY <3>1, <3>2
  <2>. HIDE DEF v
  <2>2. /\ v.heap = u.heap /\ v.refs = u.refs
        /\ v = [heap |-> v.heap, refs |-> v.refs, sane |-> v.sane]
    BY <2>1
  <2>3. Reordered(t, v, end)
    BY <1>6, <2>2 DEF Reordered, Exact, Due, Size, Indices, Item, Id, Ts, u
  <2>4. Ordered(u, end) => Ordered(v, end)
    BY <2>2 DEF Ordered, Ts, Item
  <2>. QED  BY <1>9, <2>3, <2>4 DEF v
<1>. QED  BY <1>10, <1>11

\* if (!SiftDown_) SiftUp_: the order is restored wherever the one entry belongs.
LEMMA Settles ==
  ASSUME NEW t, Exact(t), NEW end \in 0..Size(t), NEW idx \in 0..(end - 1), NEW earlier
  PROVE  LET u == Settle(t, idx, end, earlier) IN
         Reordered(t, u, end) /\ (Hole(t, idx, end) => Ordered(u, end))
<1>. DEFINE y == SiftDown_(t, idx, end)
<1>1. /\ y.at \in idx..(end - 1) /\ Reordered(t, y.timer, end)
      /\ y.at = idx => y.timer = t /\ (Hole(t, idx, end) => Upper(t, idx, end))
      /\ y.at > idx /\ Hole(t, idx, end) => Ordered(y.timer, end)
  BY SiftsDown
<1>2. Settle(t, idx, end, earlier)
        = IF y.at > idx THEN y.timer ELSE SiftUp_(y.timer, idx, earlier)
  BY DEF Settle
<1>. HIDE DEF y
<1>3. CASE y.at > idx
  BY <1>1, <1>2, <1>3
<1>4. CASE ~(y.at > idx)
  <2>1. y.at = idx /\ y.timer = t
    BY <1>1, <1>4, Items
  <2>2. Settle(t, idx, end, earlier) = SiftUp_(t, idx, earlier)
    BY <1>2, <1>4, <2>1
  <2>. QED  BY <1>1, <2>1, <2>2, SiftsUp
<1>. QED  BY <1>3, <1>4

-----------------------------------------------------------------------------
(***************************************************************************)
(* RemoveItem_, and entries that are added or get a new time.              *)
(***************************************************************************)
LEMMA HoleElsewhere ==
  ASSUME NEW t, NEW u, NEW end \in Nat, NEW p \in 0..(end - 1), Hole(t, p, end),
         \A k \in 0..(end - 1) : k # p => Ts(u, k) = Ts(t, k)
  PROVE  Hole(u, p, end)
<1>1. \A k \in 1..(end - 1) : Parent(k) \in 0..(end - 1) /\ Parent(k) < k
  <2>1. ASSUME NEW k \in 1..(end - 1) PROVE Parent(k) \in 0..(end - 1) /\ Parent(k) < k
    <3>1. k \in Nat \ {0}
      OBVIOUS
    <3>. QED  BY <3>1, Parents
  <2>. QED  BY <2>1
<1>2. ASSUME NEW k \in 1..(end - 1), k # p, Parent(k) # p PROVE Ts(u, Parent(k)) <= Ts(u, k)
  BY <1>1, <1>2 DEF Hole
<1>3. ASSUME NEW k \in 1..(end - 1), Parent(k) = p, p > 0 PROVE Ts(u, Parent(p)) <= Ts(u, k)
  <2>1. p \in 1..(end - 1) /\ k # p /\ Parent(p) # p /\ Parent(p) \in 0..(end - 1)
    BY <1>1, <1>3
  <2>. QED  BY <1>3, <2>1 DEF Hole
<1>. QED  BY <1>2, <1>3 DEF Hole

LEMMA OrderedPart ==
  ASSUME NEW t, NEW m \in Nat, NEW n \in 0..m, Ordered(t, m) PROVE Ordered(t, n)
  BY DEF Ordered

\* The last entry is taken away, and no other.
LEMMA PopsBack ==
  ASSUME NEW t, Exact(t), Size(t) > 0
  PROVE  LET u == PopBack(t)
             last == Id(t, Size(t) - 1)
         IN /\ Exact(u) /\ Due(u) = [f \in DOMAIN Due(t) \ {last} |-> Due(t)[f]]
            /\ Ordered(t, Size(t) - 1) => Ordered(u, Size(u))
<1>. DEFINE u == PopBack(t)
            n == Size(t) - 1
            last == Id(t, n)
<1>1. n \in Nat /\ n + 1 = Len(t.heap) /\ Size(t) = n + 1
  BY Items DEF Size
<1>2. /\ u = [heap |-> u.heap, refs |-> u.refs, sane |-> u.sane]
      /\ u.heap = SubSeq(t.heap, 1, n)
      /\ u.refs = [f \in DOMAIN t.refs \ {last} |-> t.refs[f]]
  <2>. DEFINE M == SubSeq(t.heap, 1, n)
              R == [f \in DOMAIN t.refs \ {last} |-> t.refs[f]]
  <2>1. u = [t EXCEPT !.heap = M, !.refs = R]
    BY Zenon DEF PopBack, Id
  <2>2. t = [heap |-> t.heap, refs |-> t.refs, sane |-> t.sane]
    BY DEF Exact
  <2>. HIDE DEF M, R, u
  <2>3. u = [heap |-> M, refs |-> R, sane |-> t.sane]
    BY <2>1, <2>2
  <2>. QED  BY <2>3 DEF M, R
<1>. HIDE DEF u, n, last
<1>3. /\ u.heap \in Seq(Entry) /\ Size(u) = n
      /\ \A i \in 0..(n - 1) : i \in Indices(t) /\ Item(u, i) = Item(t, i)
  <2>1. t.heap \in Seq(Entry)
    BY DEF Exact
  <2>2. u.heap \in Seq(Entry) /\ Len(u.heap) = n
    BY <1>1, <1>2, <2>1
  <2>3. ASSUME NEW i \in 0..(n - 1) PROVE i \in Indices(t) /\ Item(u, i) = Item(t, i)
    <3>1. i + 1 \in 1..n
      BY <1>1
    <3>2. u.heap[i + 1] = t.heap[i + 1]
      BY <1>1, <1>2, <2>1, <3>1
    <3>. QED  BY <1>1, <3>2 DEF Indices, Item
  <2>. QED  BY <2>2, <2>3 DEF Size
<1>4. n \in Indices(t) /\ last \in DOMAIN t.refs /\ t.refs[last] = n
  BY <1>1 DEF Exact, Indices, last
<1>5. ASSUME NEW i \in 0..(n - 1) PROVE Id(u, i) \in DOMAIN u.refs /\ u.refs[Id(u, i)] = i
  <2>1. Id(u, i) = Id(t, i) /\ Id(t, i) \in DOMAIN t.refs /\ t.refs[Id(t, i)] = i
    BY <1>3 DEF Id, Exact
  <2>2. Id(t, i) # last
    BY <1>1, <1>4, <2>1
  <2>. QED  BY <1>2, <2>1, <2>2
<1>6. ASSUME NEW fd \in DOMAIN u.refs
      PROVE  /\ u.refs[fd] \in 0..(n - 1) /\ Id(u, u.refs[fd]) = fd
             /\ Item(u, u.refs[fd]) = Item(t, t.refs[fd])
  <2>1. fd \in DOMAIN t.refs /\ fd # last /\ u.refs[fd] = t.refs[fd]
    BY <1>2
  <2>2. t.refs[fd] \in Indices(t) /\ Id(t, t.refs[fd]) = fd
    BY <2>1 DEF Exact
  <2>3. t.refs[fd] # n
    BY <2>1, <2>2 DEF last
  <2>4. t.refs[fd] \in 0..(n - 1)
    BY <1>1, <2>2, <2>3 DEF Indices
  <2>. QED  BY <1>3, <2>1, <2>2, <2>4 DEF Id
<1>7. Exact(u)
  <2>1. Indices(u) = 0..(n - 1)
    BY <1>3 DEF Indices
  <2>2. u.refs \in [DOMAIN u.refs -> Nat]
    <3>1. t.refs \in [DOMAIN t.refs -> Nat]
      BY DEF Exact
    <3>. QED  BY <1>2, <3>1
  <2>. QED  BY <1>2, <1>3, <1>5, <1>6, <2>1, <2>2 DEF Exact
<1>8. ASSUME Ordered(t, n) PROVE Ordered(u, Size(u))
  <2>1. ASSUME NEW k \in 1..(n - 1) PROVE Ts(u, Parent(k)) <= Ts(u, k)
    <3>1. k \in Nat \ {0} /\ k \in 0..(n - 1)
      BY <1>1
    <3>2. Parent(k) \in 0..(n - 1)
      BY <1>1, <3>1, Parents
    <3>3. Ts(t, Parent(k)) <= Ts(t, k)
      BY <1>8 DEF Ordered
    <3>. QED  BY <1>3, <3>1, <3>2, <3>3 DEF Ts
  <2>. QED  BY <1>3, <2>1 DEF Ordered
<1>9. Due(u) = [f \in DOMAIN Due(t) \ {last} |-> Due(t)[f]]
  BY <1>2, <1>6 DEF Due, Ts
<1>. QED  BY <1>7, <1>8, <1>9 DEF u, last, n

\* The entry at i is taken away, and no other, and the order is kept.
LEMMA Removes ==
  ASSUME NEW t, Exact(t), NEW i \in Indices(t), NEW earlier
  PROVE  LET u == RemoveItem_(t, i, earlier) IN
         /\ Exact(u) /\ Due(u) = [f \in DOMAIN Due(t) \ {Id(t, i)} |-> Due(t)[f]]
         /\ Ordered(t, Size(t)) => Ordered(u, Size(u))
<1>. DEFINE end == Size(t) - 1
            u == RemoveItem_(t, i, earlier)
<1>1. /\ end \in Nat /\ end \in 0..Size(t) /\ Size(t) = end + 1 /\ end \in Indices(t)
      /\ i \in Nat /\ i <= end
  BY Items DEF Indices
<1>2. CASE i < end
  <2>. DEFINE v == SwapItem_(t, i, end)
              w == Settle(v, i, end, earlier)
  <2>1. /\ Exact(v) /\ Size(v) = Size(t) /\ Due(v) = Due(t) /\ Item(v, end) = Item(t, i)
        /\ \A k \in Indices(t) : k # i /\ k # end => Item(v, k) = Item(t, k)
    BY <1>1, <1>2, Swapped
  <2>2. u = PopBack(w)
    BY <1>2 DEF RemoveItem_
  <2>. HIDE DEF v
  <2>3. i \in 0..(end - 1)
    BY <1>1, <1>2
  <2>4. Reordered(v, w, end) /\ (Hole(v, i, end) => Ordered(w, end))
    BY <1>1, <2>1, <2>3, Settles
  <2>. HIDE DEF w, u
  <2>5. /\ Exact(w) /\ Size(w) = Size(t) /\ Due(w) = Due(t) /\ Id(w, Size(w) - 1) = Id(t, i)
    BY <1>1, <2>1, <2>4 DEF Reordered, Indices, Id
  <2>6. ASSUME Ordered(t, Size(t)) PROVE Ordered(w, Size(w) - 1)
    <3>1. Ordered(t, end)
      BY <1>1, <2>6, OrderedPart
    <3>2. Hole(t, i, end)
      BY <1>1, <3>1, OrderedHole
    <3>3. \A k \in 0..(end - 1) : k # i => Ts(v, k) = Ts(t, k)
      BY <1>1, <2>1 DEF Indices, Ts
    <3>4. Hole(v, i, end)
      BY <1>1, <2>3, <3>2, <3>3, HoleElsewhere
    <3>. QED  BY <2>4, <2>5, <3>4
  <2>7. /\ Exact(u) /\ Due(u) = [f \in DOMAIN Due(w) \ {Id(w, Size(w) - 1)} |-> Due(w)[f]]
        /\ Ordered(w, Size(w) - 1) => Ordered(u, Size(u))
    <3>1. Size(w) > 0
      BY <1>1, <2>5
    <3>. QED  BY <2>2, <2>5, <3>1, PopsBack, Zenon
  <2>8. Due(u) = [f \in DOMAIN Due(t) \ {Id(t, i)} |-> Due(t)[f]]
    BY <2>1, <2>5, <2>7, Zenon
  <2>. QED  BY <2>6, <2>7, <2>8, Zenon DEF u
<1>3. CASE ~(i < end)
  <2>1. i = end /\ u = PopBack(t)
    BY <1>1, <1>3 DEF RemoveItem_
  <2>2. Ordered(t, Size(t)) => Ordered(t, Size(t) - 1)
    BY <1>1, OrderedPart
  <2>. HIDE DEF u
  <2>3. /\ Exact(u) /\ Due(u) = [f \in DOMAIN Due(t) \ {Id(t, Size(t) - 1)} |-> Due(t)[f]]
        /\ Ordered(t, Size(t) - 1) => Ordered(u, Size(u))
    <3>1. Size(t) > 0
      BY <1>1
    <3>. QED  BY <2>1, <3>1, PopsBack, Zenon
  <2>4. Id(t, Size(t) - 1) = Id(t, i)
    BY <2>1
  <2>. QED  BY <2>2, <2>3, <2>4, Zenon DEF u
<1>. QED  BY <1>2, <1>3

\* The entry of fd gets a new time.
LEMMA Retimes ==
  ASSUME NEW t, Exact(t), NEW fd \in DOMAIN t.refs, now + Timeout \in Int
  PROVE  LET u == Retimed(t, fd)
             p == t.refs[fd]
         IN /\ Exact(u) /\ Size(u) = Size(t) /\ u.refs = t.refs
            /\ Due(u) = [f \in DOMAIN Due(t) |-> IF f = fd THEN now + Timeout ELSE Due(t)[f]]
            /\ Ordered(t, Size(t)) =>
                 /\ Hole(u, p, Size(t))
                 /\ Ts(t, p) <= now + Timeout => Lower(u, p, Size(t))
<1>. DEFINE u == Retimed(t, fd)
            p == t.refs[fd]
            e == [Item(t, p) EXCEPT !.ts_remaining = now + Timeout]
<1>1. p \in Indices(t) /\ Id(t, p) = fd
  BY DEF Exact
<1>2. Size(t) \in Nat /\ p \in Nat /\ p + 1 \in 1..Len(t.heap) /\ p \in 0..(Size(t) - 1)
  BY <1>1, Items DEF Indices, Size
<1>3. /\ u = [heap |-> u.heap, refs |-> u.refs, sane |-> u.sane]
      /\ u.heap = [t.heap EXCEPT ![p + 1] = e] /\ u.refs = t.refs
  <2>. DEFINE M == [t.heap EXCEPT ![p + 1] = e]
  <2>1. u = [t EXCEPT !.heap = M]
    BY Zenon DEF Retimed, Item
  <2>2. t = [heap |-> t.heap, refs |-> t.refs, sane |-> t.sane]
    BY DEF Exact
  <2>. HIDE DEF M, u
  <2>3. u = [heap |-> M, refs |-> t.refs, sane |-> t.sane]
    BY <2>1, <2>2
  <2>. QED  BY <2>3 DEF M
<1>4. e = [item_id |-> fd, ts_remaining |-> now + Timeout] /\ e \in Entry
  <2>1. Item(t, p) = [item_id |-> fd, ts_remaining |-> Ts(t, p)] /\ fd \in Fds
    BY <1>1, Items
  <2>. QED  BY <2>1 DEF Entry
<1>. HIDE DEF u, p, e
<1>5. /\ u.heap \in Seq(Entry) /\ Size(u) = Size(t) /\ Indices(u) = Indices(t)
      /\ \A i \in Indices(t) : Item(u, i) = IF i = p THEN e ELSE Item(t, i)
  <2>1. t.heap \in Seq(Entry)
    BY DEF Exact
  <2>2. u.heap \in Seq(Entry) /\ Len(u.heap) = Len(t.heap)
    BY <1>2, <1>3, <1>4, <2>1
  <2>3. ASSUME NEW i \in Indices(t) PROVE Item(u, i) = IF i = p THEN e ELSE Item(t, i)
    <3>1. i + 1 \in 1..Len(t.heap) /\ (i + 1 = p + 1 <=> i = p)
      BY <1>2 DEF Indices, Size
    <3>. QED  BY <1>2, <1>3, <2>1, <3>1 DEF Item
  <2>. QED  BY <2>2, <2>3 DEF Size, Indices
<1>6. \A i \in Indices(t) :
        Id(u, i) = Id(t, i) /\ Ts(u, i) = IF i = p THEN now + Timeout ELSE Ts(t, i)
  BY <1>1, <1>4, <1>5 DEF Id, Ts
<1>7. Exact(u)
  BY <1>3, <1>5, <1>6 DEF Exact
<1>8. Due(u) = [f \in DOMAIN Due(t) |-> IF f = fd THEN now + Timeout ELSE Due(t)[f]]
  <2>1. ASSUME NEW f \in DOMAIN t.refs
        PROVE  t.refs[f] \in Indices(t) /\ (t.refs[f] = p <=> f = fd)
    BY <1>1, <2>1 DEF Exact, p
  <2>. QED  BY <1>3, <1>6, <2>1 DEF Due
<1>9. ASSUME Ordered(t, Size(t)) PROVE Hole(u, p, Size(t))
  <2>1. Hole(t, p, Size(t))
    BY <1>2, <1>9, OrderedHole
  <2>. QED  BY <1>2, <1>6, <2>1, HoleElsewhere DEF Indices
<1>10. ASSUME Ordered(t, Size(t)), Ts(t, p) <= now + Timeout PROVE Lower(u, p, Size(t))
  <2>1. ASSUME p > 0 PROVE Ts(u, Parent(p)) <= Ts(u, p)
    <3>1. p \in Nat \ {0} /\ p \in 1..(Size(t) - 1)
      BY <1>2, <2>1
    <3>2. Parent(p) \in Indices(t) /\ Parent(p) # p
      BY <1>2, <3>1, Parents DEF Indices
    <3>3. Ts(t, Parent(p)) <= Ts(t, p) /\ Ts(t, p) \in Int /\ Ts(t, Parent(p)) \in Int
      BY <1>1, <1>10, <3>1, <3>2, Items DEF Ordered
    <3>. QED  BY <1>1, <1>6, <1>10, <3>2, <3>3
  <2>. QED  BY <1>9, <1>10, <2>1 DEF Lower
<1>. QED  BY <1>3, <1>5, <1>7, <1>8, <1>9, <1>10 DEF u, p

\* The entry of fd comes at the end.
LEMMA Pushes ==
  ASSUME NEW t, Exact(t), NEW fd \in Fds \ DOMAIN t.refs, now + Timeout \in Int
  PROVE  LET u == Pushed(t, fd) IN
         /\ Exact(u) /\ Size(u) = Size(t) + 1
         /\ Due(u) = [f \in DOMAIN Due(t) \cup {fd} |->
                        IF f = fd THEN now + Timeout ELSE Due(t)[f]]
         /\ Ordered(t, Size(t)) => Upper(u, Size(t), Size(u))
<1>. DEFINE u == Pushed(t, fd)
            n == Size(t)
            e == [item_id |-> fd, ts_remaining |-> now + Timeout]
<1>1. n \in Nat /\ n = Len(t.heap) /\ Indices(t) = 0..(n - 1)
  BY Items DEF Size, Indices
<1>2. /\ u = [heap |-> u.heap, refs |-> u.refs, sane |-> u.sane]
      /\ u.heap = Append(t.heap, e)
      /\ u.refs = [f \in DOMAIN t.refs \cup {fd} |-> IF f = fd THEN n ELSE t.refs[f]]
  <2>. DEFINE M == Append(t.heap, e)
              R == [f \in DOMAIN t.refs \cup {fd} |-> IF f = fd THEN n ELSE t.refs[f]]
  <2>1. u = [t EXCEPT !.heap = M, !.refs = R]
    BY Zenon DEF Pushed
  <2>2. t = [heap |-> t.heap, refs |-> t.refs, sane |-> t.sane]
    BY DEF Exact
  <2>. HIDE DEF M, R, u
  <2>3. u = [heap |-> M, refs |-> R, sane |-> t.sane]
    BY <2>1, <2>2
  <2>. QED  BY <2>3 DEF M, R
<1>3. e \in Entry /\ e.item_id = fd /\ e.ts_remaining = now + Timeout
  BY DEF Entry
<1>. HIDE DEF u, n, e
<1>4. /\ u.heap \in Seq(Entry) /\ Size(u) = n + 1 /\ Indices(u) = 0..n
      /\ \A i \in 0..n : Item(u, i) = IF i = n THEN e ELSE Item(t, i)
  <2>1. t.heap \in Seq(Entry)
    BY DEF Exact
  <2>2. u.heap \in Seq(Entry) /\ Len(u.heap) = n + 1
    BY <1>1, <1>2, <1>3, <2>1
  <2>3. ASSUME NEW i \in 0..n PROVE Item(u, i) = IF i = n THEN e ELSE Item(t, i)
    <3>1. i + 1 \in 1..(n + 1) /\ (i + 1 = n + 1 <=> i = n)
      BY <1>1
    <3>. QED  BY <1>1, <1>2, <1>3, <2>1, <3>1 DEF Item
  <2>. QED  BY <1>1, <2>2, <2>3 DEF Size, Indices
<1>5. \A i \in 0..n :
        /\ Id(u, i) = IF i = n THEN fd ELSE Id(t, i)
        /\ Ts(u, i) = IF i = n THEN now + Timeout ELSE Ts(t, i)
  BY <1>3, <1>4 DEF Id, Ts
<1>6. ASSUME NEW f \in DOMAIN t.refs
      PROVE  f # fd /\ u.refs[f] = t.refs[f] /\ t.refs[f] \in 0..(n - 1) /\ Id(t, t.refs[f]) = f
  BY <1>1, <1>2 DEF Exact
<1>7. Exact(u)
  <2>1. u.refs \in [DOMAIN u.refs -> Nat]
    <3>1. t.refs \in [DOMAIN t.refs -> Nat]
      BY DEF Exact
    <3>. QED  BY <1>1, <1>2, <3>1
  <2>2. ASSUME NEW i \in 0..n PROVE Id(u, i) \in DOMAIN u.refs /\ u.refs[Id(u, i)] = i
    <3>1. CASE i = n
      BY <1>1, <1>2, <1>5, <3>1
    <3>2. CASE i # n
      <4>1. i \in Indices(t)
        BY <1>1, <3>2
      <4>2. Id(t, i) \in DOMAIN t.refs /\ t.refs[Id(t, i)] = i
        BY <4>1 DEF Exact
      <4>. QED  BY <1>2, <1>5, <1>6, <3>2, <4>2
    <3>. QED  BY <3>1, <3>2
  <2>3. ASSUME NEW f \in DOMAIN u.refs PROVE u.refs[f] \in 0..n /\ Id(u, u.refs[f]) = f
    <3>1. CASE f = fd
      <4>1. u.refs[f] = n /\ n \in 0..n
        BY <1>1, <1>2, <3>1
      <4>. QED  BY <1>5, <3>1, <4>1
    <3>2. CASE f # fd
      <4>1. f \in DOMAIN t.refs
        BY <1>2, <3>2
      <4>2. u.refs[f] \in 0..n /\ u.refs[f] # n /\ Id(t, u.refs[f]) = f
        BY <1>1, <1>6, <4>1
      <4>. QED  BY <1>5, <4>2
    <3>. QED  BY <3>1, <3>2
  <2>. QED  BY <1>2, <1>4, <2>1, <2>2, <2>3 DEF Exact
<1>8. Due(u) = [f \in DOMAIN Due(t) \cup {fd} |-> IF f = fd THEN now + Timeout ELSE Due(t)[f]]
  <2>1. DOMAIN u.refs = DOMAIN t.refs \cup {fd} /\ u.refs[fd] = n /\ n \in 0..n
    BY <1>1, <1>2
  <2>2. Ts(u, u.refs[fd]) = now + Timeout
    BY <1>5, <2>1
  <2>3. ASSUME NEW f \in DOMAIN t.refs PROVE f # fd /\ Ts(u, u.refs[f]) = Ts(t, t.refs[f])
    <3>1. t.refs[f] \in 0..n /\ t.refs[f] # n
      BY <1>1, <1>6
    <3>. QED  BY <1>5, <1>6, <3>1
  <2>. QED  BY <2>1, <2>2, <2>3 DEF Due
<1>9. ASSUME Ordered(t, n) PROVE Upper(u, n, Size(u))
  <2>1. ASSUME NEW k \in 1..n
        PROVE  /\ k \in 0..n /\ Parent(k) \in 0..n /\ Parent(k) # n
               /\ k # n => k \in 1..(n - 1)
    <3>1. k \in Nat \ {0}
      BY <1>1
    <3>. QED  BY <1>1, <3>1, Parents
  <2>2. ASSUME NEW k \in 1..n, k # n PROVE Ts(u, Parent(k)) <= Ts(u, k)
    BY <1>5, <1>9, <2>1, <2>2 DEF Ordered
  <2>3. Size(u) - 1 = n
    BY <1>1, <1>4
  <2>. QED  BY <2>1, <2>2, <2>3 DEF Upper, Hole
<1>. QED  BY <1>4, <1>7, <1>8, <1>9 DEF u, n

-----------------------------------------------------------------------------
(***************************************************************************)
(* The invariant.                                                          *)
(***************************************************************************)
\* A time that was given before is not later than the one given now, which is what
\* ExtentTime_ counts on when it moves an entry down only.
Inv ==
  /\ now \in Nat /\ setBacks \in Nat
  /\ Exact(Here)
  /\ setBacks = 0 =>
       /\ Ordered(Here, Size(Here))
       /\ \A fd \in DOMAIN refs_ : Due(Here)[fd] <= now + Timeout

Set(d, fd)  == [f \in DOMAIN d \cup {fd} |-> IF f = fd THEN now + Timeout ELSE d[f]]
Without(d, fd) == [f \in DOMAIN d \ {fd} |-> d[f]]

LEMMA NextHere ==
  ASSUME NEW t, Exact(t), Becomes(t)
  PROVE  Here' = t /\ refs_' = t.refs
  BY DEF Exact, Becomes, Here

\* What the calls make of the entries.
LEMMA AddItemDone ==
  ASSUME Inv, NEW fd \in Fds, NEW earlier \in BOOLEAN, AddItem(fd, earlier)
  PROVE  /\ Exact(Here') /\ Due(Here') = Set(Due(Here), fd) /\ refs_' = Here'.refs
         /\ setBacks = 0 => Ordered(Here', Size(Here'))
<1>. DEFINE t == Here
<1>1. /\ Exact(t) /\ Size(t) \in Nat /\ Size(t) = Len(heap_) /\ t.refs = refs_
      /\ now + Timeout \in Int
      /\ setBacks = 0 => Ordered(t, Size(t))
  BY Items, TimerAssumption DEF Inv, Here, Size
<1>2. DOMAIN Due(t) = DOMAIN t.refs
  BY DEF Due
<1>. HIDE DEF t
<1>3. CASE fd \notin DOMAIN refs_
  <2>. DEFINE u == Pushed(t, fd)
              v == SiftUp_(u, Size(t), earlier)
  <2>1. /\ Exact(u) /\ Size(u) = Size(t) + 1 /\ Due(u) = Set(Due(t), fd)
        /\ Ordered(t, Size(t)) => Upper(u, Size(t), Size(u))
    <3>1. fd \in Fds \ DOMAIN t.refs
      BY <1>1, <1>3
    <3>2. /\ Exact(u) /\ Size(u) = Size(t) + 1
          /\ Due(u) = [f \in DOMAIN Due(t) \cup {fd} |->
                         IF f = fd THEN now + Timeout ELSE Due(t)[f]]
          /\ Ordered(t, Size(t)) => Upper(u, Size(t), Size(u))
      BY <1>1, <3>1, Pushes
    <3>. QED  BY <3>2 DEF Set
  <2>2. Becomes(v)
    BY <1>1, <1>3 DEF AddItem, t
  <2>. HIDE DEF u
  <2>3. Reordered(u, v, Size(u)) /\ (Upper(u, Size(t), Size(u)) => Ordered(v, Size(u)))
    <3>1. Size(u) \in 0..Size(u) /\ Size(t) \in 0..(Size(u) - 1)
      BY <1>1, <2>1
    <3>. QED  BY <2>1, <3>1, SiftsUp
  <2>. HIDE DEF v
  <2>4. Exact(v) /\ Due(v) = Due(u) /\ Size(v) = Size(u)
    BY <2>3 DEF Reordered
  <2>5. Here' = v /\ refs_' = v.refs
    BY <2>2, <2>4, NextHere
  <2>. QED  BY <1>1, <2>1, <2>3, <2>4, <2>5 DEF t
<1>4. CASE fd \in DOMAIN refs_
  <2>. DEFINE u == Retimed(t, fd)
              p == t.refs[fd]
              v == Settle(u, p, Size(t), earlier)
  <2>1. /\ Exact(u) /\ Size(u) = Size(t)
        /\ Due(u) = [f \in DOMAIN Due(t) |-> IF f = fd THEN now + Timeout ELSE Due(t)[f]]
        /\ Ordered(t, Size(t)) => Hole(u, p, Size(t))
    BY <1>1, <1>4, Retimes
  <2>2. Due(u) = Set(Due(t), fd)
    <3>1. DOMAIN Due(t) \cup {fd} = DOMAIN Due(t)
      BY <1>1, <1>2, <1>4
    <3>. QED  BY <2>1, <3>1 DEF Set
  <2>3. Becomes(v)
    BY <1>1, <1>4 DEF AddItem, t
  <2>4. Size(t) \in 0..Size(t) /\ p \in 0..(Size(t) - 1)
    BY <1>1, <1>4 DEF Exact, Indices
  <2>. HIDE DEF u, p
  <2>5. Reordered(u, v, Size(t)) /\ (Hole(u, p, Size(t)) => Ordered(v, Size(t)))
    BY <2>1, <2>4, Settles
  <2>. HIDE DEF v
  <2>6. Exact(v) /\ Due(v) = Due(u) /\ Size(v) = Size(t)
    BY <2>1, <2>5 DEF Reordered
  <2>7. Here' = v /\ refs_' = v.refs
    BY <2>3, <2>6, NextHere
  <2>. QED  BY <1>1, <2>1, <2>2, <2>5, <2>6, <2>7 DEF t
<1>. QED  BY <1>3, <1>4

LEMMA UpdateItemDone ==
  ASSUME Inv, NEW fd \in Fds, UpdateItem(fd)
  PROVE  /\ Exact(Here') /\ Due(Here') = Set(Due(Here), fd) /\ refs_' = Here'.refs
         /\ setBacks = 0 => Ordered(Here', Size(Here'))
<1>. DEFINE t == Here
            u == Retimed(t, fd)
            p == t.refs[fd]
            v == SiftDown_(u, p, Size(t)).timer
<1>1. /\ Exact(t) /\ Size(t) \in Nat /\ t.refs = refs_ /\ now + Timeout \in Int
      /\ fd \in DOMAIN t.refs
      /\ setBacks = 0 => Ordered(t, Size(t)) /\ Due(t)[fd] <= now + Timeout
  BY Items, TimerAssumption DEF Inv, Here, UpdateItem
<1>2. DOMAIN Due(t) = DOMAIN t.refs /\ Due(t)[fd] = Ts(t, p)
  BY <1>1 DEF Due
<1>. HIDE DEF t
<1>3. /\ Exact(u) /\ Size(u) = Size(t) /\ u.refs = t.refs
      /\ Due(u) = [f \in DOMAIN Due(t) |-> IF f = fd THEN now + Timeout ELSE Due(t)[f]]
      /\ Ordered(t, Size(t)) =>
           /\ Hole(u, p, Size(t))
           /\ Ts(t, p) <= now + Timeout => Lower(u, p, Size(t))
  BY <1>1, Retimes
<1>4. Due(u) = Set(Due(t), fd)
  <2>1. DOMAIN Due(t) \cup {fd} = DOMAIN Due(t)
    BY <1>1, <1>2
  <2>. QED  BY <1>3, <2>1 DEF Set
<1>5. Becomes(v)
  BY <1>3 DEF UpdateItem, Resettled, t
<1>6. Size(t) \in 0..Size(t) /\ p \in 0..(Size(t) - 1)
  BY <1>1 DEF Exact, Indices
<1>. HIDE DEF u, p
<1>7. Reordered(u, v, Size(t)) /\ (Lower(u, p, Size(t)) => Ordered(v, Size(t)))
  BY <1>3, <1>6, SiftsDown
<1>. HIDE DEF v
<1>8. Exact(v) /\ Due(v) = Due(u) /\ Size(v) = Size(t)
  BY <1>3, <1>7 DEF Reordered
<1>9. Here' = v /\ refs_' = v.refs
  BY <1>5, <1>8, NextHere
<1>. QED  BY <1>1, <1>2, <1>3, <1>4, <1>7, <1>8, <1>9 DEF t

LEMMA RemoveItemDone ==
  ASSUME Inv, NEW i \in Indices(Here), NEW earlier, Becomes(RemoveItem_(Here, i, earlier))
  PROVE  /\ Exact(Here') /\ Due(Here') = Without(Due(Here), Id(Here, i)) /\ refs_' = Here'.refs
         /\ setBacks = 0 => Ordered(Here', Size(Here'))
<1>. DEFINE t == Here
            u == RemoveItem_(t, i, earlier)
<1>1. /\ Exact(t) /\ i \in Indices(t) /\ Becomes(u)
      /\ setBacks = 0 => Ordered(t, Size(t))
  BY DEF Inv
<1>. HIDE DEF t
<1>2. /\ Exact(u) /\ Due(u) = Without(Due(t), Id(t, i))
      /\ Ordered(t, Size(t)) => Ordered(u, Size(u))
  BY <1>1, Removes DEF Without
<1>. HIDE DEF u
<1>3. Here' = u /\ refs_' = u.refs
  BY <1>1, <1>2, NextHere
<1>. QED  BY <1>1, <1>2, <1>3 DEF t

-----------------------------------------------------------------------------
LEMMA InitInv == Init => Inv /\ Abstract!Init
<1>. SUFFICES ASSUME Init PROVE Inv /\ Abstract!Init
  OBVIOUS
<1>1. /\ Here = [heap |-> <<>>, refs |-> <<>>, sane |-> TRUE] /\ Size(Here) = 0
      /\ now = 0 /\ setBacks = 0 /\ refs_ = <<>> /\ pc = "rest" /\ timeMS = -1
      /\ DOMAIN refs_ = {}
  BY DEF Init, Here, Size
<1>2. Exact(Here)
  BY <1>1 DEF Exact, Indices
<1>3. Ordered(Here, Size(Here))
  BY <1>1 DEF Ordered
<1>4. [fd \in DOMAIN refs_ |-> Item(Here, refs_[fd]).ts_remaining] = <<>>
  BY <1>1
<1>. QED  BY <1>1, <1>2, <1>3, <1>4 DEF Inv, Abstract!Init

LEMMA SetInv ==
  ASSUME Inv, NEW fd, Exact(Here'), Due(Here') = Set(Due(Here), fd), refs_' = Here'.refs,
         setBacks = 0 => Ordered(Here', Size(Here')), UNCHANGED <<now, setBacks>>
  PROVE  Inv'
<1>1. DOMAIN Due(Here) = DOMAIN refs_ /\ DOMAIN Due(Here') = DOMAIN refs_'
  <2>1. Here.refs = refs_
    BY DEF Here
  <2>. QED  BY <2>1 DEF Due
<1>2. ASSUME setBacks = 0, NEW f \in DOMAIN refs_' PROVE Due(Here')[f] <= now + Timeout
  <2>1. Due(Here')[f] = IF f = fd THEN now + Timeout ELSE Due(Here)[f]
    BY <1>1 DEF Set
  <2>2. f # fd => f \in DOMAIN refs_
    BY <1>1 DEF Set
  <2>. QED  BY <1>2, <2>1, <2>2, TimerAssumption DEF Inv
<1>. QED  BY <1>2 DEF Inv

LEMMA WithoutInv ==
  ASSUME Inv, NEW fd, Exact(Here'), Due(Here') = Without(Due(Here), fd), refs_' = Here'.refs,
         setBacks = 0 => Ordered(Here', Size(Here')), UNCHANGED <<now, setBacks>>
  PROVE  Inv'
<1>1. DOMAIN Due(Here) = DOMAIN refs_ /\ DOMAIN Due(Here') = DOMAIN refs_'
  <2>1. Here.refs = refs_
    BY DEF Here
  <2>. QED  BY <2>1 DEF Due
<1>2. ASSUME setBacks = 0, NEW f \in DOMAIN refs_' PROVE Due(Here')[f] <= now + Timeout
  BY <1>1, <1>2 DEF Without, Inv
<1>. QED  BY <1>2 DEF Inv

LEMMA InvStep == Inv /\ [Next]_vars => Inv'
<1>. SUFFICES ASSUME Inv, [Next]_vars PROVE Inv'
  OBVIOUS
<1>1. ASSUME NEW fd \in Fds, NEW earlier \in BOOLEAN, AddItem(fd, earlier) PROVE Inv'
  BY <1>1, AddItemDone, SetInv DEF AddItem
<1>2. ASSUME NEW fd \in Fds, UpdateItem(fd) PROVE Inv'
  BY <1>2, UpdateItemDone, SetInv DEF UpdateItem
<1>3. ASSUME NEW fd \in Fds, NEW earlier \in BOOLEAN, DoWork(fd, earlier) PROVE Inv'
  <2>1. /\ refs_[fd] \in Indices(Here) /\ Becomes(RemoveItem_(Here, refs_[fd], earlier))
        /\ UNCHANGED <<now, setBacks>>
    BY <1>3 DEF DoWork, Inv, Exact, Here
  <2>. QED  BY <2>1, RemoveItemDone, WithoutInv
<1>4. ASSUME NEW earlier \in BOOLEAN, ManageStaleItem_(earlier) PROVE Inv'
  <2>1. /\ 0 \in Indices(Here) /\ Becomes(RemoveItem_(Here, 0, earlier))
        /\ UNCHANGED <<now, setBacks>>
    BY <1>4, Items DEF ManageStaleItem_, Inv, Exact, Here, Indices, Size
  <2>. QED  BY <2>1, RemoveItemDone, WithoutInv
<1>5. CASE Clear
  <2>1. Here' = [heap |-> <<>>, refs |-> <<>>, sane |-> sane] /\ DOMAIN refs_' = {}
    BY <1>5 DEF Clear, Here
  <2>2. Exact(Here') /\ Ordered(Here', Size(Here'))
    BY <2>1 DEF Exact, Indices, Ordered, Size
  <2>. QED  BY <1>5, <2>1, <2>2 DEF Clear, Inv
<1>6. CASE GetNextTick \/ StaleItemsDone \/ Measure \/ UNCHANGED vars
  <2>1. UNCHANGED <<now, setBacks, timerVars>>
    BY <1>6 DEF GetNextTick, StaleItemsDone, Measure, vars
  <2>2. Here' = Here /\ refs_' = refs_
    BY <2>1 DEF timerVars, Here
  <2>. QED  BY <2>1, <2>2 DEF Inv
<1>7. CASE Tick
  <2>1. Here' = Here /\ refs_' = refs_ /\ setBacks' = setBacks /\ now' = now + 1 /\ now \in Nat
    BY <1>7 DEF Tick, timerVars, Here, Inv
  <2>2. ASSUME setBacks = 0, NEW fd \in DOMAIN refs_ PROVE Due(Here)[fd] <= now' + Timeout
    <3>1. Due(Here)[fd] <= now + Timeout
      BY <2>2 DEF Inv
    <3>2. Due(Here)[fd] \in Int
      <4>1. Here.refs[fd] \in Indices(Here) /\ fd \in DOMAIN Here.refs
        BY <2>2 DEF Inv, Exact, Here
      <4>. QED  BY <4>1, Items DEF Due, Inv
    <3>. QED  BY <2>1, <3>1, <3>2, TimerAssumption
  <2>. QED  BY <2>1, <2>2 DEF Inv
<1>8. CASE SetBack
  <2>1. /\ Here' = Here /\ refs_' = refs_ /\ setBacks' = setBacks + 1
        /\ now' \in Nat /\ setBacks \in Nat
    BY <1>8 DEF SetBack, timerVars, Here, Inv
  <2>. QED  BY <2>1 DEF Inv
<1>. QED  BY <1>1, <1>2, <1>3, <1>4, <1>5, <1>6, <1>7, <1>8 DEF Next

LEMMA Invariance == Spec => []Inv
  BY InitInv, InvStep, PTL DEF Spec

\* refs_ and heap_ agree after every call, and no entry is due before its parent as long as
\* the clock has not been set back: in a heap of any size.
THEOREM WellFormedCorrect == Spec => []WellFormed
<1>1. ASSUME Inv PROVE RefsExact /\ HeapOrder
  <2>1. /\ Size(Here) \in Nat /\ Size(Here) = Len(heap_) /\ Here.refs = refs_
        /\ Indices(Here) = 0..(Len(heap_) - 1)
    BY <1>1, Items DEF Inv, Here, Size, Indices
  <2>2. RefsExact
    BY <1>1, <2>1 DEF Inv, Exact, Id, RefsExact
  <2>3. ASSUME setBacks = 0, NEW i \in 1..(Len(heap_) - 1) PROVE ~Less(Here, i, Parent(i))
    <3>1. i \in Nat \ {0} /\ i \in Indices(Here)
      BY <2>1
    <3>2. Parent(i) \in Indices(Here)
      BY <2>1, <3>1, Parents
    <3>3. Ts(Here, Parent(i)) <= Ts(Here, i)
      BY <1>1, <2>1, <2>3 DEF Inv, Ordered
    <3>4. Ts(Here, Parent(i)) \in Int /\ Ts(Here, i) \in Int
      BY <1>1, <3>1, <3>2, Items DEF Inv
    <3>. QED  BY <3>3, <3>4 DEF Less, Ts
  <2>. QED  BY <2>2, <2>3 DEF HeapOrder
<1>2. Inv => WellFormed
  BY <1>1 DEF WellFormed
<1>. QED  BY Invariance, <1>2, PTL

-----------------------------------------------------------------------------
(***************************************************************************)
(* MinHeapTimer implements IdleTimer.                                      *)
(***************************************************************************)
LEMMA FrontFirst ==
  ASSUME NEW t, Exact(t), Ordered(t, Size(t)), NEW i \in Indices(t)
  PROVE  Ts(t, 0) <= Ts(t, i)
<1>. DEFINE T == {k \in Indices(t) : ~(Ts(t, 0) <= Ts(t, k))}
<1>1. Size(t) \in Nat /\ T \in SUBSET Nat /\ \A k \in Indices(t) : Ts(t, k) \in Int
  BY Items DEF Indices
<1>2. ASSUME T # {} PROVE FALSE
  <2>1. PICK m \in T : \A n \in T : m <= n
    BY <1>1, <1>2, Minimum, Zenon
  <2>2. m \in Nat \ {0} /\ m \in 1..(Size(t) - 1) /\ 0 \in Indices(t)
    BY <1>1, <2>1 DEF Indices
  <2>3. Parent(m) \in Indices(t) /\ Parent(m) < m /\ Parent(m) \in Nat /\ m \in Nat
    BY <1>1, <2>2, Parents DEF Indices
  <2>4. Parent(m) \notin T
    BY <2>1, <2>3
  <2>5. Ts(t, 0) <= Ts(t, Parent(m)) /\ Ts(t, Parent(m)) <= Ts(t, m) /\ ~(Ts(t, 0) <= Ts(t, m))
    BY <2>1, <2>2, <2>3, <2>4 DEF Ordered
  <2>. QED  BY <1>1, <2>1, <2>2, <2>3, <2>5
<1>. QED  BY <1>2

LEMMA DivGrows ==
  ASSUME NEW m \in Nat \ {0}, NEW a \in Nat, NEW b \in Nat, a <= b
  PROVE  a \div m \in Nat /\ b \div m \in Nat /\ a \div m <= b \div m
  OBVIOUS

\* Of two times the later is not the one that has come first, in milliseconds either.
LEMMA InMsecGrows ==
  ASSUME NEW a \in Int, NEW b \in Int, a <= b, InMsec(a) > 0
  PROVE  InMsec(b) > 0
<1>. USE TimerAssumption
<1>1. CASE a >= 0
  <2>1. a \in Nat /\ b \in Nat
    BY <1>1
  <2>2. a \div Msec <= b \div Msec /\ a \div Msec \in Nat /\ b \div Msec \in Nat
    BY <2>1, DivGrows
  <2>. QED  BY <2>1, <2>2 DEF InMsec
<1>2. CASE ~(a >= 0)
  <2>1. -a \in Nat
    BY <1>2
  <2>2. (-a) \div Msec \in Nat
    BY <2>1, DivGrows
  <2>. QED  BY <1>2, <2>2 DEF InMsec
<1>. QED  BY <1>1, <1>2

LEMMA SpecStep == Inv /\ Inv' /\ [Next]_vars => [Abstract!Next]_(Abstract!vars)
<1>. SUFFICES ASSUME Inv, Inv', [Next]_vars PROVE [Abstract!Next]_(Abstract!vars)
  OBVIOUS
<1>. DEFINE due == [fd \in DOMAIN refs_ |-> Item(Here, refs_[fd]).ts_remaining]
            steady == (setBacks = 0)
<1>1. due = Due(Here) /\ due' = Due(Here') /\ DOMAIN due = DOMAIN refs_ /\ Here.refs = refs_
  BY DEF Due, Here, Ts
<1>2. /\ Exact(Here) /\ now \in Nat /\ Size(Here) \in Nat /\ Size(Here) = Len(heap_)
      /\ heap_ # <<>> => 0 \in Indices(Here)
      /\ \A i \in Indices(Here) : Ts(Here, i) \in Int /\ Id(Here, i) \in Fds
      /\ \A i \in Indices(Here) : Id(Here, i) \in DOMAIN due /\ due[Id(Here, i)] = Ts(Here, i)
      /\ \A fd \in DOMAIN due : refs_[fd] \in Indices(Here) /\ due[fd] = Ts(Here, refs_[fd])
  <2>1. Exact(Here) /\ now \in Nat
    BY DEF Inv
  <2>2. Size(Here) \in Nat /\ Size(Here) = Len(heap_) /\ heap_ \in Seq(Entry)
    BY <2>1, Items DEF Here, Size, Exact
  <2>3. heap_ # <<>> => 0 \in Indices(Here)
    BY <2>2 DEF Indices
  <2>4. \A i \in Indices(Here) : Ts(Here, i) \in Int /\ Id(Here, i) \in Fds
    BY <2>1, Items
  <2>5. ASSUME NEW i \in Indices(Here)
        PROVE  Id(Here, i) \in DOMAIN due /\ due[Id(Here, i)] = Ts(Here, i)
    BY <1>1, <2>1 DEF Exact, Ts
  <2>6. ASSUME NEW fd \in DOMAIN due
        PROVE  refs_[fd] \in Indices(Here) /\ due[fd] = Ts(Here, refs_[fd])
    BY <1>1, <2>1 DEF Exact, Ts
  <2>. QED  BY <2>1, <2>2, <2>3, <2>4, <2>5, <2>6
<1>3. ASSUME heap_ # <<>>, steady, NEW fd \in DOMAIN due PROVE Ts(Here, 0) <= due[fd]
  BY <1>2, <1>3, FrontFirst DEF Inv
<1>4. heap_ = <<>> => due = <<>>
  <2>1. ASSUME heap_ = <<>> PROVE DOMAIN due = {}
    BY <1>2, <2>1 DEF Indices
  <2>. QED  BY <2>1
<1>. HIDE DEF due
<1>5. ASSUME NEW fd \in Fds, due' = Set(due, fd), pc = "rest",
             UNCHANGED <<now, setBacks, pc, timeMS>>
      PROVE  Abstract!Set(fd)
  BY <1>5 DEF Abstract!Set, Set, due
<1>6. ASSUME NEW fd \in Fds, NEW earlier \in BOOLEAN, AddItem(fd, earlier)
      PROVE  Abstract!Set(fd)
  <2>1. Due(Here') = Set(Due(Here), fd)
    BY <1>6, AddItemDone
  <2>2. pc = "rest" /\ UNCHANGED <<now, setBacks, pc, timeMS>>
    BY <1>6 DEF AddItem
  <2>. QED  BY <1>1, <1>5, <2>1, <2>2
<1>7. ASSUME NEW fd \in Fds, UpdateItem(fd) PROVE Abstract!Set(fd)
  <2>1. Due(Here') = Set(Due(Here), fd)
    BY <1>7, UpdateItemDone
  <2>2. pc = "rest" /\ UNCHANGED <<now, setBacks, pc, timeMS>>
    BY <1>7 DEF UpdateItem
  <2>. QED  BY <1>1, <1>5, <2>1, <2>2
<1>8. ASSUME NEW fd \in Fds, NEW earlier \in BOOLEAN, DoWork(fd, earlier)
      PROVE  Abstract!Drop(fd)
  <2>1. /\ fd \in DOMAIN refs_ /\ pc = "rest" /\ UNCHANGED <<now, setBacks, pc, timeMS>>
        /\ Becomes(RemoveItem_(Here, refs_[fd], earlier))
    BY <1>8 DEF DoWork
  <2>2. refs_[fd] \in Indices(Here) /\ Id(Here, refs_[fd]) = fd
    BY <1>1, <1>2, <2>1 DEF Exact
  <2>3. due' = Without(due, fd)
    BY <1>1, <2>1, <2>2, RemoveItemDone
  <2>. QED  BY <1>1, <2>1, <2>3 DEF Abstract!Drop, Abstract!Without, Without, due
<1>9. ASSUME NEW earlier \in BOOLEAN, ManageStaleItem_(earlier)
      PROVE  \E fd \in Fds : Abstract!End(fd)
  <2>. DEFINE fd == Id(Here, 0)
  <2>1. /\ heap_ # <<>> /\ pc = "sweep" /\ UNCHANGED <<now, setBacks, pc, timeMS>>
        /\ FrontStale /\ Becomes(RemoveItem_(Here, 0, earlier))
    BY <1>9 DEF ManageStaleItem_
  <2>2. 0 \in Indices(Here) /\ fd \in Fds /\ fd \in DOMAIN due /\ due[fd] = Ts(Here, 0)
    BY <1>2, <2>1
  <2>3. due' = Without(due, fd)
    BY <1>1, <2>1, <2>2, RemoveItemDone
  <2>4. InMsec(due[fd] - now) <= 0
    BY <2>1, <2>2 DEF FrontStale, FrontMsec, Ts
  <2>5. steady => \A f \in DOMAIN due : due[fd] <= due[f]
    BY <1>3, <2>1, <2>2
  <2>. HIDE DEF fd
  <2>6. Abstract!End(fd)
    BY <2>1, <2>2, <2>3, <2>4, <2>5
    DEF Abstract!End, Abstract!Stale, Abstract!First, Abstract!Without, Abstract!InMsec, InMsec,
        Without, due
  <2>. QED  BY <2>2, <2>6
<1>10. CASE Clear
  <2>1. due' = <<>>
    BY <1>10 DEF Clear, due
  <2>2. Abstract!DropAll
    BY <1>10, <2>1 DEF Clear, Abstract!DropAll, due
  <2>. QED  BY <2>2 DEF Abstract!Next
<1>11. UNCHANGED timerVars => due' = due
  BY DEF timerVars, due, Here
<1>12. CASE GetNextTick
  <2>1. due' = due
    BY <1>11, <1>12 DEF GetNextTick
  <2>2. Abstract!Sweep
    BY <1>12, <2>1 DEF GetNextTick, Abstract!Sweep, due
  <2>. QED  BY <2>2 DEF Abstract!Next
<1>13. CASE StaleItemsDone
  <2>1. due' = due
    BY <1>11, <1>13 DEF StaleItemsDone
  <2>2. ASSUME steady, NEW f \in DOMAIN due PROVE ~(InMsec(due[f] - now) <= 0)
    <3>1. heap_ # <<>>
      BY <1>4, <2>2
    <3>2. InMsec(Ts(Here, 0) - now) > 0
      <4>1. ~(InMsec(Ts(Here, 0) - now) <= 0)
        BY <1>13, <3>1 DEF StaleItemsDone, FrontStale, FrontMsec, Ts
      <4>2. Ts(Here, 0) - now \in Int
        BY <1>2, <3>1
      <4>3. InMsec(Ts(Here, 0) - now) \in Int
        BY <4>2, TimerAssumption DEF InMsec
      <4>. QED  BY <4>1, <4>3
    <3>3. /\ Ts(Here, 0) - now \in Int /\ due[f] - now \in Int
          /\ Ts(Here, 0) - now <= due[f] - now
      BY <1>2, <1>3, <2>2, <3>1
    <3>4. InMsec(due[f] - now) > 0
      BY <3>2, <3>3, InMsecGrows
    <3>5. InMsec(due[f] - now) \in Int
      BY <3>3, TimerAssumption DEF InMsec
    <3>. QED  BY <3>4, <3>5
  <2>3. Abstract!Swept
    BY <1>13, <2>1, <2>2
    DEF StaleItemsDone, Abstract!Swept, Abstract!Stale, Abstract!InMsec, InMsec, due
  <2>. QED  BY <2>3 DEF Abstract!Next
<1>14. CASE Measure
  <2>1. due' = due
    BY <1>11, <1>14 DEF Measure
  <2>2. CASE heap_ = <<>>
    <3>1. due = <<>> /\ timeMS' = -1
      BY <1>4, <1>14, <2>2 DEF Measure
    <3>2. Abstract!Measure
      BY <1>14, <2>1, <3>1 DEF Measure, Abstract!Measure, due
    <3>. QED  BY <3>2 DEF Abstract!Next
  <2>3. CASE heap_ # <<>>
    <3>. DEFINE fd == Id(Here, 0)
    <3>1. fd \in DOMAIN due /\ due[fd] = Ts(Here, 0)
      BY <1>2, <2>3
    <3>2. timeMS' = InMsec(due[fd] - now)
      BY <1>14, <2>3, <3>1 DEF Measure, FrontMsec, Ts
    <3>3. steady => \A f \in DOMAIN due : due[fd] <= due[f]
      BY <1>3, <2>3, <3>1
    <3>. HIDE DEF fd
    <3>4. Abstract!Measure
      BY <1>14, <2>1, <3>1, <3>2, <3>3
      DEF Measure, Abstract!Measure, Abstract!First, Abstract!InMsec, InMsec, due
    <3>. QED  BY <3>4 DEF Abstract!Next
  <2>. QED  BY <2>2, <2>3
<1>15. CASE Tick \/ SetBack
  <2>1. due' = due
    BY <1>11, <1>15 DEF Tick, SetBack
  <2>2. now' # now /\ (steady' <=> steady /\ now' > now) /\ UNCHANGED <<pc, timeMS>>
    BY <1>15 DEF Tick, SetBack, Inv
  <2>3. steady' = (steady /\ now' > now)
    BY <2>2
  <2>4. Abstract!Clock
    BY <2>1, <2>2, <2>3 DEF Abstract!Clock, due
  <2>. QED  BY <2>4 DEF Abstract!Next
<1>16. CASE UNCHANGED vars
  <2>1. due' = due /\ UNCHANGED <<now, setBacks, pc, timeMS>>
    BY <1>11, <1>16 DEF vars
  <2>. QED  BY <2>1 DEF Abstract!vars, due
<1>17. ASSUME NEW fd \in Fds, Abstract!Set(fd) \/ Abstract!Drop(fd) \/ Abstract!End(fd)
       PROVE  Abstract!Next
  BY <1>17 DEF Abstract!Next
<1>. QED
  BY <1>6, <1>7, <1>8, <1>9, <1>10, <1>12, <1>13, <1>14, <1>15, <1>16, <1>17 DEF Next

\* Every step of the heap is a step of the idle timer or none: whatever the callers do and
\* in whatever order the entries lie, each call touches its own entry only, entries end in
\* the order of their times, and none that is due is passed over.
THEOREM TimerImplemented == Spec => TimerSpec
<1>1. Inv /\ Inv' /\ [Next]_vars => [sane' => Abstract!Next]_(Abstract!vars)
  BY SpecStep
<1>. QED  BY InitInv, Invariance, <1>1, PTL DEF Spec, TimerSpec
=============================================================================
