-------------------------- MODULE TaskSchedule_proofs --------------------------
(***************************************************************************)
(* Proofs about TaskGraph, the calls of a TaskGraph and TaskSchedule, for  *)
(* any number of units, tasks and places.                                  *)
(***************************************************************************)
EXTENDS TaskSchedule, TaskGraphCalls, FiniteSetTheorems, SequenceTheorems, TLAPS

-----------------------------------------------------------------------------
(***************************************************************************)
(* TaskGraph.                                                              *)
(***************************************************************************)
\* In this section D is the set of the tasks that are done.
Shape(g) ==
  /\ g = [deps |-> g.deps, out_degree |-> g.out_degree, todo_tasks_ |-> g.todo_tasks_]
  /\ DOMAIN g.out_degree = Tasks(g)
  /\ \A t \in Tasks(g) : IsFiniteSet(g.deps[t])

\* What is done had its dependencies done.
Order(g, D) == D \subseteq Tasks(g) /\ \A t \in D : g.deps[t] \subseteq D

\* out_degree counts the dependencies that are not done.
Counts(g, D) == \A t \in Tasks(g) : g.out_degree[t] = Cardinality(g.deps[t] \ D)

Ready(g, D) == {t \in Tasks(g) \ D : g.deps[t] \subseteq D}

Exact(g, D) == Shape(g) /\ Order(g, D) /\ Counts(g, D)

LEMMA Missing ==
  ASSUME NEW g, Shape(g), NEW t \in Tasks(g), NEW D
  PROVE  /\ IsFiniteSet(g.deps[t] \ D) /\ Cardinality(g.deps[t] \ D) \in Nat
         /\ Cardinality(g.deps[t] \ D) = 0 <=> g.deps[t] \subseteq D
<1>1. IsFiniteSet(g.deps[t] \ D)
  BY FS_Subset DEF Shape
<1>. QED  BY <1>1, FS_EmptySet, FS_CardinalityType

\* Before anything is done the tasks without dependencies are ready.
LEMMA InitReady ==
  ASSUME NEW g, Exact(g, {})
  PROVE  /\ InitGraph(g).todo_tasks_ = Ready(InitGraph(g), {}) /\ Exact(InitGraph(g), {})
         /\ InitGraph(g).deps = g.deps
<1>1. /\ InitGraph(g).deps = g.deps /\ InitGraph(g).out_degree = g.out_degree
      /\ InitGraph(g).todo_tasks_ = WithoutDeps(g)
      /\ InitGraph(g) = [deps |-> g.deps, out_degree |-> g.out_degree,
                         todo_tasks_ |-> WithoutDeps(g)]
  BY DEF InitGraph, Exact, Shape
<1>2. Tasks(InitGraph(g)) = Tasks(g)
  BY <1>1 DEF Tasks
<1>3. Exact(InitGraph(g), {})
  BY <1>1, <1>2 DEF Exact, Shape, Order, Counts
<1>4. \A t \in Tasks(g) : g.out_degree[t] = 0 <=> g.deps[t] \subseteq {}
  BY Missing DEF Exact, Counts
<1>. QED  BY <1>1, <1>2, <1>3, <1>4 DEF WithoutDeps, Ready

\* A ready task is taken away from the dependencies of the others, and what that frees
\* are the tasks that wait for nothing else.
LEMMA Marked ==
  ASSUME NEW g, NEW D, Exact(g, D), g.todo_tasks_ = Ready(g, D), NEW name \in g.todo_tasks_
  PROVE  /\ Exact(MarkTaskDone(g, name), D \cup {name})
         /\ MarkTaskDone(g, name).todo_tasks_ = Ready(MarkTaskDone(g, name), D \cup {name})
         /\ MarkTaskDone(g, name).deps = g.deps
<1>. DEFINE h == MarkTaskDone(g, name)
            E == D \cup {name}
<1>1. /\ h.deps = g.deps /\ h.out_degree = Decremented(g, g.out_degree, name)
      /\ h.todo_tasks_ = (g.todo_tasks_ \ {name}) \cup Freed(g, g.out_degree, name)
      /\ h = [deps |-> h.deps, out_degree |-> h.out_degree, todo_tasks_ |-> h.todo_tasks_]
  BY DEF MarkTaskDone, Exact, Shape
<1>. HIDE DEF h
<1>2. Tasks(h) = Tasks(g)
  BY <1>1 DEF Tasks
<1>3. name \in Tasks(g) /\ name \notin D /\ g.deps[name] \subseteq D
  BY DEF Ready
<1>4. Shape(h)
  BY <1>1, <1>2 DEF Exact, Shape, Decremented
<1>5. Order(h, E)
  BY <1>1, <1>2, <1>3 DEF Exact, Order
\* The dependencies that remain, and their number.
<1>6. ASSUME NEW t \in Tasks(g)
      PROVE  /\ name \in g.deps[t] => Cardinality(g.deps[t] \ E) = Cardinality(g.deps[t] \ D) - 1
             /\ name \notin g.deps[t] => g.deps[t] \ E = g.deps[t] \ D
  <2>1. g.deps[t] \ E = (g.deps[t] \ D) \ {name}
    OBVIOUS
  <2>2. name \in g.deps[t] =>
          Cardinality((g.deps[t] \ D) \ {name}) = Cardinality(g.deps[t] \ D) - 1
    <3>1. IsFiniteSet(g.deps[t] \ D)
      BY Missing DEF Exact
    <3>2. name \in g.deps[t] => name \in g.deps[t] \ D
      BY <1>3
    <3>. QED  BY <3>1, <3>2, FS_RemoveElement
  <2>. QED  BY <2>1, <2>2
<1>7. Counts(h, E)
  <2>1. ASSUME NEW t \in Tasks(g)
        PROVE  h.out_degree[t] = Cardinality(g.deps[t] \ E)
    <3>1. h.out_degree[t] = IF name \in g.deps[t] THEN g.out_degree[t] - 1 ELSE g.out_degree[t]
      BY <1>1 DEF Decremented, InEdges
    <3>2. g.out_degree[t] = Cardinality(g.deps[t] \ D)
      BY DEF Exact, Counts
    <3>3. CASE name \in g.deps[t]
      BY <3>1, <3>2, <1>6, <3>3
    <3>4. CASE name \notin g.deps[t]
      <4>1. Cardinality(g.deps[t] \ E) = Cardinality(g.deps[t] \ D)
        BY <1>6, <3>4
      <4>. QED  BY <3>1, <3>2, <3>4, <4>1
    <3>. QED  BY <3>3, <3>4
  <2>. QED  BY <1>1, <1>2, <2>1 DEF Counts
<1>8. \A t \in Tasks(g) :
        t \in Freed(g, g.out_degree, name) <=> name \in g.deps[t] /\ g.deps[t] \subseteq E
  <2>1. ASSUME NEW t \in Tasks(g), name \in g.deps[t]
        PROVE  g.out_degree[t] = 1 <=> g.deps[t] \subseteq E
    <3>1. g.out_degree[t] = Cardinality(g.deps[t] \ D)
      BY DEF Exact, Counts
    <3>2. Cardinality(g.deps[t] \ E) = g.out_degree[t] - 1
      BY <1>6, <2>1, <3>1
    <3>3. Shape(g)
      BY DEF Exact
    <3>4. Cardinality(g.deps[t] \ E) = 0 <=> g.deps[t] \subseteq E
      BY <3>3, Missing
    <3>5. g.out_degree[t] \in Nat
      <4>1. Cardinality(g.deps[t] \ D) \in Nat
        BY <3>3, Missing
      <4>. QED  BY <3>1, <4>1
    <3>. QED  BY <3>2, <3>4, <3>5
  <2>. QED  BY <2>1 DEF Freed, InEdges
<1>9. \A t \in Tasks(g) : name \in g.deps[t] => t \notin E /\ ~(g.deps[t] \subseteq D)
  <2>1. \A t \in D : name \notin g.deps[t]
    BY <1>3 DEF Exact, Order
  <2>2. name \notin g.deps[name]
    BY <1>3
  <2>. QED  BY <1>3, <2>1, <2>2
<1>10. \A t : t \in h.todo_tasks_ <=> t \in Tasks(g) /\ t \notin E /\ g.deps[t] \subseteq E
  <2>1. \A t : t \in Freed(g, g.out_degree, name) => t \in Tasks(g)
    BY DEF Freed, InEdges
  <2>2. \A t : t \in h.todo_tasks_ <=>
                 (t \in g.todo_tasks_ /\ t # name) \/ t \in Freed(g, g.out_degree, name)
    BY <1>1
  <2>3. \A t \in Tasks(g) :
          name \notin g.deps[t] => (g.deps[t] \subseteq E <=> g.deps[t] \subseteq D)
    OBVIOUS
  <2>. QED  BY <1>8, <1>9, <2>1, <2>2, <2>3 DEF Ready
<1>11. h.todo_tasks_ = Ready(h, E)
  BY <1>1, <1>2, <1>10 DEF Ready
<1>12. Exact(h, E)
  BY <1>4, <1>5, <1>7 DEF Exact
<1>. QED  BY <1>1, <1>11, <1>12 DEF h

-----------------------------------------------------------------------------
(***************************************************************************)
(* Induction, without an operator as a parameter: over a set of numbers.   *)
(***************************************************************************)
LEMMA Minimum ==
  ASSUME NEW T \in SUBSET Nat, T # {}
  PROVE  \E m \in T : \A n \in T : m <= n
<1>1. IsWellFoundedOn(OpToRel(<, Nat), Nat)
  BY NatLessThanWellFounded
<1>2. PICK m \in T : \A n \in T : ~ (<<n, m>> \in OpToRel(<, Nat))
  BY <1>1, WFMin
<1>3. \A n \in T : ~(n < m)
  BY <1>2 DEF OpToRel
<1>. QED  BY <1>3

LEMMA Induction ==
  ASSUME NEW I, 0 \in I, \A n \in Nat : n \in I => n + 1 \in I
  PROVE  \A n \in Nat : n \in I
<1>1. ASSUME Nat \ I # {} PROVE FALSE
  <2>1. PICK m \in Nat \ I : \A n \in Nat \ I : m <= n
    BY <1>1, Minimum
  <2>2. m # 0 /\ m - 1 \in Nat /\ m - 1 < m
    BY <2>1
  <2>3. m - 1 \in I
    BY <2>1, <2>2
  <2>4. m = (m - 1) + 1
    BY <2>1
  <2>. QED  BY <2>1, <2>2, <2>3, <2>4
<1>. QED  BY <1>1

-----------------------------------------------------------------------------
(***************************************************************************)
(* Turns is what its recursive definition says.                            *)
(***************************************************************************)
IsRun(g, f, n) == f = [i \in 0..n |-> IF i = 0 THEN Sorting(g) ELSE Turn(g, f[i - 1])]

LEMMA RunsExist ==
  ASSUME NEW g, NEW n \in Nat PROVE \E f : IsRun(g, f, n)
<1>. DEFINE I == {k \in Nat : \E f : IsRun(g, f, k)}
<1>1. 0 \in I
  <2>1. IsRun(g, [i \in 0..0 |-> Sorting(g)], 0)
    BY DEF IsRun
  <2>. QED  BY <2>1
<1>2. ASSUME NEW k \in Nat, k \in I PROVE k + 1 \in I
  <2>1. PICK f : IsRun(g, f, k)
    BY <1>2
  <2>. DEFINE h == [i \in 0..(k + 1) |-> IF i = k + 1 THEN Turn(g, f[k]) ELSE f[i]]
  <2>2. ASSUME NEW i \in 0..(k + 1)
        PROVE  h[i] = IF i = 0 THEN Sorting(g) ELSE Turn(g, h[i - 1])
    <3>1. CASE i = k + 1
      BY <3>1
    <3>2. CASE i \in 0..k
      <4>1. h[i] = f[i] /\ (i # 0 => i - 1 \in 0..k /\ h[i - 1] = f[i - 1])
        BY <3>2
      <4>2. f[i] = IF i = 0 THEN Sorting(g) ELSE Turn(g, f[i - 1])
        BY <2>1, <3>2 DEF IsRun
      <4>. QED  BY <4>1, <4>2
    <3>. QED  BY <3>1, <3>2
  <2>3. h = [i \in 0..(k + 1) |-> h[i]]
    OBVIOUS
  <2>. HIDE DEF h
  <2>4. IsRun(g, h, k + 1)
    BY <2>2, <2>3 DEF IsRun
  <2>. QED  BY <2>4
<1>. HIDE DEF I
<1>3. n \in I
  BY <1>1, <1>2, Induction
<1>. QED  BY <1>3 DEF I

LEMMA RunsAgree ==
  ASSUME NEW g, NEW n \in Nat, NEW m \in Nat, n <= m, NEW f, IsRun(g, f, n), NEW h, IsRun(g, h, m)
  PROVE  \A i \in 0..n : f[i] = h[i]
<1>. DEFINE I == {i \in Nat : i <= n => f[i] = h[i]}
<1>1. 0 \in I
  BY DEF IsRun
<1>2. ASSUME NEW k \in Nat, k \in I PROVE k + 1 \in I
  <2>1. CASE k + 1 <= n
    <3>1. k <= n /\ f[k] = h[k] /\ k + 1 \in 0..n /\ k + 1 \in 0..m /\ (k + 1) - 1 = k /\ k + 1 # 0
      BY <1>2, <2>1
    <3>2. f[k + 1] = Turn(g, f[k]) /\ h[k + 1] = Turn(g, h[k])
      BY <3>1 DEF IsRun
    <3>. QED  BY <3>1, <3>2
  <2>2. CASE ~(k + 1 <= n)
    BY <2>2
  <2>. QED  BY <2>1, <2>2
<1>. HIDE DEF I
<1>3. \A i \in Nat : i \in I
  BY <1>1, <1>2, Induction
<1>. QED  BY <1>3 DEF I

LEMMA TurnsUnfold ==
  ASSUME NEW g
  PROVE  /\ Turns(g)[0] = Sorting(g)
         /\ \A n \in Nat : Turns(g)[n + 1] = Turn(g, Turns(g)[n])
<1>. DEFINE run(n) == CHOOSE f : IsRun(g, f, n)
            all == [n \in Nat |-> run(n)[n]]
<1>1. \A n \in Nat : IsRun(g, run(n), n)
  BY RunsExist
<1>. HIDE DEF run
<1>2. ASSUME NEW n \in Nat
      PROVE  all[n] = IF n = 0 THEN Sorting(g) ELSE Turn(g, all[n - 1])
  <2>1. run(n)[n] = IF n = 0 THEN Sorting(g) ELSE Turn(g, run(n)[n - 1])
    BY <1>1 DEF IsRun
  <2>2. CASE n = 0
    BY <2>1, <2>2
  <2>3. CASE n # 0
    <3>1. n - 1 \in Nat /\ n - 1 <= n /\ n - 1 \in 0..(n - 1)
      BY <2>3
    <3>2. run(n - 1)[n - 1] = run(n)[n - 1]
      BY <1>1, <3>1, RunsAgree
    <3>. QED  BY <2>1, <2>3, <3>1, <3>2
  <2>. QED  BY <2>2, <2>3
<1>3. all = [n \in Nat |-> IF n = 0 THEN Sorting(g) ELSE Turn(g, all[n - 1])]
  <2>1. all = [n \in Nat |-> all[n]]
    OBVIOUS
  <2>. HIDE DEF all
  <2>. QED  BY <1>2, <2>1
<1>. HIDE DEF all
<1>4. Turns(g) = [n \in Nat |-> IF n = 0 THEN Sorting(g) ELSE Turn(g, Turns(g)[n - 1])]
  BY <1>3 DEF Turns
<1>5. Turns(g)[0] = Sorting(g)
  BY <1>4
<1>6. ASSUME NEW n \in Nat PROVE Turns(g)[n + 1] = Turn(g, Turns(g)[n])
  <2>1. n + 1 \in Nat /\ n + 1 # 0 /\ (n + 1) - 1 = n
    OBVIOUS
  <2>. QED  BY <1>4, <2>1
<1>. QED  BY <1>5, <1>6

-----------------------------------------------------------------------------
(***************************************************************************)
(* Sequences that list a set, every element once.                          *)
(***************************************************************************)
Lists(q, S) ==
  /\ q \in Seq(S)
  /\ \A x \in S : \E i \in 1..Len(q) : q[i] = x
  /\ \A i, j \in 1..Len(q) : q[i] = q[j] => i = j

LEMMA ListsFront ==
  ASSUME NEW S, NEW q, Lists(q, S), q # <<>>
  PROVE  Last(q) \in S /\ Lists(Front(q), S \ {Last(q)})
<1>. DEFINE n == Len(q)
            x == Last(q)
            f == Front(q)
<1>1. /\ q \in Seq(S) /\ n \in Nat /\ n # 0 /\ x = q[n] /\ n \in 1..n
      /\ \A i \in 1..n : q[i] \in S
  BY DEF Lists, Last
<1>. HIDE DEF n, x
<1>2. f \in Seq(S) /\ Len(f) = n - 1 /\ \A i \in 1..(n - 1) : f[i] = q[i]
  <2>1. f = SubSeq(q, 1, n - 1)
    BY DEF Front, n
  <2>2. \A i \in 1..(n - 1) : q[i] \in S
    BY <1>1
  <2>. HIDE DEF f
  <2>3. 1 \in Int /\ n - 1 \in Int
    BY <1>1
  <2>4. /\ f \in Seq(S) /\ Len(f) = IF 1 <= n - 1 THEN (n - 1) - 1 + 1 ELSE 0
        /\ \A i \in 1..((n - 1) - 1 + 1) : f[i] = q[1 + i - 1]
    BY <2>1, <2>2, <2>3, SubSeqProperties
  <2>5. \A i \in 1..(n - 1) : i \in 1..((n - 1) - 1 + 1) /\ 1 + i - 1 = i
    BY <1>1
  <2>. QED  BY <1>1, <2>4, <2>5
<1>. HIDE DEF f
<1>3. \A i \in 1..(n - 1) : i \in 1..n /\ i # n /\ f[i] = q[i]
  BY <1>1, <1>2
<1>4. \A i \in 1..(n - 1) : f[i] \in S /\ f[i] # x
  BY <1>1, <1>3 DEF Lists, n
<1>5. f \in Seq(S \ {x})
  BY <1>1, <1>2, <1>4
<1>6. ASSUME NEW y \in S \ {x} PROVE \E i \in 1..Len(f) : f[i] = y
  <2>1. PICK i \in 1..n : q[i] = y
    BY <1>6 DEF Lists, n
  <2>2. i \in 1..(n - 1)
    BY <1>1, <1>6, <2>1
  <2>. QED  BY <1>2, <1>3, <2>1, <2>2
<1>7. \A i, j \in 1..Len(f) : f[i] = f[j] => i = j
  BY <1>2, <1>3 DEF Lists, n
<1>. QED  BY <1>1, <1>5, <1>6, <1>7 DEF Lists, f, x

LEMMA ListsConcat ==
  ASSUME NEW S, NEW T, S \cap T = {}, NEW q, Lists(q, S), NEW r, Lists(r, T)
  PROVE  Lists(q \o r, S \cup T)
<1>. DEFINE n == Len(q)
            m == Len(r)
            c == q \o r
<1>1. /\ q \in Seq(S) /\ r \in Seq(T) /\ n \in Nat /\ m \in Nat
      /\ \A i \in 1..n : q[i] \in S
      /\ \A i \in 1..m : r[i] \in T
  BY DEF Lists
<1>2. q \in Seq(S \cup T) /\ r \in Seq(S \cup T)
  BY <1>1
<1>3. /\ c \in Seq(S \cup T) /\ Len(c) = n + m
      /\ \A i \in 1..n : c[i] = q[i]
      /\ \A i \in (n + 1)..(n + m) : c[i] = r[i - n]
  BY <1>1, <1>2
<1>. HIDE DEF c, n, m
<1>4. \A i \in 1..Len(c) : i \in 1..n \/ (i \in (n + 1)..(n + m) /\ i - n \in 1..m)
  BY <1>1, <1>3
<1>5. ASSUME NEW x \in S \cup T PROVE \E i \in 1..Len(c) : c[i] = x
  <2>1. CASE x \in S
    <3>1. PICK i \in 1..n : q[i] = x
      BY <2>1 DEF Lists, n
    <3>. QED  BY <1>1, <1>3, <3>1
  <2>2. CASE x \in T
    <3>1. PICK i \in 1..m : r[i] = x
      BY <2>2 DEF Lists, m
    <3>2. n + i \in (n + 1)..(n + m) /\ (n + i) - n = i /\ n + i \in 1..Len(c)
      BY <1>1, <1>3, <3>1
    <3>3. c[n + i] = x
      BY <1>3, <3>1, <3>2
    <3>. QED  BY <3>2, <3>3
  <2>. QED  BY <2>1, <2>2
<1>6. ASSUME NEW i \in 1..Len(c), NEW j \in 1..Len(c), c[i] = c[j] PROVE i = j
  <2>1. CASE i \in 1..n /\ j \in 1..n
    BY <1>3, <1>6, <2>1 DEF Lists, n
  <2>2. CASE i \notin 1..n /\ j \notin 1..n
    <3>1. i - n \in 1..m /\ j - n \in 1..m /\ r[i - n] = r[j - n]
      BY <1>3, <1>4, <1>6, <2>2
    <3>2. i - n = j - n
      BY <3>1 DEF Lists, m
    <3>. QED  BY <1>1, <1>3, <3>2
  <2>3. CASE ~(i \in 1..n <=> j \in 1..n)
    <3>1. (c[i] \in S /\ c[j] \in T) \/ (c[i] \in T /\ c[j] \in S)
      BY <1>1, <1>3, <1>4, <2>3
    <3>. QED  BY <1>6, <3>1
  <2>. QED  BY <2>1, <2>2, <2>3
<1>. QED  BY <1>3, <1>5, <1>6 DEF Lists, c

\* How many elements are less than one of a set of numbers.
Rank(S, t) == Cardinality({s \in S : s < t})

LEMMA RankGrows ==
  ASSUME NEW S \in SUBSET Nat, IsFiniteSet(S)
  PROVE  /\ \A t \in S : Rank(S, t) \in 0..(Cardinality(S) - 1)
         /\ \A t, r \in S : r < t => Rank(S, r) < Rank(S, t)
<1>. DEFINE Below(t) == {s \in S : s < t}
<1>1. ASSUME NEW t \in S
      PROVE  /\ IsFiniteSet(Below(t)) /\ Cardinality(Below(t)) \in Nat
             /\ Cardinality(Below(t)) < Cardinality(S)
  <2>1. t \notin Below(t) /\ Below(t) \in SUBSET S
    <3>1. t \in Nat
      OBVIOUS
    <3>2. ~(t < t)
      BY <3>1
    <3>. QED  BY <3>2
  <2>2. /\ IsFiniteSet(Below(t)) /\ Cardinality(Below(t)) <= Cardinality(S)
        /\ Cardinality(S) = Cardinality(Below(t)) => S = Below(t)
    BY <2>1, FS_Subset
  <2>3. Cardinality(Below(t)) \in Nat /\ Cardinality(S) \in Nat
    BY <2>2, FS_CardinalityType
  <2>. QED  BY <2>1, <2>2, <2>3
<1>2. ASSUME NEW t \in S, NEW r \in S, r < t PROVE Cardinality(Below(r)) < Cardinality(Below(t))
  <2>1. Below(r) \subseteq Below(t) /\ r \in Below(t) /\ r \notin Below(r)
    <3>1. S \subseteq Nat /\ t \in Nat /\ r \in Nat
      OBVIOUS
    <3>2. \A s \in Nat : s < r => s < t
      BY <1>2, <3>1
    <3>3. ~(r < r)
      BY <3>1
    <3>. QED  BY <1>2, <3>1, <3>2, <3>3
  <2>2. /\ Cardinality(Below(r)) <= Cardinality(Below(t))
        /\ Cardinality(Below(t)) = Cardinality(Below(r)) => Below(t) = Below(r)
    BY <1>1, <2>1, FS_Subset
  <2>. QED  BY <1>1, <2>1, <2>2
<1>3. Cardinality(S) \in Nat
  BY FS_CardinalityType
<1>4. \A t \in S : Rank(S, t) = Cardinality(Below(t))
  BY DEF Rank
<1>. HIDE DEF Below
<1>. QED  BY <1>1, <1>2, <1>3, <1>4

\* So different elements have different ranks.
LEMMA RankInjective ==
  ASSUME NEW S \in SUBSET Nat, IsFiniteSet(S)
  PROVE  \A t, r \in S : Rank(S, t) = Rank(S, r) => t = r
<1>. SUFFICES ASSUME NEW t \in S, NEW r \in S, Rank(S, t) = Rank(S, r) PROVE t = r
  OBVIOUS
<1>1. Rank(S, t) \in Int /\ Rank(S, r) \in Int /\ t \in Nat /\ r \in Nat
  BY RankGrows
<1>2. ~(t < r) /\ ~(r < t)
  BY <1>1, RankGrows
<1>. QED  BY <1>1, <1>2

LEMMA AscendingLists ==
  ASSUME NEW S \in SUBSET Nat, IsFiniteSet(S) PROVE Lists(Ascending(S), S)
<1>. DEFINE n == Cardinality(S)
            rank == [t \in S |-> Rank(S, t)]
            q == Ascending(S)
<1>1. n \in Nat
  BY FS_CardinalityType
<1>2. rank \in Surjection(S, 0..(n - 1))
  <2>1. rank \in [S -> 0..(n - 1)]
    BY RankGrows
  <2>2. rank \in Injection(S, 0..(n - 1))
    BY <2>1, RankInjective DEF Injection, IsInjective
  <2>3. IsFiniteSet(0..(n - 1)) /\ Cardinality(0..(n - 1)) = n
    <3>. HIDE DEF n
    <3>1. 0 \in Int /\ n - 1 \in Int
      BY <1>1
    <3>2. /\ IsFiniteSet(0..(n - 1))
          /\ Cardinality(0..(n - 1)) = IF 0 > n - 1 THEN 0 ELSE (n - 1) - 0 + 1
      BY <3>1, FS_Interval
    <3>. QED  BY <1>1, <3>2
  <2>. HIDE DEF rank
  <2>. QED  BY <2>2, <2>3, FS_Injection
<1>3. \A i \in 1..n : \E t \in S : Rank(S, t) = i - 1
  <2>1. \A i \in 1..n : i - 1 \in 0..(n - 1)
    BY <1>1
  <2>2. \A k \in 0..(n - 1) : \E t \in S : rank[t] = k
    BY <1>2 DEF Surjection
  <2>. QED  BY <2>1, <2>2
<1>. HIDE DEF rank
<1>4. q = [i \in 1..n |-> CHOOSE t \in S : Rank(S, t) = i - 1]
  BY DEF Ascending, Rank
<1>. HIDE DEF q
<1>5. \A i \in 1..n : q[i] \in S /\ Rank(S, q[i]) = i - 1
  BY <1>3, <1>4
<1>. HIDE DEF n
<1>6. q \in Seq(S) /\ Len(q) = n
  <2>1. q \in [1..n -> S]
    BY <1>4, <1>5
  <2>. QED  BY <1>1, <2>1
<1>7. ASSUME NEW t \in S PROVE \E i \in 1..n : q[i] = t
  <2>. DEFINE i == Rank(S, t) + 1
  <2>1. i \in 1..n /\ i - 1 = Rank(S, t)
    BY <1>1, RankGrows DEF n
  <2>. HIDE DEF i
  <2>2. Rank(S, q[i]) = Rank(S, t) /\ q[i] \in S
    BY <1>5, <2>1
  <2>3. \A r \in S : Rank(S, r) = Rank(S, t) => r = t
    BY RankInjective
  <2>. QED  BY <2>1, <2>2, <2>3
<1>8. ASSUME NEW i \in 1..n, NEW j \in 1..n, q[i] = q[j] PROVE i = j
  <2>1. i - 1 = j - 1
    BY <1>5, <1>8
  <2>. QED  BY <2>1
<1>. QED  BY <1>6, <1>7, <1>8 DEF Lists, q

-----------------------------------------------------------------------------
(***************************************************************************)
(* TopologicalSort.  The names that the loop has popped are put in an      *)
(* order r; the stack lists the tasks that wait for nothing else.          *)
(***************************************************************************)
Sortable(g) == Exact(g, {}) /\ Tasks(g) \in SUBSET Nat /\ IsFiniteSet(Tasks(g))

Sorted(g, s, D, r) ==
  /\ Order(g, D) /\ s.cnt = Cardinality(D)
  /\ DOMAIN s.tmp = Tasks(g) /\ \A t \in Tasks(g) : s.tmp[t] = Cardinality(g.deps[t] \ D)
  /\ Lists(s.stack, Ready(g, D))
  /\ r \in [D -> Nat]
  /\ \A t \in D : r[t] <= s.cnt /\ r[t] > 0
  /\ \A t \in D : \A d \in g.deps[t] : r[d] < r[t]

LEMMA SortingSorted ==
  ASSUME NEW g, Sortable(g)
  PROVE  Sorted(g, Sorting(g), {}, [t \in {} |-> 0])
<1>1. \A S : S \ {} = S
  OBVIOUS
<1>2. /\ Sorting(g).stack = Ascending(WithoutDeps(g)) /\ Sorting(g).tmp = g.out_degree
      /\ Sorting(g).cnt = 0
  BY DEF Sorting
<1>3. WithoutDeps(g) = Ready(g, {})
  <2>1. \A t \in Tasks(g) : g.out_degree[t] = 0 <=> g.deps[t] \subseteq {}
    <3>1. Exact(g, {}) /\ Shape(g)
      BY DEF Sortable, Exact
    <3>2. \A t \in Tasks(g) : Cardinality(g.deps[t] \ {}) = 0 <=> g.deps[t] \subseteq {}
      BY <3>1, Missing
    <3>. QED  BY <3>1, <3>2 DEF Exact, Counts
  <2>. QED  BY <2>1 DEF WithoutDeps, Ready
<1>4. Ready(g, {}) \in SUBSET Nat /\ IsFiniteSet(Ready(g, {}))
  <2>1. Ready(g, {}) \in SUBSET Tasks(g)
    BY DEF Ready
  <2>. QED  BY <2>1, FS_Subset DEF Sortable
<1>5. Lists(Sorting(g).stack, Ready(g, {}))
  BY <1>2, <1>3, <1>4, AscendingLists
<1>6. DOMAIN g.out_degree = Tasks(g)
  BY DEF Sortable, Exact, Shape
<1>7. \A t \in Tasks(g) : g.out_degree[t] = Cardinality(g.deps[t] \ {})
  BY DEF Sortable, Exact, Counts
<1>8. Cardinality({}) = 0
  BY FS_EmptySet
<1>. QED  BY <1>2, <1>5, <1>6, <1>7, <1>8 DEF Sorted, Order

LEMMA TurnSorted ==
  ASSUME NEW g, Sortable(g), NEW s, NEW D, NEW r, Sorted(g, s, D, r), s.stack # <<>>
  PROVE  Turn(g, s).cnt = s.cnt + 1 /\ \E E, q : Sorted(g, Turn(g, s), E, q)
<1>. DEFINE name == Last(s.stack)
            E == D \cup {name}
            m == Ready(g, D)
            gg == [deps |-> g.deps, out_degree |-> s.tmp, todo_tasks_ |-> m]
            h == MarkTaskDone(gg, name)
            freed == Freed(g, s.tmp, name)
            u == Turn(g, s)
<1>1. /\ u.stack = Front(s.stack) \o Ascending(freed) /\ u.tmp = Decremented(g, s.tmp, name)
      /\ u.cnt = s.cnt + 1
  BY DEF Turn
<1>2. /\ name \in m /\ Lists(Front(s.stack), m \ {name})
  BY ListsFront DEF Sorted
<1>3. gg.deps = g.deps /\ gg.out_degree = s.tmp /\ gg.todo_tasks_ = m /\ Tasks(gg) = Tasks(g)
  BY DEF Tasks
<1>4. Exact(gg, D) /\ gg.todo_tasks_ = Ready(gg, D)
  <2>1. Shape(gg)
    BY <1>3 DEF Sortable, Exact, Shape, Sorted
  <2>2. Order(gg, D) /\ Counts(gg, D)
    BY <1>3 DEF Sorted, Order, Counts
  <2>3. Ready(gg, D) = m
    BY <1>3 DEF Ready
  <2>. QED  BY <1>3, <2>1, <2>2, <2>3 DEF Exact
<1>5. InEdges(gg, name) = InEdges(g, name)
  BY <1>3 DEF InEdges
<1>6. Freed(gg, s.tmp, name) = freed /\ Decremented(gg, s.tmp, name) = Decremented(g, s.tmp, name)
  BY <1>3, <1>5 DEF Freed, Decremented
<1>7. /\ h.out_degree = Decremented(g, s.tmp, name)
      /\ h.todo_tasks_ = (m \ {name}) \cup freed
  BY <1>2, <1>3, <1>6 DEF MarkTaskDone
<1>8. /\ Exact(h, E) /\ h.todo_tasks_ = Ready(h, E) /\ h.deps = g.deps
  <2>1. name \in gg.todo_tasks_
    BY <1>2, <1>3
  <2>. HIDE DEF gg, name
  <2>. QED  BY <1>3, <1>4, <2>1, Marked
<1>. HIDE DEF gg, h
<1>9. Tasks(h) = Tasks(g)
  BY <1>8 DEF Tasks
<1>10. Ready(g, E) = (m \ {name}) \cup freed
  <2>1. Ready(h, E) = Ready(g, E)
    BY <1>8, <1>9 DEF Ready
  <2>. QED  BY <1>7, <1>8, <2>1
<1>11. name \in Tasks(g) /\ name \notin D /\ g.deps[name] \subseteq D
  BY <1>2 DEF Ready
<1>12. Order(g, E)
  BY <1>8, <1>9 DEF Exact, Order
<1>13. DOMAIN u.tmp = Tasks(g) /\ \A t \in Tasks(g) : u.tmp[t] = Cardinality(g.deps[t] \ E)
  BY <1>1, <1>7, <1>8, <1>9 DEF Exact, Counts, Shape
<1>14. Lists(u.stack, Ready(g, E))
  <2>1. freed \in SUBSET Tasks(g)
    BY DEF Freed, InEdges
  <2>2. freed \in SUBSET Nat /\ IsFiniteSet(freed)
    BY <2>1, FS_Subset DEF Sortable
  <2>3. Lists(Ascending(freed), freed)
    BY <2>2, AscendingLists
  <2>4. \A t \in freed : name \in g.deps[t]
    BY DEF Freed, InEdges
  <2>5. (m \ {name}) \cap freed = {}
    BY <1>11, <2>4 DEF Ready
  <2>. HIDE DEF freed, m, name
  <2>6. Lists(Front(s.stack) \o Ascending(freed), (m \ {name}) \cup freed)
    BY <1>2, <2>3, <2>5, ListsConcat
  <2>. QED  BY <1>1, <1>10, <2>6
<1>15. IsFiniteSet(D) /\ s.cnt \in Nat /\ s.cnt = Cardinality(D)
  <2>1. D \in SUBSET Tasks(g) /\ s.cnt = Cardinality(D)
    BY DEF Sorted, Order
  <2>. QED  BY <2>1, FS_Subset, FS_CardinalityType DEF Sortable
<1>16. u.cnt = Cardinality(E)
  BY <1>1, <1>11, <1>15, FS_AddElement
\* The new one comes last.
<1>. DEFINE q == [t \in E |-> IF t = name THEN s.cnt + 1 ELSE r[t]]
<1>. HIDE DEF name, u, m, freed
<1>17. \A t \in D : q[t] = r[t] /\ q[t] \in Nat /\ q[t] <= s.cnt /\ q[t] > 0
  BY <1>11 DEF Sorted
<1>18. q[name] = s.cnt + 1
  OBVIOUS
<1>19. q \in [E -> Nat] /\ \A t \in E : q[t] <= u.cnt /\ q[t] > 0
  <2>1. \A t \in E : q[t] \in Nat /\ q[t] <= u.cnt /\ q[t] > 0
    BY <1>1, <1>15, <1>17, <1>18
  <2>. QED  BY <2>1
<1>20. ASSUME NEW t \in E, NEW d \in g.deps[t] PROVE q[d] < q[t]
  <2>1. CASE t = name
    <3>1. d \in D
      BY <1>11, <1>20, <2>1
    <3>. QED  BY <1>15, <1>17, <1>18, <2>1, <3>1
  <2>2. CASE t \in D
    <3>1. d \in D /\ r[d] < r[t]
      BY <1>20, <2>2 DEF Sorted, Order
    <3>. QED  BY <1>17, <2>2, <3>1
  <2>. QED  BY <2>1, <2>2
<1>. HIDE DEF q, E
<1>21. Sorted(g, u, E, q)
  BY <1>12, <1>13, <1>14, <1>16, <1>19, <1>20 DEF Sorted
<1>. QED  BY <1>1, <1>21 DEF u

\* The loop ends with an empty stack.
LEMMA TopologicalSorted ==
  ASSUME NEW g, Sortable(g)
  PROVE  \E D, r : Sorted(g, TopologicalSort(g), D, r) /\ TopologicalSort(g).stack = <<>>
<1>. DEFINE s(n) == Turns(g)[n]
            I == {n \in Nat : /\ \E D, r : Sorted(g, s(n), D, r)
                              /\ s(n).stack = <<>> \/ s(n).cnt = n}
<1>1. 0 \in I
  <2>1. Turns(g)[0] = Sorting(g) /\ Sorting(g).cnt = 0
    BY TurnsUnfold DEF Sorting
  <2>. QED  BY <2>1, SortingSorted
<1>2. ASSUME NEW n \in Nat, n \in I PROVE n + 1 \in I
  <2>1. Turns(g)[n + 1] = Turn(g, Turns(g)[n])
    BY TurnsUnfold
  <2>2. PICK D, r : Sorted(g, Turns(g)[n], D, r)
    BY <1>2
  <2>3. Turns(g)[n].stack = <<>> \/ Turns(g)[n].cnt = n
    BY <1>2
  <2>4. CASE Turns(g)[n].stack = <<>>
    <3>1. Turns(g)[n + 1] = Turns(g)[n]
      BY <2>1, <2>4 DEF Turn
    <3>. QED  BY <2>2, <2>4, <3>1
  <2>5. CASE Turns(g)[n].stack # <<>>
    <3>1. /\ Turn(g, Turns(g)[n]).cnt = Turns(g)[n].cnt + 1
          /\ \E E, q : Sorted(g, Turn(g, Turns(g)[n]), E, q)
      BY <2>2, <2>5, TurnSorted
    <3>. QED  BY <2>1, <2>3, <2>5, <3>1
  <2>. QED  BY <2>4, <2>5
<1>. DEFINE k == Cardinality(Tasks(g)) + 1
<1>3. Cardinality(Tasks(g)) \in Nat /\ k \in Nat
  BY FS_CardinalityType DEF Sortable
<1>4. k \in I
  <2>. HIDE DEF I, k
  <2>. QED  BY <1>1, <1>2, <1>3, Induction
<1>5. PICK D, r : Sorted(g, TopologicalSort(g), D, r)
  BY <1>4 DEF TopologicalSort
<1>6. TopologicalSort(g).stack = <<>> \/ TopologicalSort(g).cnt = k
  BY <1>4 DEF TopologicalSort
<1>7. TopologicalSort(g).cnt # k
  <2>1. D \in SUBSET Tasks(g) /\ TopologicalSort(g).cnt = Cardinality(D)
    BY <1>5 DEF Sorted, Order
  <2>2. Cardinality(D) <= Cardinality(Tasks(g)) /\ IsFiniteSet(D)
    BY <2>1, FS_Subset DEF Sortable
  <2>3. Cardinality(D) \in Nat
    BY <2>2, FS_CardinalityType
  <2>. QED  BY <1>3, <2>1, <2>2, <2>3
<1>. QED  BY <1>5, <1>6, <1>7

\* The tasks can be put in an order in which every task follows its dependencies.
Orders(g, r) ==
  r \in [Tasks(g) -> Nat] /\ \A t \in Tasks(g) : \A d \in g.deps[t] : d \in Tasks(g) /\ r[d] < r[t]

\* What InitGraph accepts can be ordered, with the numbers from 1 up to that of its tasks.
LEMMA AcceptedOrdered ==
  ASSUME NEW g, Sortable(g), InitGraphOK(g)
  PROVE  \E r : Orders(g, r) /\ \A t \in Tasks(g) : r[t] \in 1..Cardinality(Tasks(g))
<1>1. PICK D, r : Sorted(g, TopologicalSort(g), D, r)
  BY TopologicalSorted
<1>2. /\ D \in SUBSET Tasks(g) /\ TopologicalSort(g).cnt = Cardinality(D)
      /\ Cardinality(D) = Cardinality(Tasks(g)) /\ DepsExist(g)
  BY <1>1 DEF Sorted, Order, InitGraphOK
<1>3. D = Tasks(g)
  BY <1>2, FS_Subset DEF Sortable
<1>4. Orders(g, r)
  BY <1>1, <1>2, <1>3 DEF Sorted, Orders, DepsExist
<1>5. Cardinality(Tasks(g)) \in Nat
  BY FS_CardinalityType DEF Sortable
<1>6. \A t \in Tasks(g) : r[t] \in 1..Cardinality(Tasks(g))
  <2>1. \A t \in Tasks(g) : r[t] \in Nat /\ r[t] <= Cardinality(Tasks(g)) /\ r[t] > 0
    BY <1>1, <1>2, <1>3 DEF Sorted
  <2>. QED  BY <1>5, <2>1
<1>. QED  BY <1>4, <1>6

\* A set of tasks that can be ordered has one that depends on no other of the set.
LEMMA OrderedFirst ==
  ASSUME NEW g, NEW r, Orders(g, r), NEW S \in SUBSET Tasks(g), S # {}
  PROVE  \E t \in S : g.deps[t] \cap S = {}
<1>. DEFINE T == {r[t] : t \in S}
<1>1. T \in SUBSET Nat /\ T # {}
  BY DEF Orders
<1>2. PICK m \in T : \A n \in T : m <= n
  <2>. HIDE DEF T
  <2>. QED  BY <1>1, Minimum
<1>3. PICK t \in S : r[t] = m
  BY <1>2
<1>4. ASSUME NEW d \in g.deps[t], d \in S PROVE FALSE
  <2>1. r[d] < r[t] /\ r[t] <= r[d] /\ r[d] \in Nat /\ r[t] \in Nat
    BY <1>2, <1>3, <1>4 DEF Orders
  <2>. QED  BY <2>1
<1>. QED  BY <1>4

\* InitGraph accepts what can be ordered: otherwise the first of the tasks that were not
\* popped would be on the stack.
LEMMA OrderedAccepted ==
  ASSUME NEW g, Sortable(g), NEW r, Orders(g, r) PROVE InitGraphOK(g)
<1>1. DepsExist(g)
  BY DEF Orders, DepsExist
<1>2. PICK D, q : Sorted(g, TopologicalSort(g), D, q) /\ TopologicalSort(g).stack = <<>>
  BY TopologicalSorted
<1>3. Ready(g, D) = {}
  BY <1>2 DEF Sorted, Lists
<1>4. Tasks(g) \ D = {}
  <2>1. ASSUME Tasks(g) \ D # {} PROVE FALSE
    <3>1. PICK t \in Tasks(g) \ D : g.deps[t] \cap (Tasks(g) \ D) = {}
      BY <2>1, OrderedFirst
    <3>2. g.deps[t] \subseteq D
      BY <1>1, <3>1 DEF DepsExist
    <3>. QED  BY <1>3, <3>1, <3>2 DEF Ready
  <2>. QED  BY <2>1
<1>5. D = Tasks(g) /\ TopologicalSort(g).cnt = Cardinality(D)
  BY <1>2, <1>4 DEF Sorted, Order
<1>. QED  BY <1>1, <1>5 DEF InitGraphOK

-----------------------------------------------------------------------------
(***************************************************************************)
(* TaskGraphCalls: the calls keep todo_tasks_ and out_degree exact, in     *)
(* whatever order they are made.                                           *)
(***************************************************************************)
\* Any number of names.
NamesAssumption == MaxNames \in Nat

\* Before InitGraph nothing is done.
CallsInv ==
  /\ Tasks(graph) \subseteq TaskNames /\ graph.deps \in [Tasks(graph) -> SUBSET TaskNames]
  /\ initialized \in {"no", "true", "false"} /\ (initialized # "true" => marked = {})
  /\ Exact(graph, marked)
  /\ initialized = "true" => graph.todo_tasks_ = Ready(graph, marked)
  /\ InitGraphExact

\* Only the dependencies decide.
LEMMA ScheduleStays ==
  ASSUME graph'.deps = graph.deps PROVE Schedulable' <=> Schedulable
  BY DEF Schedulable, Tasks

LEMMA CallInitInv == CallInit => CallsInv
<1>. SUFFICES ASSUME CallInit PROVE CallsInv
  OBVIOUS
<1>1. /\ graph = [deps |-> <<>>, out_degree |-> <<>>, todo_tasks_ |-> {}]
      /\ initialized = "no" /\ marked = {}
  BY DEF CallInit, EmptyGraph
<1>2. Tasks(graph) = {} /\ DOMAIN graph.out_degree = {}
  BY <1>1 DEF Tasks
<1>3. Tasks(graph) \subseteq TaskNames /\ graph.deps \in [Tasks(graph) -> SUBSET TaskNames]
  BY <1>1 DEF Tasks
<1>. QED  BY <1>1, <1>2, <1>3 DEF CallsInv, Exact, Shape, Order, Counts, InitGraphExact

LEMMA CallAddTaskInv ==
  ASSUME NamesAssumption, CallsInv, NEW name \in TaskNames, NEW deps \in SUBSET TaskNames,
         CallAddTask(name, deps)
  PROVE  CallsInv'
<1>1. /\ initialized = "no" /\ initialized' = "no" /\ marked = {} /\ marked' = {}
      /\ graph' = AddTask(graph, name, deps)
  BY DEF CallAddTask, CallsInv
<1>2. CASE name \in Tasks(graph)
  <2>1. graph' = graph
    BY <1>1, <1>2 DEF AddTask
  <2>. QED  BY <1>1, <2>1 DEF CallsInv, InitGraphExact
<1>3. CASE name \notin Tasks(graph)
  <2>1. /\ graph'.deps = [t \in Tasks(graph) \cup {name} |->
                           IF t = name THEN deps ELSE graph.deps[t]]
        /\ graph'.out_degree = [t \in Tasks(graph) \cup {name} |->
                              IF t = name THEN Cardinality(deps) ELSE graph.out_degree[t]]
        /\ graph' = [deps |-> graph'.deps, out_degree |-> graph'.out_degree,
                     todo_tasks_ |-> graph'.todo_tasks_]
    BY <1>1, <1>3 DEF AddTask, CallsInv, Exact, Shape
  <2>2. Tasks(graph') = Tasks(graph) \cup {name}
    BY <2>1 DEF Tasks
  <2>3. Tasks(graph') \subseteq TaskNames /\ graph'.deps \in [Tasks(graph') -> SUBSET TaskNames]
    BY <2>1, <2>2 DEF CallsInv
  <2>4. IsFiniteSet(deps)
    <3>1. IsFiniteSet(TaskNames)
      BY FS_Interval DEF NamesAssumption, TaskNames
    <3>. QED  BY <3>1, FS_Subset
  <2>5. Shape(graph')
    BY <2>1, <2>2, <2>4 DEF CallsInv, Exact, Shape
  <2>6. Counts(graph', {})
    <3>1. \A S : S \ {} = S
      OBVIOUS
    <3>2. \A t \in Tasks(graph) : graph.out_degree[t] = Cardinality(graph.deps[t])
      BY <1>1, <3>1 DEF CallsInv, Exact, Counts
    <3>. QED  BY <2>1, <2>2, <3>1, <3>2 DEF Counts
  <2>. QED  BY <1>1, <2>3, <2>5, <2>6 DEF CallsInv, Exact, Order, InitGraphExact
<1>. QED  BY <1>2, <1>3

LEMMA CallInitGraphInv ==
  ASSUME NamesAssumption, CallsInv, CallInitGraph PROVE CallsInv'
<1>1. initialized = "no" /\ marked = {} /\ marked' = {}
  BY DEF CallInitGraph, CallsInv
<1>2. Schedulable <=> InitGraphOK(graph)
  <2>1. IsFiniteSet(TaskNames) /\ TaskNames \subseteq Nat /\ Cardinality(TaskNames) = MaxNames
    BY FS_Interval DEF NamesAssumption, TaskNames
  <2>2. /\ Tasks(graph) \in SUBSET TaskNames /\ IsFiniteSet(Tasks(graph))
        /\ Cardinality(Tasks(graph)) <= MaxNames
    BY <2>1, FS_Subset DEF CallsInv
  <2>3. Sortable(graph)
    BY <1>1, <2>1, <2>2 DEF CallsInv, Sortable
  <2>4. ASSUME Schedulable PROVE InitGraphOK(graph)
    <3>1. PICK r \in [Tasks(graph) -> TaskNames] :
            \A t \in Tasks(graph) : \A d \in graph.deps[t] : d \in Tasks(graph) /\ r[d] < r[t]
      BY <2>4 DEF Schedulable
    <3>2. Orders(graph, r)
      BY <2>1, <3>1 DEF Orders
    <3>. QED  BY <2>3, <3>2, OrderedAccepted
  <2>5. ASSUME InitGraphOK(graph) PROVE Schedulable
    <3>1. PICK r : Orders(graph, r) /\ \A t \in Tasks(graph) : r[t] \in 1..Cardinality(Tasks(graph))
      BY <2>3, <2>5, AcceptedOrdered
    <3>2. 1..Cardinality(Tasks(graph)) \subseteq TaskNames
      <4>1. Cardinality(Tasks(graph)) \in Nat
        BY <2>2, FS_CardinalityType
      <4>. QED  BY <2>2, <4>1 DEF NamesAssumption, TaskNames
    <3>3. r \in [Tasks(graph) -> TaskNames]
      BY <3>1, <3>2 DEF Orders
    <3>. QED  BY <3>1, <3>3 DEF Orders, Schedulable
  <2>. QED  BY <2>4, <2>5
<1>3. CASE ~InitGraphOK(graph)
  <2>1. initialized' = "false" /\ graph' = graph
    BY <1>3 DEF CallInitGraph
  <2>2. Schedulable' <=> Schedulable
    BY <2>1, ScheduleStays
  <2>. QED  BY <1>1, <1>2, <1>3, <2>1, <2>2 DEF CallsInv, InitGraphExact
<1>4. CASE InitGraphOK(graph)
  <2>1. initialized' = "true" /\ graph' = InitGraph(graph)
    BY <1>4 DEF CallInitGraph
  <2>2. graph'.todo_tasks_ = Ready(graph', {}) /\ Exact(graph', {}) /\ graph'.deps = graph.deps
    BY <1>1, <2>1, InitReady DEF CallsInv
  <2>3. Schedulable' <=> Schedulable
    BY <2>2, ScheduleStays
  <2>. QED  BY <1>1, <1>2, <1>4, <2>1, <2>2, <2>3 DEF CallsInv, InitGraphExact, Tasks
<1>. QED  BY <1>3, <1>4

LEMMA CallMarkTaskDoneInv ==
  ASSUME CallsInv, NEW name \in TaskNames, CallMarkTaskDone(name) PROVE CallsInv'
<1>1. initialized = "true" /\ initialized' = initialized /\ graph' = MarkTaskDone(graph, name)
  BY DEF CallMarkTaskDone
<1>2. CASE name \notin graph.todo_tasks_
  <2>1. graph' = graph /\ marked' = marked
    BY <1>1, <1>2 DEF MarkTaskDone, CallMarkTaskDone
  <2>2. Schedulable' <=> Schedulable
    BY <2>1, ScheduleStays
  <2>. QED  BY <1>1, <2>1, <2>2 DEF CallsInv, InitGraphExact
<1>3. CASE name \in graph.todo_tasks_
  <2>1. marked' = marked \cup {name}
    BY <1>3 DEF CallMarkTaskDone
  <2>2. /\ Exact(graph', marked') /\ graph'.todo_tasks_ = Ready(graph', marked')
        /\ graph'.deps = graph.deps
    BY <1>1, <1>3, <2>1, Marked DEF CallsInv
  <2>3. Schedulable' <=> Schedulable
    BY <2>2, ScheduleStays
  <2>. QED  BY <1>1, <2>2, <2>3 DEF CallsInv, InitGraphExact, Tasks
<1>. QED  BY <1>2, <1>3

LEMMA CallsInvCorrect ==
  ASSUME NamesAssumption PROVE CallSpec => []CallsInv
<1>1. CallsInv /\ [CallNext]_callVars => CallsInv'
  <2>1. ASSUME CallsInv, UNCHANGED callVars PROVE CallsInv'
    <3>1. graph' = graph /\ initialized' = initialized /\ marked' = marked
      BY <2>1 DEF callVars
    <3>2. Schedulable' <=> Schedulable
      BY <3>1, ScheduleStays
    <3>. QED  BY <2>1, <3>1, <3>2 DEF CallsInv, InitGraphExact
  <2>. QED  BY <2>1, CallAddTaskInv, CallInitGraphInv, CallMarkTaskDoneInv DEF CallNext
<1>. QED  BY CallInitInv, <1>1, PTL DEF CallSpec

\* InitGraph accepts a graph if and only if its tasks can be put in an order in which
\* every task follows its dependencies: the loop over top_stack reaches all tasks of a
\* graph without cycles, and not those of a cycle.
THEOREM InitGraphExactCorrect ==
  ASSUME NamesAssumption PROVE CallSpec => []InitGraphExact
<1>1. CallsInv => InitGraphExact
  BY DEF CallsInv
<1>. QED  BY <1>1, CallsInvCorrect, PTL

\* However MarkTaskDone is called, the tasks to do are those that are not done and
\* whose dependencies are, and out_degree counts what is missing: a task starts neither
\* before its dependencies nor twice.
THEOREM TodoCorrect ==
  ASSUME NamesAssumption PROVE CallSpec => []TodoExact
<1>1. CallsInv => TodoExact
  BY DEF CallsInv, TodoExact, Exact, Counts, Ready
<1>. QED  BY <1>1, CallsInvCorrect, PTL

-----------------------------------------------------------------------------
(***************************************************************************)
(* TaskSchedule.                                                           *)
(***************************************************************************)
Types ==
  /\ all_units_ \subseteq Units
  /\ DOMAIN graph_ = Units /\ DOMAIN all_ = Units /\ DOMAIN todo_ = Units
  /\ DOMAIN doing_ = Units /\ DOMAIN done_ = Units /\ DOMAIN final_fail_ = Units
  /\ DOMAIN succeeded = Units
  /\ DOMAIN schedule_infos_ \subseteq Pids
  /\ child \in [DOMAIN child -> [unit : Units, task : Names,
                                  state : {"runs", "ok", "bad", "killed"}]]
  /\ left_offer_ \in Int

\* The graph and the three sets of a unit agree on what may be executed and what is done.
UnitExact(u) ==
  LET ready == Ready(graph_[u], done_[u])
  IN /\ Tasks(graph_[u]) \subseteq Names
     /\ Exact(graph_[u], done_[u]) /\ graph_[u].todo_tasks_ = ready
     /\ todo_[u] \cup doing_[u] = ready /\ todo_[u] \cap doing_[u] = {}
     /\ all_[u] = ready \cup done_[u]

UnitsExact == \A u \in Units : UnitExact(u)

UnitOf(p) == schedule_infos_[p][1]
TaskOf(p) == schedule_infos_[p][2]

\* An entry of schedule_infos_ is about a task that its unit believes to run, and is the
\* only one about it.
Entries ==
  /\ DOMAIN child \subseteq DOMAIN schedule_infos_
  /\ \A p \in DOMAIN schedule_infos_ :
       UnitOf(p) \in all_units_ /\ TaskOf(p) \in doing_[UnitOf(p)]
  /\ \A p, q \in DOMAIN schedule_infos_ : UnitOf(p) = UnitOf(q) /\ TaskOf(p) = TaskOf(q) => p = q

\* So is a task that is still to be forked, and it has no entry yet.
ToFork ==
  /\ pc # "fork" => to_schedule = {}
  /\ \A t \in to_schedule :
       /\ iter \in all_units_ /\ t \in doing_[iter]
       /\ \A p \in DOMAIN schedule_infos_ : ~(UnitOf(p) = iter /\ TaskOf(p) = t)

Ended == \A u \in Units \ all_units_ : doing_[u] = {} /\ (todo_[u] = {} \/ final_fail_[u])

Inv == Types /\ UnitsExact /\ Entries /\ ToFork /\ Ended

LEMMA NamesFinite == IsFiniteSet(Names) /\ Names \subseteq Nat
  BY ScheduleAssumption, FS_Interval DEF Names

-----------------------------------------------------------------------------
(***************************************************************************)
(* The initial state of TaskSchedule.                                      *)
(***************************************************************************)
LEMMA GraphsExact ==
  ASSUME NEW n \in 0..MaxTasks, NEW g \in GraphsOf(n)
  PROVE  Tasks(g) = 1..n /\ Exact(g, {}) /\ InitGraphOK(g)
<1>1. PICK d \in [1..n -> SUBSET (1..n)] :
        g = [deps |-> d, out_degree |-> [t \in 1..n |-> Cardinality(d[t])], todo_tasks_ |-> {}]
  BY DEF GraphsOf
<1>2. Tasks(g) = 1..n
  BY <1>1 DEF Tasks
<1>3. IsFiniteSet(1..n)
  BY ScheduleAssumption, FS_Interval
<1>4. \A t \in 1..n : d[t] \in SUBSET (1..n)
  BY <1>1
<1>5. \A t \in 1..n : IsFiniteSet(g.deps[t])
  BY <1>1, <1>3, <1>4, FS_Subset
<1>6. Shape(g)
  BY <1>1, <1>2, <1>5 DEF Shape
<1>7. Counts(g, {})
  <2>1. \A S : S \ {} = S
    OBVIOUS
  <2>. QED  BY <1>1, <1>2, <2>1 DEF Counts
<1>8. InitGraphOK(g)
  BY DEF GraphsOf
<1>. QED  BY <1>2, <1>6, <1>7, <1>8 DEF Exact, Order

LEMMA InitInv == Init => Inv
<1>. SUFFICES ASSUME Init PROVE Inv
  OBVIOUS
<1>1. PICK G \in [Units -> UNION {GraphsOf(n) : n \in 0..MaxTasks}] :
        /\ \A u \in Units \ all_units_ : G[u] = EmptyGraph
        /\ graph_ = [u \in Units |-> InitGraph(G[u])]
  BY DEF Init
<1>2. ASSUME NEW u \in Units
      PROVE  /\ Exact(graph_[u], {}) /\ graph_[u].todo_tasks_ = Ready(graph_[u], {})
             /\ Tasks(graph_[u]) \subseteq Names
             /\ u \notin all_units_ => Tasks(graph_[u]) = {}
  <2>1. PICK n \in 0..MaxTasks : G[u] \in GraphsOf(n)
    BY <1>1
  <2>2. Tasks(G[u]) = 1..n /\ Exact(G[u], {})
    BY <2>1, GraphsExact
  <2>3. /\ graph_[u].todo_tasks_ = Ready(graph_[u], {}) /\ Exact(graph_[u], {})
        /\ graph_[u].deps = G[u].deps
    BY <1>1, <2>2, InitReady
  <2>4. Tasks(graph_[u]) = Tasks(G[u])
    BY <2>3 DEF Tasks
  <2>5. Tasks(EmptyGraph) = {}
    BY DEF Tasks, EmptyGraph
  <2>6. 1..n \subseteq Names
    BY ScheduleAssumption DEF Names
  <2>. QED  BY <1>1, <2>2, <2>3, <2>4, <2>5, <2>6
<1>3. /\ all_ = [u \in Units |-> graph_[u].todo_tasks_] /\ todo_ = all_
      /\ doing_ = [u \in Units |-> {}] /\ done_ = doing_ /\ succeeded = done_
      /\ final_fail_ = [u \in Units |-> FALSE] /\ schedule_infos_ = <<>> /\ child = <<>>
      /\ pc = "reap" /\ to_schedule = {} /\ all_units_ \subseteq Units
      /\ left_offer_ \in Int
  BY ScheduleAssumption DEF Init
<1>4. DOMAIN schedule_infos_ = {} /\ DOMAIN child = {}
  BY <1>3
<1>5. Types
  BY <1>1, <1>3, <1>4 DEF Types
<1>6. ASSUME NEW u \in Units PROVE UnitExact(u)
  BY <1>2, <1>3 DEF UnitExact
<1>7. ASSUME NEW u \in Units \ all_units_ PROVE todo_[u] = {}
  BY <1>2, <1>3 DEF Ready
<1>. QED  BY <1>3, <1>4, <1>5, <1>6, <1>7 DEF Inv, UnitsExact, Entries, ToFork, Ended

-----------------------------------------------------------------------------
(***************************************************************************)
(* The operations of a unit.                                               *)
(***************************************************************************)
LEMMA SuccessKeeps ==
  ASSUME Types, UnitsExact, NEW u \in Units, NEW t \in doing_[u], Success(u, t)
  PROVE  UnitsExact'
<1>. DEFINE g == graph_[u]
            h == MarkTaskDone(g, t)
            D == done_[u]
            E == D \cup {t}
<1>1. UnitExact(u)
  BY DEF UnitsExact
<1>2. /\ Exact(g, D) /\ g.todo_tasks_ = Ready(g, D) /\ Tasks(g) \subseteq Names
      /\ todo_[u] \cup doing_[u] = Ready(g, D) /\ todo_[u] \cap doing_[u] = {}
      /\ all_[u] = Ready(g, D) \cup D
  BY <1>1 DEF UnitExact
<1>3. t \in g.todo_tasks_
  BY <1>2
<1>4. Exact(h, E) /\ h.todo_tasks_ = Ready(h, E) /\ h.deps = g.deps
  BY <1>2, <1>3, Marked
<1>5. /\ graph_' = [graph_ EXCEPT ![u] = h]
      /\ doing_' = [doing_ EXCEPT ![u] = @ \ {t}]
      /\ done_' = [done_ EXCEPT ![u] = E]
      /\ all_' = [all_ EXCEPT ![u] = @ \cup (h.todo_tasks_ \ all_[u])]
      /\ todo_' = [todo_ EXCEPT ![u] = @ \cup (h.todo_tasks_ \ all_[u])]
  BY DEF Success, NewTasks
<1>. HIDE DEF h
<1>6. /\ graph_'[u] = h /\ doing_'[u] = doing_[u] \ {t} /\ done_'[u] = E
      /\ all_'[u] = all_[u] \cup (h.todo_tasks_ \ all_[u])
      /\ todo_'[u] = todo_[u] \cup (h.todo_tasks_ \ all_[u])
  BY <1>5 DEF Types
<1>7. Tasks(h) = Tasks(g)
  BY <1>4 DEF Tasks
<1>8. Ready(g, D) \ {t} \subseteq Ready(h, E) /\ Ready(h, E) \cap E = {}
  BY <1>4, <1>7 DEF Ready
<1>9. UnitExact(u)'
  <2>. DEFINE old == Ready(g, D)
              new == Ready(h, E)
  <2>1. /\ todo_[u] \cup doing_[u] = old /\ todo_[u] \cap doing_[u] = {}
        /\ all_[u] = old \cup D /\ old \ {t} \subseteq new /\ new \cap E = {}
        /\ todo_'[u] = todo_[u] \cup (new \ all_[u]) /\ doing_'[u] = doing_[u] \ {t}
        /\ all_'[u] = all_[u] \cup (new \ all_[u])
    BY <1>2, <1>4, <1>6, <1>8
  <2>. HIDE DEF old, new
  <2>2. todo_'[u] \cup doing_'[u] = new
    <3>1. \A x \in new : x \in todo_'[u] \cup doing_'[u]
      BY <2>1
    <3>2. \A x \in todo_'[u] \cup doing_'[u] : x \in new
      BY <2>1
    <3>. QED  BY <3>1, <3>2
  <2>3. todo_'[u] \cap doing_'[u] = {}
    BY <1>2, <1>6
  <2>4. all_'[u] = new \cup E
    <3>1. t \in old
      BY <2>1
    <3>. QED  BY <2>1, <3>1
  <2>. QED  BY <1>2, <1>4, <1>6, <1>7, <2>2, <2>3, <2>4 DEF UnitExact, new
<1>10. ASSUME NEW v \in Units, v # u PROVE UnitExact(v)'
  <2>1. /\ graph_'[v] = graph_[v] /\ doing_'[v] = doing_[v] /\ done_'[v] = done_[v]
        /\ all_'[v] = all_[v] /\ todo_'[v] = todo_[v]
    BY <1>5, <1>10 DEF Types
  <2>. QED  BY <2>1 DEF UnitsExact, UnitExact
<1>. QED  BY <1>9, <1>10 DEF UnitsExact

LEMMA FailKeeps ==
  ASSUME Types, UnitsExact, NEW u \in Units, NEW t \in doing_[u], Fail(u, t)
  PROVE  UnitsExact'
<1>1. /\ doing_' = [doing_ EXCEPT ![u] = @ \ {t}] /\ todo_' = [todo_ EXCEPT ![u] = @ \cup {t}]
      /\ graph_' = graph_ /\ done_' = done_ /\ all_' = all_
  BY DEF Fail
<1>2. ASSUME NEW v \in Units PROVE UnitExact(v)'
  <2>1. CASE v = u
    <3>1. doing_'[v] = doing_[v] \ {t} /\ todo_'[v] = todo_[v] \cup {t}
      BY <1>1, <2>1 DEF Types
    <3>. QED  BY <1>1, <2>1, <3>1 DEF UnitsExact, UnitExact
  <2>2. CASE v # u
    <3>1. doing_'[v] = doing_[v] /\ todo_'[v] = todo_[v]
      BY <1>1, <2>2 DEF Types
    <3>. QED  BY <1>1, <3>1 DEF UnitsExact, UnitExact
  <2>. QED  BY <2>1, <2>2
<1>. QED  BY <1>2 DEF UnitsExact

\* Success or Fail, and CheckUnitStatus: task t is no longer one that runs.
Leaves(u, t) ==
  /\ doing_' = [doing_ EXCEPT ![u] = @ \ {t}]
  /\ todo_' = [todo_ EXCEPT ![u] = todo_'[u]]
  /\ \A v \in Units \ {u} : final_fail_'[v] = final_fail_[v]
  /\ CheckUnitStatus(u)

LEMMA LeavesEnds ==
  ASSUME Types, Ended, NEW u \in Units, NEW t, Leaves(u, t), u \in all_units_
  PROVE  /\ Ended' /\ all_units_' \subseteq all_units_
         /\ \A v \in all_units_ : v # u => v \in all_units_' /\ doing_'[v] = doing_[v]
         /\ u \notin all_units_' => doing_[u] \subseteq {t}
         /\ doing_'[u] = doing_[u] \ {t}
<1>. USE DEF Types, Leaves
<1>1. doing_'[u] = doing_[u] \ {t}
  OBVIOUS
<1>2. \A v \in Units : v # u => doing_'[v] = doing_[v] /\ todo_'[v] = todo_[v]
                                /\ final_fail_'[v] = final_fail_[v]
  OBVIOUS
<1>3. /\ all_units_' \subseteq all_units_ /\ all_units_ \ {u} \subseteq all_units_'
      /\ u \notin all_units_' => Done(todo_'[u], doing_'[u], final_fail_'[u])
  BY DEF CheckUnitStatus
<1>4. u \notin all_units_' => doing_'[u] = {} /\ (todo_'[u] = {} \/ final_fail_'[u])
  BY <1>3 DEF Done
<1>5. ASSUME NEW v \in Units \ all_units_'
      PROVE  doing_'[v] = {} /\ (todo_'[v] = {} \/ final_fail_'[v])
  <2>1. CASE v = u
    BY <1>4, <1>5, <2>1
  <2>2. CASE v # u
    BY <1>2, <1>3, <1>5, <2>2 DEF Ended
  <2>. QED  BY <2>1, <2>2
<1>6. Ended'
  BY <1>5 DEF Ended
<1>. QED  BY <1>1, <1>2, <1>3, <1>4, <1>6

-----------------------------------------------------------------------------
(***************************************************************************)
(* The steps.                                                              *)
(***************************************************************************)
LEMMA ReapKeeps ==
  ASSUME Inv, NEW p \in Pids, Reap(p) PROVE Inv'
<1>. USE DEF Inv
<1>. DEFINE u == UnitOf(p)
            t == TaskOf(p)
<1>1. /\ pc = "reap" /\ pc' = pc /\ p \in DOMAIN child /\ p \in DOMAIN schedule_infos_
      /\ to_schedule' = to_schedule /\ left_offer_' = left_offer_ + 1 /\ succeeded' = succeeded
      /\ child' = [q \in DOMAIN child \ {p} |-> child[q]]
      /\ schedule_infos_' = [q \in DOMAIN schedule_infos_ \ {p} |-> schedule_infos_[q]]
      /\ CheckUnitStatus(u)
      /\ Success(u, t) \/ Fail(u, t)
  BY DEF Reap, Reaped, Restrict, Returned, Entries, UnitOf, TaskOf
<1>2. u \in Units /\ u \in all_units_ /\ t \in doing_[u]
  BY <1>1 DEF Entries, Types
<1>. HIDE DEF u, t
<1>3. UnitsExact'
  BY <1>1, <1>2, SuccessKeeps, FailKeeps
<1>4. Leaves(u, t)
  <2>1. doing_' = [doing_ EXCEPT ![u] = @ \ {t}]
    BY <1>1 DEF Success, Fail
  <2>2. todo_' = [todo_ EXCEPT ![u] = todo_'[u]]
    BY <1>1, <1>2 DEF Success, Fail, Types
  <2>3. \A v \in Units \ {u} : final_fail_'[v] = final_fail_[v]
    <3>1. CASE Success(u, t)
      BY <3>1 DEF Success
    <3>2. CASE Fail(u, t)
      BY <1>2, <3>2 DEF Fail, Types
    <3>. QED  BY <1>1, <3>1, <3>2
  <2>. QED  BY <1>1, <2>1, <2>2, <2>3 DEF Leaves
<1>5. /\ Ended' /\ all_units_' \subseteq all_units_
      /\ \A v \in all_units_ : v # u => v \in all_units_' /\ doing_'[v] = doing_[v]
      /\ u \notin all_units_' => doing_[u] \subseteq {t}
      /\ doing_'[u] = doing_[u] \ {t}
  BY <1>2, <1>4, LeavesEnds
<1>6. /\ DOMAIN schedule_infos_' = DOMAIN schedule_infos_ \ {p}
      /\ DOMAIN child' = DOMAIN child \ {p}
      /\ \A q \in DOMAIN schedule_infos_' : UnitOf(q)' = UnitOf(q) /\ TaskOf(q)' = TaskOf(q)
  BY <1>1 DEF UnitOf, TaskOf
<1>7. Types'
  <2>1. /\ DOMAIN graph_' = Units /\ DOMAIN all_' = Units /\ DOMAIN todo_' = Units
        /\ DOMAIN doing_' = Units /\ DOMAIN done_' = Units /\ DOMAIN final_fail_' = Units
    BY <1>1 DEF Types, Success, Fail
  <2>2. child' \in [DOMAIN child' -> [unit : Units, task : Names,
                                      state : {"runs", "ok", "bad", "killed"}]]
    BY <1>1, <1>6 DEF Types
  <2>. QED  BY <1>1, <1>5, <1>6, <2>1, <2>2 DEF Types
<1>8. Entries'
  <2>1. ASSUME NEW q \in DOMAIN schedule_infos_'
        PROVE  UnitOf(q) \in all_units_' /\ TaskOf(q) \in doing_'[UnitOf(q)]
    <3>1. /\ UnitOf(q) \in all_units_ /\ TaskOf(q) \in doing_[UnitOf(q)]
          /\ UnitOf(q) = u => TaskOf(q) # t
      BY <1>1, <1>6, <2>1 DEF Entries, u, t
    <3>. QED  BY <1>5, <3>1
  <2>2. DOMAIN child' \subseteq DOMAIN schedule_infos_'
    BY <1>6 DEF Entries
  <2>. QED  BY <1>6, <2>1, <2>2 DEF Entries
<1>9. ToFork'
  BY <1>1 DEF ToFork
<1>. QED  BY <1>3, <1>5, <1>7, <1>8, <1>9

LEMMA OfferKeeps ==
  ASSUME Inv, NEW u \in Units, Offer(u) PROVE Inv'
<1>. USE DEF Inv
<1>. DEFINE off == Offered(u)
<1>1. /\ pc = "offer" /\ u \in all_units_ /\ iter' = u /\ to_schedule' = off
      /\ todo_' = [todo_ EXCEPT ![u] = @ \ off] /\ doing_' = [doing_ EXCEPT ![u] = @ \cup off]
      /\ pc' = IF off = {} THEN "offer" ELSE "fork"
      /\ left_offer_' = left_offer_ - Cardinality(off)
      /\ UNCHANGED <<graph_, all_, done_, final_fail_, all_units_, schedule_infos_, child,
                     succeeded>>
  BY DEF Offer, Unvisited
<1>2. off \subseteq todo_[u]
  BY DEF Offered
<1>3. todo_[u] \subseteq Names /\ todo_[u] \cap doing_[u] = {}
  BY DEF UnitsExact, UnitExact, Ready
<1>4. IsFiniteSet(off) /\ Cardinality(off) \in Nat
  BY <1>2, <1>3, NamesFinite, FS_Subset, FS_CardinalityType
<1>. HIDE DEF off
<1>5. /\ todo_'[u] = todo_[u] \ off /\ doing_'[u] = doing_[u] \cup off
      /\ \A v \in Units : v # u => todo_'[v] = todo_[v] /\ doing_'[v] = doing_[v]
  BY <1>1 DEF Types
<1>6. Types'
  <2>1. left_offer_' \in Int
    BY <1>1, <1>4 DEF Types
  <2>. QED  BY <1>1, <2>1 DEF Types
<1>7. UnitsExact'
  <2>1. ASSUME NEW v \in Units PROVE UnitExact(v)'
    <3>1. CASE v = u
      BY <1>1, <1>2, <1>5, <3>1 DEF UnitsExact, UnitExact
    <3>2. CASE v # u
      BY <1>1, <1>5, <3>2 DEF UnitsExact, UnitExact
    <3>. QED  BY <3>1, <3>2
  <2>. QED  BY <2>1 DEF UnitsExact
<1>8. \A q \in DOMAIN schedule_infos_ : UnitOf(q)' = UnitOf(q) /\ TaskOf(q)' = TaskOf(q)
  BY <1>1 DEF UnitOf, TaskOf
<1>9. \A v \in Units : doing_[v] \subseteq doing_'[v]
  BY <1>5
<1>10. Entries'
  BY <1>1, <1>8, <1>9 DEF Entries, Types
<1>11. ToFork'
  <2>1. ASSUME NEW s \in off, NEW q \in DOMAIN schedule_infos_
        PROVE  ~(UnitOf(q) = u /\ TaskOf(q) = s)
    BY <1>2, <1>3, <2>1 DEF Entries
  <2>. QED  BY <1>1, <1>5, <1>8, <2>1 DEF ToFork
<1>12. Ended'
  BY <1>1, <1>5 DEF Ended
<1>. QED  BY <1>6, <1>7, <1>10, <1>11, <1>12

LEMMA ForkChildKeeps ==
  ASSUME Inv, NEW t \in Names, ForkChild(t) PROVE Inv'
<1>. USE DEF Inv
<1>1. PICK p \in Pids \ DOMAIN child :
        /\ child' = Inserted(child, p, [unit |-> iter, task |-> t, state |-> "runs"])
        /\ schedule_infos_' = Inserted(schedule_infos_, p, <<iter, t>>)
  BY DEF ForkChild
<1>2. /\ t \in to_schedule /\ to_schedule' = to_schedule \ {t} /\ iter' = iter
      /\ pc = "fork" /\ pc' = (IF to_schedule' = {} THEN "offer" ELSE "fork")
      /\ UNCHANGED <<unitVars, all_units_, left_offer_, succeeded>>
  BY DEF ForkChild, Forks, AfterFork
<1>3. /\ iter \in all_units_ /\ iter \in Units /\ t \in doing_[iter]
      /\ \A q \in DOMAIN schedule_infos_ : ~(UnitOf(q) = iter /\ TaskOf(q) = t)
  BY <1>2 DEF ToFork, Types
<1>4. /\ DOMAIN schedule_infos_' = DOMAIN schedule_infos_ \cup {p}
      /\ DOMAIN child' = DOMAIN child \cup {p}
      /\ \A q \in DOMAIN schedule_infos_ : UnitOf(q)' = UnitOf(q) /\ TaskOf(q)' = TaskOf(q)
      /\ p \notin DOMAIN schedule_infos_ => UnitOf(p)' = iter /\ TaskOf(p)' = t
  BY <1>1 DEF Inserted, UnitOf, TaskOf
<1>5. Types'
  <2>1. child' \in [DOMAIN child' -> [unit : Units, task : Names,
                                      state : {"runs", "ok", "bad", "killed"}]]
    BY <1>1, <1>3, <1>4 DEF Inserted, Types
  <2>. QED  BY <1>2, <1>4, <2>1 DEF Types, unitVars
<1>6. UnitsExact' /\ Ended'
  BY <1>2 DEF unitVars, UnitsExact, UnitExact, Ended
<1>7. Entries'
  <2>1. ASSUME NEW q \in DOMAIN schedule_infos_'
        PROVE  UnitOf(q)' \in all_units_ /\ TaskOf(q)' \in doing_[UnitOf(q)']
    BY <1>3, <1>4, <2>1 DEF Entries
  <2>2. ASSUME NEW q \in DOMAIN schedule_infos_', NEW r \in DOMAIN schedule_infos_',
               UnitOf(q)' = UnitOf(r)', TaskOf(q)' = TaskOf(r)'
        PROVE  q = r
    BY <1>3, <1>4, <2>2 DEF Entries
  <2>3. DOMAIN child' \subseteq DOMAIN schedule_infos_'
    BY <1>4 DEF Entries
  <2>. QED  BY <1>2, <2>1, <2>2, <2>3 DEF Entries, unitVars
<1>8. ToFork'
  <2>1. ASSUME NEW s \in to_schedule', NEW q \in DOMAIN schedule_infos_'
        PROVE  ~(UnitOf(q)' = iter /\ TaskOf(q)' = s)
    BY <1>2, <1>4, <2>1 DEF ToFork
  <2>. QED  BY <1>2, <2>1 DEF ToFork, unitVars
<1>. QED  BY <1>5, <1>6, <1>7, <1>8

LEMMA ForkFailureKeeps ==
  ASSUME Inv, NEW t \in Names, ForkFailure(t) PROVE Inv'
<1>. USE DEF Inv
<1>1. /\ t \in to_schedule /\ to_schedule' = to_schedule \ {t} /\ iter' = iter
      /\ pc = "fork" /\ left_offer_' = left_offer_ + 1
      /\ Fail(iter, t) /\ CheckUnitStatus(iter)
      /\ pc' = (IF iter \notin all_units_' THEN "crashed"
                ELSE IF to_schedule' = {} THEN "offer" ELSE "fork")
      /\ UNCHANGED <<succeeded, schedule_infos_, child>>
  BY DEF ForkFailure, Forks, AfterFork, Returned
<1>2. /\ iter \in all_units_ /\ iter \in Units /\ to_schedule \subseteq doing_[iter]
      /\ \A q \in DOMAIN schedule_infos_ : ~(UnitOf(q) = iter /\ TaskOf(q) = t)
  BY <1>1 DEF ToFork, Types
<1>3. UnitsExact'
  BY <1>1, <1>2, FailKeeps
<1>4. Leaves(iter, t)
  <2>1. todo_' = [todo_ EXCEPT ![iter] = todo_'[iter]]
    BY <1>1, <1>2 DEF Fail, Types
  <2>2. \A v \in Units \ {iter} : final_fail_'[v] = final_fail_[v]
    BY <1>1, <1>2 DEF Fail, Types
  <2>. QED  BY <1>1, <2>1, <2>2 DEF Leaves, Fail
<1>5. /\ Ended' /\ all_units_' \subseteq all_units_
      /\ \A v \in all_units_ : v # iter => v \in all_units_' /\ doing_'[v] = doing_[v]
      /\ iter \notin all_units_' => doing_[iter] \subseteq {t}
      /\ doing_'[iter] = doing_[iter] \ {t}
  BY <1>2, <1>4, LeavesEnds
<1>6. \A q \in DOMAIN schedule_infos_ : UnitOf(q)' = UnitOf(q) /\ TaskOf(q)' = TaskOf(q)
  BY <1>1 DEF UnitOf, TaskOf
<1>7. Types'
  <2>1. /\ DOMAIN graph_' = Units /\ DOMAIN all_' = Units /\ DOMAIN todo_' = Units
        /\ DOMAIN doing_' = Units /\ DOMAIN done_' = Units /\ DOMAIN final_fail_' = Units
    BY <1>1 DEF Types, Fail
  <2>. QED  BY <1>1, <1>5, <2>1 DEF Types
<1>8. Entries'
  <2>1. ASSUME NEW q \in DOMAIN schedule_infos_
        PROVE  UnitOf(q) \in all_units_' /\ TaskOf(q) \in doing_'[UnitOf(q)]
    <3>1. /\ UnitOf(q) \in all_units_ /\ TaskOf(q) \in doing_[UnitOf(q)]
          /\ UnitOf(q) = iter => TaskOf(q) # t
      BY <1>2, <2>1 DEF Entries
    <3>. QED  BY <1>5, <3>1
  <2>. QED  BY <1>1, <1>6, <2>1 DEF Entries
<1>9. ToFork'
  <2>1. \A s \in to_schedule' : s \in doing_'[iter] /\ iter \in all_units_'
    BY <1>1, <1>2, <1>5
  <2>. QED  BY <1>1, <1>2, <1>6, <2>1 DEF ToFork
<1>. QED  BY <1>3, <1>5, <1>7, <1>8, <1>9

\* The steps that leave the units, the places and what is still to be forked alone.
Aside ==
  /\ UNCHANGED <<unitVars, all_units_, left_offer_, schedule_infos_, to_schedule>>
  /\ DOMAIN child' \subseteq DOMAIN child /\ (pc' = "fork" <=> pc = "fork")
  /\ to_schedule # {} => iter' = iter

LEMMA AsideKeeps ==
  ASSUME Inv, Aside, Types' PROVE Inv'
<1>. USE DEF Inv, Aside
<1>1. UnitsExact' /\ Ended'
  BY DEF unitVars, UnitsExact, UnitExact, Ended
<1>2. \A q \in DOMAIN schedule_infos_ : UnitOf(q)' = UnitOf(q) /\ TaskOf(q)' = TaskOf(q)
  BY DEF UnitOf, TaskOf
<1>3. Entries'
  BY <1>2 DEF Entries, unitVars
<1>4. ToFork'
  BY <1>2 DEF ToFork, unitVars
<1>. QED  BY <1>1, <1>3, <1>4

LEMMA InvStep ==
  ASSUME Inv, [Next]_vars PROVE Inv'
<1>. USE DEF Inv
<1>1. ASSUME NEW p \in Pids, ReapKilled(p) PROVE Inv'
  <2>1. child' = [q \in DOMAIN child \ {p} |-> child[q]]
    BY <1>1 DEF ReapKilled, Reaped, Restrict
  <2>2. Aside
    BY <1>1, <2>1 DEF ReapKilled, Aside
  <2>3. Types'
    BY <1>1, <2>1 DEF ReapKilled, Types, unitVars
  <2>. QED  BY <2>2, <2>3, AsideKeeps
<1>2. ASSUME NEW p \in Pids, ChildEnds(p) PROVE Inv'
  <2>1. PICK how \in {"ok", "bad", "killed"} :
          /\ child' = [child EXCEPT ![p].state = how]
          /\ succeeded' = IF how # "ok" THEN succeeded
                          ELSE [succeeded EXCEPT ![child[p].unit] = @ \cup {child[p].task}]
    BY <1>2 DEF ChildEnds
  <2>2. Aside
    BY <1>2, <2>1 DEF ChildEnds, Aside
  <2>3. child' \in [DOMAIN child' -> [unit : Units, task : Names,
                                      state : {"runs", "ok", "bad", "killed"}]]
    BY <2>1 DEF Types
  <2>4. DOMAIN succeeded' = Units
    BY <2>1 DEF Types
  <2>5. Types'
    BY <1>2, <2>3, <2>4 DEF ChildEnds, Types, unitVars
  <2>. QED  BY <2>2, <2>5, AsideKeeps
<1>3. CASE NoneEnded \/ EndOfRound \/ UNCHANGED vars
  <2>1. Aside
    BY <1>3 DEF NoneEnded, EndOfRound, vars, Aside, ToFork
  <2>2. Types'
    BY <1>3 DEF NoneEnded, EndOfRound, vars, Types, unitVars
  <2>. QED  BY <2>1, <2>2, AsideKeeps
<1>. QED  BY <1>1, <1>2, <1>3, ReapKeeps, OfferKeeps, ForkChildKeeps, ForkFailureKeeps
          DEF Next, Run

LEMMA InvCorrect == Spec => []Inv
  BY InitInv, InvStep, PTL DEF Spec

\* No task of a unit is forgotten, and none waits or runs twice, in whatever order the
\* children end, whatever their numbers are and whichever forks fail.
THEOREM AllAccountedCorrect == Spec => []AllAccounted
<1>1. Inv => AllAccounted
  BY DEF Inv, UnitsExact, UnitExact, Ready, AllAccounted
<1>. QED  BY <1>1, InvCorrect, PTL

-----------------------------------------------------------------------------
(***************************************************************************)
(* Places.  A step gives a place to a task or takes one back, as long as   *)
(* the number of a child is new to schedule_infos_.                        *)
(***************************************************************************)

\* The k least elements are at most k: they differ in their ranks.
LEMMA Least ==
  ASSUME NEW S \in SUBSET Nat, IsFiniteSet(S), NEW k \in Nat
  PROVE  Cardinality({t \in S : Cardinality({s \in S : s < t}) < k}) <= k
<1>. DEFINE L == {t \in S : Rank(S, t) < k}
            rank == [t \in L |-> Rank(S, t)]
<1>1. rank \in [L -> 0..(k - 1)]
  <2>1. \A t \in L : Rank(S, t) \in 0..(k - 1)
    BY RankGrows
  <2>. QED  BY <2>1
<1>2. rank \in Injection(L, 0..(k - 1))
  BY <1>1, RankInjective DEF Injection, IsInjective
<1>3. IsFiniteSet(0..(k - 1)) /\ Cardinality(0..(k - 1)) = k
  BY FS_Interval
<1>4. Cardinality(L) <= k
  <2>. HIDE DEF rank, L
  <2>. QED  BY <1>2, <1>3, FS_Injection
<1>. QED  BY <1>4 DEF Rank

LEMMA OfferFits ==
  ASSUME Inv, NEW u \in Units, left_offer_ \in Nat
  PROVE  /\ IsFiniteSet(Offered(u)) /\ Cardinality(Offered(u)) \in Nat
         /\ Cardinality(Offered(u)) <= left_offer_
<1>1. todo_[u] \subseteq Names
  BY DEF Inv, UnitsExact, UnitExact, Ready
<1>2. todo_[u] \in SUBSET Nat /\ IsFiniteSet(todo_[u])
  BY <1>1, NamesFinite, FS_Subset
<1>3. IsFiniteSet(Offered(u))
  <2>1. Offered(u) \subseteq todo_[u]
    BY DEF Offered
  <2>. QED  BY <1>2, <2>1, FS_Subset
<1>4. Cardinality(Offered(u)) <= left_offer_
  <2>1. CASE final_fail_[u]
    BY <2>1, FS_EmptySet DEF Offered
  <2>2. CASE ~final_fail_[u]
    BY <1>2, <2>2, Least DEF Offered
  <2>. QED  BY <2>1, <2>2
<1>. QED  BY <1>3, <1>4, FS_CardinalityType

LEMMA Counted ==
  ASSUME Inv
  PROVE  /\ IsFiniteSet(DOMAIN schedule_infos_) /\ Cardinality(DOMAIN schedule_infos_) \in Nat
         /\ IsFiniteSet(to_schedule) /\ Cardinality(to_schedule) \in Nat
<1>1. to_schedule \subseteq Names
  BY DEF Inv, Types, ToFork, UnitsExact, UnitExact, Ready
<1>2. DOMAIN schedule_infos_ \subseteq Pids
  BY DEF Inv, Types
<1>. QED  BY <1>1, <1>2, ScheduleAssumption, NamesFinite, FS_Subset, FS_CardinalityType

\* OfferBalanced, and what is known of the children.
Fresh ==
  /\ OfferBalanced
  /\ \A p \in DOMAIN child :
       /\ UnitOf(p) = child[p].unit /\ TaskOf(p) = child[p].task
       /\ child[p].state = "ok" => child[p].task \in succeeded[child[p].unit]
  /\ \A u \in Units : done_[u] \subseteq succeeded[u]

LEMMA FreshInit == Init => Fresh
<1>. SUFFICES ASSUME Init PROVE Fresh
  OBVIOUS
<1>1. /\ schedule_infos_ = <<>> /\ child = <<>> /\ to_schedule = {} /\ succeeded = done_
      /\ left_offer_ = max_parallel_
  BY DEF Init
<1>2. DOMAIN schedule_infos_ = {} /\ DOMAIN child = {}
  BY <1>1
<1>3. OfferBalanced
  BY <1>1, <1>2, ScheduleAssumption, FS_EmptySet DEF OfferBalanced
<1>. QED  BY <1>1, <1>2, <1>3 DEF Fresh

LEMMA BalancedStep ==
  ASSUME PidsFresh, Inv, OfferBalanced, [Next]_vars PROVE OfferBalanced'
<1>. DEFINE n == Cardinality(DOMAIN schedule_infos_)
            m == Cardinality(to_schedule)
<1>1. /\ n \in Nat /\ m \in Nat /\ max_parallel_ \in Nat
      /\ left_offer_ \in Nat /\ left_offer_ + n + m = max_parallel_
  BY Counted, ScheduleAssumption DEF Inv, Types, OfferBalanced
<1>2. ASSUME NEW p \in Pids, Reap(p) PROVE OfferBalanced'
  <2>1. /\ p \in DOMAIN schedule_infos_ /\ to_schedule' = to_schedule
        /\ left_offer_' = left_offer_ + 1
        /\ DOMAIN schedule_infos_' = DOMAIN schedule_infos_ \ {p}
    BY <1>2 DEF Reap, Reaped, Restrict, Returned, Inv, Entries
  <2>2. Cardinality(DOMAIN schedule_infos_') = n - 1
    BY <2>1, Counted, FS_RemoveElement
  <2>. HIDE DEF n, m
  <2>. QED  BY <1>1, <2>1, <2>2 DEF OfferBalanced, m
<1>3. ASSUME NEW u \in Units, Offer(u) PROVE OfferBalanced'
  <2>1. /\ to_schedule = {} /\ to_schedule' = Offered(u) /\ schedule_infos_' = schedule_infos_
        /\ left_offer_' = left_offer_ - Cardinality(Offered(u))
    BY <1>3 DEF Offer, Inv, ToFork
  <2>2. m = 0
    BY <2>1, FS_EmptySet
  <2>3. Cardinality(Offered(u)) \in Nat /\ Cardinality(Offered(u)) <= left_offer_
    BY <1>1, OfferFits
  <2>. HIDE DEF n, m
  <2>. QED  BY <1>1, <2>1, <2>2, <2>3 DEF OfferBalanced, n
<1>4. ASSUME NEW t \in Names, ForkChild(t) PROVE OfferBalanced'
  <2>1. PICK p \in Pids : /\ p \notin DOMAIN schedule_infos_
                          /\ schedule_infos_' = Inserted(schedule_infos_, p, <<iter, t>>)
    BY <1>4 DEF ForkChild
  <2>2. /\ DOMAIN schedule_infos_' = DOMAIN schedule_infos_ \cup {p}
        /\ t \in to_schedule /\ to_schedule' = to_schedule \ {t} /\ left_offer_' = left_offer_
    BY <1>4, <2>1 DEF Inserted, ForkChild, Forks
  <2>3. Cardinality(DOMAIN schedule_infos_') = n + 1
    BY <2>1, <2>2, Counted, FS_AddElement
  <2>4. Cardinality(to_schedule') = m - 1
    BY <2>2, Counted, FS_RemoveElement
  <2>. HIDE DEF n, m
  <2>. QED  BY <1>1, <2>2, <2>3, <2>4 DEF OfferBalanced
<1>5. ASSUME NEW t \in Names, ForkFailure(t) PROVE OfferBalanced'
  <2>1. /\ schedule_infos_' = schedule_infos_ /\ left_offer_' = left_offer_ + 1
        /\ t \in to_schedule /\ to_schedule' = to_schedule \ {t}
    BY <1>5 DEF ForkFailure, Forks, Returned
  <2>2. Cardinality(to_schedule') = m - 1
    BY <2>1, Counted, FS_RemoveElement
  <2>. HIDE DEF n, m
  <2>. QED  BY <1>1, <2>1, <2>2 DEF OfferBalanced, n
<1>6. ASSUME UNCHANGED <<left_offer_, schedule_infos_, to_schedule>> PROVE OfferBalanced'
  BY <1>6 DEF OfferBalanced
<1>7. ASSUME NEW p \in Pids, ReapKilled(p) \/ ChildEnds(p) PROVE OfferBalanced'
  BY <1>6, <1>7 DEF ReapKilled, ChildEnds
<1>8. CASE NoneEnded \/ EndOfRound \/ UNCHANGED vars
  BY <1>6, <1>8 DEF NoneEnded, EndOfRound, vars
<1>. QED  BY <1>2, <1>3, <1>4, <1>5, <1>7, <1>8 DEF Next, Run

LEMMA FreshStep ==
  ASSUME PidsFresh, Inv, Fresh, [Next]_vars PROVE Fresh'
<1>. USE DEF Fresh
<1>1. OfferBalanced'
  BY BalancedStep
<1>2. ASSUME NEW p \in Pids, Reap(p) PROVE Fresh'
  <2>1. /\ p \in DOMAIN child /\ DOMAIN child' = DOMAIN child \ {p} /\ succeeded' = succeeded
        /\ \A q \in DOMAIN child' : q \in DOMAIN schedule_infos_ /\ child'[q] = child[q]
                                    /\ UnitOf(q)' = UnitOf(q) /\ TaskOf(q)' = TaskOf(q)
    BY <1>2 DEF Reap, Reaped, Restrict, UnitOf, TaskOf, Inv, Entries
  <2>2. CASE child[p].state = "ok"
    <3>1. done_' = [done_ EXCEPT ![UnitOf(p)] = @ \cup {TaskOf(p)}]
      BY <1>2, <2>2 DEF Reap, Success, UnitOf, TaskOf
    <3>2. TaskOf(p) \in succeeded[UnitOf(p)]
      BY <2>1, <2>2
    <3>3. \A u \in Units : done_'[u] \subseteq succeeded[u]
      BY <3>1, <3>2 DEF Inv, Types
    <3>. QED  BY <1>1, <2>1, <3>3
  <2>3. CASE child[p].state # "ok"
    <3>1. done_' = done_
      BY <1>2, <2>3 DEF Reap, Fail
    <3>. QED  BY <1>1, <2>1, <3>1
  <2>. QED  BY <2>2, <2>3
<1>3. ASSUME NEW p \in Pids, ReapKilled(p) PROVE Fresh'
  <2>1. /\ \A q \in DOMAIN child' : q \in DOMAIN child /\ child'[q] = child[q]
        /\ UNCHANGED <<schedule_infos_, succeeded, done_>>
    BY <1>3 DEF ReapKilled, Reaped, Restrict, unitVars
  <2>. QED  BY <1>1, <2>1 DEF UnitOf, TaskOf
<1>4. ASSUME NEW p \in Pids, ChildEnds(p) PROVE Fresh'
  <2>1. PICK how \in {"ok", "bad", "killed"} :
          /\ child' = [child EXCEPT ![p].state = how]
          /\ succeeded' = IF how # "ok" THEN succeeded
                          ELSE [succeeded EXCEPT ![child[p].unit] = @ \cup {child[p].task}]
    BY <1>4 DEF ChildEnds
  <2>2. /\ p \in DOMAIN child /\ DOMAIN child' = DOMAIN child
        /\ UNCHANGED <<schedule_infos_, done_>>
    BY <1>4, <2>1 DEF ChildEnds, unitVars
  <2>3. \A q \in DOMAIN child :
          /\ child'[q].unit = child[q].unit /\ child'[q].task = child[q].task
          /\ child'[q].state = IF q = p THEN how ELSE child[q].state
          /\ child[q].unit \in Units
    BY <2>1 DEF Inv, Types
  <2>4. \A u \in Units : succeeded[u] \subseteq succeeded'[u]
    BY <2>1 DEF Inv, Types
  <2>5. how = "ok" => child[p].task \in succeeded'[child[p].unit]
    BY <2>1, <2>2, <2>3 DEF Inv, Types
  <2>6. \A q \in DOMAIN child' :
          child'[q].state = "ok" => child'[q].task \in succeeded'[child'[q].unit]
    BY <2>2, <2>3, <2>4, <2>5
  <2>. QED  BY <1>1, <2>2, <2>3, <2>4, <2>6 DEF UnitOf, TaskOf
<1>5. ASSUME NEW t \in Names, ForkChild(t) PROVE Fresh'
  <2>1. PICK p \in Pids \ DOMAIN child :
          /\ p \notin DOMAIN schedule_infos_
          /\ child' = Inserted(child, p, [unit |-> iter, task |-> t, state |-> "runs"])
          /\ schedule_infos_' = Inserted(schedule_infos_, p, <<iter, t>>)
    BY <1>5 DEF ForkChild
  <2>2. UNCHANGED <<done_, succeeded>>
    BY <1>5 DEF ForkChild, Forks, unitVars
  <2>3. /\ DOMAIN child' = DOMAIN child \cup {p} /\ UnitOf(p)' = iter /\ TaskOf(p)' = t
        /\ child'[p] = [unit |-> iter, task |-> t, state |-> "runs"]
        /\ \A q \in DOMAIN child : child'[q] = child[q]
                                   /\ UnitOf(q)' = UnitOf(q) /\ TaskOf(q)' = TaskOf(q)
    BY <2>1 DEF Inserted, UnitOf, TaskOf, Inv, Entries
  <2>. QED  BY <1>1, <2>2, <2>3
<1>6. ASSUME UNCHANGED <<child, schedule_infos_, succeeded, done_>> PROVE Fresh'
  BY <1>1, <1>6 DEF UnitOf, TaskOf
<1>7. ASSUME NEW t \in Names, ForkFailure(t) PROVE Fresh'
  BY <1>6, <1>7 DEF ForkFailure, Forks, Fail
<1>8. ASSUME NEW u \in Units, Offer(u) PROVE Fresh'
  BY <1>6, <1>8 DEF Offer
<1>9. CASE NoneEnded \/ EndOfRound \/ UNCHANGED vars
  BY <1>6, <1>9 DEF NoneEnded, EndOfRound, vars, unitVars
<1>. QED  BY <1>2, <1>3, <1>4, <1>5, <1>7, <1>8, <1>9 DEF Next, Run

LEMMA FreshCorrect ==
  ASSUME PidsFresh PROVE Spec => []Fresh
<1>1. Inv /\ Fresh /\ [Next]_vars => Fresh'
  BY FreshStep
<1>. QED  BY <1>1, FreshInit, InvCorrect, PTL DEF Spec

\* If no number of an ended child is used again, no place is lost or given out twice.
THEOREM OfferBalancedCorrect ==
  ASSUME PidsFresh PROVE Spec => []OfferBalanced
<1>1. Fresh => OfferBalanced
  BY DEF Fresh
<1>. QED  BY <1>1, FreshCorrect, PTL

\* Under the same condition a task runs only after the commands of its dependencies
\* have succeeded, and only once at a time.
THEOREM DepsFirstCorrect ==
  ASSUME PidsFresh PROVE Spec => []DepsFirst
<1>1. ASSUME Inv, Fresh PROVE DepsFirst
  <2>1. ASSUME NEW p \in DOMAIN child
        PROVE  /\ child[p].task \in doing_[child[p].unit] /\ child[p].unit \in all_units_
               /\ graph_[child[p].unit].deps[child[p].task] \subseteq succeeded[child[p].unit]
    <3>1. /\ UnitOf(p) = child[p].unit /\ TaskOf(p) = child[p].task
          /\ UnitOf(p) \in all_units_ /\ TaskOf(p) \in doing_[UnitOf(p)]
          /\ UnitOf(p) \in Units
      BY <1>1 DEF Inv, Fresh, Entries, Types
    <3>2. TaskOf(p) \in Ready(graph_[UnitOf(p)], done_[UnitOf(p)])
      BY <1>1, <3>1 DEF Inv, UnitsExact, UnitExact
    <3>3. graph_[UnitOf(p)].deps[TaskOf(p)] \subseteq done_[UnitOf(p)]
      BY <3>2 DEF Ready
    <3>. QED  BY <1>1, <3>1, <3>3 DEF Fresh
  <2>2. ASSUME NEW p \in DOMAIN child, NEW q \in DOMAIN child,
               child[p].unit = child[q].unit, child[p].task = child[q].task
        PROVE  p = q
    BY <1>1, <2>2 DEF Inv, Fresh, Entries
  <2>. QED  BY <2>1, <2>2 DEF DepsFirst
<1>. QED  BY <1>1, FreshCorrect, InvCorrect, PTL

-----------------------------------------------------------------------------
(***************************************************************************)
(* Ends.  The tasks of every graph can be put in an order, because         *)
(* InitGraph has accepted it.                                              *)
(***************************************************************************)
AllOrdered == \A u \in Units : \E r : Orders(graph_[u], r)

LEMMA OrderedInit == Init => AllOrdered
<1>. SUFFICES ASSUME Init PROVE AllOrdered
  OBVIOUS
<1>1. PICK G \in [Units -> UNION {GraphsOf(n) : n \in 0..MaxTasks}] :
        graph_ = [u \in Units |-> InitGraph(G[u])]
  BY DEF Init
<1>2. ASSUME NEW u \in Units PROVE \E r : Orders(graph_[u], r)
  <2>1. PICK n \in 0..MaxTasks : G[u] \in GraphsOf(n)
    BY <1>1
  <2>2. Tasks(G[u]) = 1..n /\ Exact(G[u], {}) /\ InitGraphOK(G[u])
    BY <2>1, GraphsExact
  <2>3. Sortable(G[u])
    <3>1. n \in Nat /\ IsFiniteSet(1..n)
      BY ScheduleAssumption, FS_Interval
    <3>. QED  BY <2>2, <3>1 DEF Sortable
  <2>4. PICK r : Orders(G[u], r)
    BY <2>2, <2>3, AcceptedOrdered
  <2>5. graph_[u].deps = G[u].deps
    BY <1>1, <2>2, InitReady
  <2>. QED  BY <2>4, <2>5 DEF Orders, Tasks
<1>. QED  BY <1>2 DEF AllOrdered

LEMMA OrderedStep ==
  ASSUME Inv, AllOrdered, [Next]_vars PROVE AllOrdered'
<1>1. ASSUME NEW p \in Pids, Reap(p), child[p].state = "ok" PROVE AllOrdered'
  <2>1. /\ Success(UnitOf(p), TaskOf(p)) /\ UnitOf(p) \in Units
        /\ TaskOf(p) \in doing_[UnitOf(p)]
    BY <1>1 DEF Reap, Reaped, UnitOf, TaskOf, Inv, Entries, Types
  <2>. DEFINE u == UnitOf(p)
              t == TaskOf(p)
  <2>. HIDE DEF u, t
  <2>2. Success(u, t) /\ u \in Units /\ t \in doing_[u]
    BY <2>1 DEF u, t
  <2>3. graph_' = [graph_ EXCEPT ![u] = MarkTaskDone(graph_[u], t)]
    BY <2>2 DEF Success
  <2>4. UnitExact(u)
    BY <2>2 DEF Inv, UnitsExact
  <2>5. MarkTaskDone(graph_[u], t).deps = graph_[u].deps
    <3>1. /\ Exact(graph_[u], done_[u]) /\ t \in graph_[u].todo_tasks_
          /\ graph_[u].todo_tasks_ = Ready(graph_[u], done_[u])
      BY <2>2, <2>4 DEF UnitExact
    <3>. QED  BY <3>1, Marked
  <2>6. \A v \in Units : graph_'[v].deps = graph_[v].deps
    BY <2>2, <2>3, <2>5 DEF Inv, Types
  <2>. QED  BY <2>6 DEF AllOrdered, Orders, Tasks
<1>2. ASSUME graph_' = graph_ PROVE AllOrdered'
  BY <1>2 DEF AllOrdered
<1>3. ASSUME NEW p \in Pids, (Reap(p) /\ child[p].state # "ok") \/ ReapKilled(p) \/ ChildEnds(p)
      PROVE  AllOrdered'
  BY <1>2, <1>3 DEF Reap, Fail, ReapKilled, ChildEnds, unitVars
<1>4. ASSUME NEW u \in Units, Offer(u) PROVE AllOrdered'
  BY <1>2, <1>4 DEF Offer
<1>5. ASSUME NEW t \in Names, ForkChild(t) \/ ForkFailure(t) PROVE AllOrdered'
  BY <1>2, <1>5 DEF ForkChild, ForkFailure, Fail, unitVars
<1>6. CASE NoneEnded \/ EndOfRound \/ UNCHANGED vars
  BY <1>2, <1>6 DEF NoneEnded, EndOfRound, vars, unitVars
<1>. QED  BY <1>1, <1>3, <1>4, <1>5, <1>6 DEF Next, Run

\* Among the tasks that are not done one depends on nothing else that is not done.
LEMMA SomeReady ==
  ASSUME AllOrdered, NEW u \in Units, Tasks(graph_[u]) \ done_[u] # {}
  PROVE  Ready(graph_[u], done_[u]) # {}
<1>1. PICK r : Orders(graph_[u], r)
  BY DEF AllOrdered
<1>2. PICK t \in Tasks(graph_[u]) \ done_[u] :
        graph_[u].deps[t] \cap (Tasks(graph_[u]) \ done_[u]) = {}
  BY <1>1, OrderedFirst
<1>3. graph_[u].deps[t] \subseteq done_[u]
  BY <1>1, <1>2 DEF Orders
<1>. QED  BY <1>2, <1>3 DEF Ready

LEMMA OrderedCorrect == Spec => []AllOrdered
<1>1. Inv /\ AllOrdered /\ [Next]_vars => AllOrdered'
  BY OrderedStep
<1>. QED  BY OrderedInit, <1>1, InvCorrect, PTL DEF Spec

\* A unit is given up only when nothing of it runs and all of its tasks have succeeded or
\* one has failed for good: among the tasks that are not done one depends on nothing else
\* that is not done, so that something is left to do until all are done.
THEOREM EndsCompleteCorrect == Spec => []EndsComplete
<1>1. ASSUME Inv, AllOrdered PROVE EndsComplete
  <2>1. ASSUME NEW u \in Units \ all_units_
        PROVE  doing_[u] = {} /\ (done_[u] = Tasks(graph_[u]) \/ final_fail_[u])
    <3>1. doing_[u] = {} /\ (todo_[u] = {} \/ final_fail_[u])
      BY <1>1 DEF Inv, Ended
    <3>2. /\ todo_[u] \cup doing_[u] = Ready(graph_[u], done_[u])
          /\ done_[u] \subseteq Tasks(graph_[u])
      BY <1>1 DEF Inv, UnitsExact, UnitExact, Exact, Order
    <3>3. Tasks(graph_[u]) \ done_[u] # {} => Ready(graph_[u], done_[u]) # {}
      BY <1>1, SomeReady
    <3>. QED  BY <3>1, <3>2, <3>3
  <2>. QED  BY <2>1 DEF EndsComplete
<1>. QED  BY <1>1, OrderedCorrect, InvCorrect, PTL

\* In whatever order the children end, fail and are started again, the tasks to do of a
\* graph are those that are not done and whose dependencies are, out_degree counts what is
\* missing, and a graph that InitGraph has accepted always has a task to do until all are
\* done.
THEOREM TodoInStepCorrect == Spec => []TodoInStep
<1>1. ASSUME Inv, AllOrdered PROVE TodoInStep
  <2>. SUFFICES ASSUME NEW u \in Units
                PROVE  LET g    == graph_[u]
                           left == Tasks(g) \ done_[u]
                       IN /\ g.todo_tasks_ = {t \in left : g.deps[t] \subseteq done_[u]}
                          /\ \A t \in left : g.out_degree[t] = Cardinality(g.deps[t] \ done_[u])
                          /\ left # {} => g.todo_tasks_ # {}
    BY DEF TodoInStep
  <2>1. /\ graph_[u].todo_tasks_ = Ready(graph_[u], done_[u])
        /\ Counts(graph_[u], done_[u])
    BY <1>1 DEF Inv, UnitsExact, UnitExact, Exact
  <2>2. Tasks(graph_[u]) \ done_[u] # {} => Ready(graph_[u], done_[u]) # {}
    BY <1>1, SomeReady
  <2>. QED  BY <2>1, <2>2 DEF Counts, Ready
<1>. QED  BY <1>1, OrderedCorrect, InvCorrect, PTL
=============================================================================
