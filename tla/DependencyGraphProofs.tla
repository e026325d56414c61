----------------------- MODULE DependencyGraphProofs -----------------------
(***************************************************************************)
(* The functions of the dependency graph, for every finite set of services *)
(* and whatever they declare: createDependencyGraph accepts exactly the    *)
(* acyclic graphs (Kahn's algorithm emits every service exactly of those), *)
(* computeClosure returns what is reachable, and topologicalSort lists     *)
(* every service once, after what it depends on.                           *)
(*                                                                         *)
(* The functions go round by round, so that what they compute is proved by *)
(* induction on the rounds.  The library's induction theorems take an      *)
(* operator as a parameter, which the provers cannot instantiate; here the *)
(* rounds that a statement holds of are a set, and a set of numbers that   *)
(* is not empty has a least element (LeastNatural, InductionOnSet).  A     *)
(* bounded chain of sets stops growing (Stabilizes), which is why as many  *)
(* rounds as there are services are enough.                                *)
(***************************************************************************)
EXTENDS DependencyGraphInputs, FiniteSetTheorems, WellFoundedInduction, SequenceTheorems, TLAPS

(* Induction, by the least-number principle for sets.                       *)

LEMMA LeastNatural ==
  ASSUME NEW T, T \subseteq Nat, T # {}
  PROVE  \E x \in T : \A y \in T : x <= y
<1> DEFINE R == {ss \in Nat \X Nat : ss[1] < ss[2]}
<1>1. OpToRel(<, Nat) = R
  BY DEF OpToRel
<1>2. IsWellFoundedOn(R, Nat)
  BY <1>1, NatLessThanWellFounded
<1> HIDE DEF R
<1>3. PICK x \in T : \A y \in T : <<y, x>> \notin R
  BY <1>2, WFMin
<1>4. \A y \in T : ~(y < x)
  BY <1>3 DEF R
<1> QED
  BY <1>4

LEMMA InductionOnSet ==
  ASSUME NEW S, 0 \in S, \A n \in Nat : n \in S => n + 1 \in S
  PROVE  Nat \subseteq S
<1> SUFFICES ASSUME Nat \ S # {} PROVE FALSE
  OBVIOUS
<1>1. PICK x \in Nat \ S : \A y \in Nat \ S : x <= y
  BY LeastNatural
<1>2. x # 0 /\ x - 1 \in Nat
  BY <1>1
<1>3. x - 1 \in S
  BY <1>1, <1>2
<1> QED
  BY <1>1, <1>2, <1>3

\* g is the first n steps from f0.
Begins(n, g, S, f0, step) ==
    g \in [0..n -> S] /\ g[0] = f0 /\ \A i \in 0..(n - 1) : g[i + 1] = step[g[i]]

\* f is all the steps from f0.
Iterates(f, S, f0, step) ==
    f \in [Nat -> S] /\ f[0] = f0 /\ \A n \in Nat : f[n + 1] = step[f[n]]

\* A value and a step determine the sequence of all the steps from it.
LEMMA Iteration ==
  ASSUME NEW S, NEW f0 \in S, NEW step \in [S -> S]
  PROVE  \E f : Iterates(f, S, f0, step)
<1>1. ASSUME NEW n \in Nat PROVE \E g : Begins(n, g, S, f0, step)
  <2> DEFINE P == {k \in Nat : \E g : Begins(k, g, S, f0, step)}
  <2>1. 0 \in P
    <3>1. Begins(0, [i \in 0..0 |-> f0], S, f0, step)
      BY DEF Begins
    <3> QED
      BY <3>1
  <2>2. ASSUME NEW k \in Nat, k \in P PROVE k + 1 \in P
    <3>1. PICK g : Begins(k, g, S, f0, step)
      BY <2>2
    <3> DEFINE h == [i \in 0..(k + 1) |-> IF i = k + 1 THEN step[g[k]] ELSE g[i]]
    <3>2. step[g[k]] \in S /\ g \in [0..k -> S]
      BY <3>1 DEF Begins
    <3>3. h \in [0..(k + 1) -> S] /\ h[0] = f0
      BY <3>1, <3>2 DEF Begins
    <3>4. ASSUME NEW i \in 0..((k + 1) - 1) PROVE h[i + 1] = step[h[i]]
      <4>1. CASE i = k
        BY <4>1
      <4>2. CASE i # k
        BY <3>1, <4>2 DEF Begins
      <4> QED
        BY <4>1, <4>2
    <3>5. Begins(k + 1, h, S, f0, step)
      BY <3>3, <3>4 DEF Begins
    <3> QED
      BY <3>5
  <2> HIDE DEF P
  <2>3. Nat \subseteq P
    BY <2>1, <2>2, InductionOnSet
  <2> QED
    BY <2>3 DEF P
<1>2. ASSUME NEW n \in Nat, NEW m \in Nat, n <= m, NEW g, NEW h,
             Begins(n, g, S, f0, step), Begins(m, h, S, f0, step)
      PROVE  g[n] = h[n]
  <2> DEFINE P == {k \in Nat : k <= n => g[k] = h[k]}
  <2>1. 0 \in P
    BY <1>2 DEF Begins
  <2>2. ASSUME NEW k \in Nat, k \in P PROVE k + 1 \in P
    <3>1. CASE k + 1 <= n
      <4>1. k \in 0..(n - 1) /\ k \in 0..(m - 1) /\ g[k] = h[k]
        BY <1>2, <2>2, <3>1
      <4> QED
        BY <1>2, <4>1 DEF Begins
    <3> QED
      BY <3>1
  <2> HIDE DEF P
  <2>3. Nat \subseteq P
    BY <2>1, <2>2, InductionOnSet
  <2> QED
    BY <2>3 DEF P
<1> DEFINE start(n) == CHOOSE g : Begins(n, g, S, f0, step)
           f == [n \in Nat |-> start(n)[n]]
<1>3. ASSUME NEW n \in Nat
      PROVE  /\ \E g : Begins(n, g, S, f0, step) /\ f[n] = g[n]
             /\ f[n] \in S
  <2>1. Begins(n, start(n), S, f0, step)
    BY <1>1
  <2>2. f[n] = start(n)[n]
    OBVIOUS
  <2> HIDE DEF start, f
  <2>3. start(n)[n] \in S
    BY <2>1 DEF Begins
  <2> QED
    BY <2>1, <2>2, <2>3
<1> HIDE DEF f
<1>4. f \in [Nat -> S]
  BY <1>3 DEF f
<1>5. f[0] = f0
  BY <1>3 DEF Begins
<1>6. ASSUME NEW n \in Nat PROVE f[n + 1] = step[f[n]]
  <2>1. PICK g : Begins(n, g, S, f0, step) /\ f[n] = g[n]
    BY <1>3
  <2>2. PICK h : Begins(n + 1, h, S, f0, step) /\ f[n + 1] = h[n + 1]
    BY <1>3
  <2>3. g[n] = h[n]
    BY <1>2, <2>1, <2>2
  <2>4. h[n + 1] = step[h[n]]
    BY <2>2 DEF Begins
  <2> QED
    BY <2>1, <2>2, <2>3, <2>4
<1> QED
  BY <1>4, <1>5, <1>6 DEF Iterates

\* A growing sequence of subsets of a finite set, each of which determines the
\* next, stands still as soon as there is no element left to add.
LEMMA Stabilizes ==
  ASSUME NEW N, IsFiniteSet(N), NEW f \in [Nat -> SUBSET N], NEW step,
         \A n \in Nat : f[n] \subseteq f[n + 1] /\ f[n + 1] = step[f[n]]
  PROVE  /\ Cardinality(N) \in Nat
         /\ f[Cardinality(N) + 1] = f[Cardinality(N)]
<1> DEFINE P == {n \in Nat : f[n + 1] = f[n] \/ Cardinality(f[n]) >= n}
<1>1. \A n \in Nat : IsFiniteSet(f[n]) /\ Cardinality(f[n]) \in Nat
  BY FS_Subset, FS_CardinalityType
<1>2. 0 \in P
  BY <1>1
<1>3. ASSUME NEW n \in Nat, n \in P PROVE n + 1 \in P
  <2>1. CASE f[n + 1] = f[n]
    <3>1. f[(n + 1) + 1] = step[f[n + 1]] /\ f[n + 1] = step[f[n]]
      OBVIOUS
    <3> QED
      BY <2>1, <3>1
  <2>2. CASE f[n + 1] # f[n] /\ Cardinality(f[n]) >= n
    <3>1. /\ f[n] \in SUBSET f[n + 1] /\ IsFiniteSet(f[n + 1])
          /\ Cardinality(f[n]) \in Nat /\ Cardinality(f[n + 1]) \in Nat
      BY <1>1
    <3>2. Cardinality(f[n]) <= Cardinality(f[n + 1]) /\ Cardinality(f[n]) # Cardinality(f[n + 1])
      BY <2>2, <3>1, FS_Subset
    <3>3. Cardinality(f[n + 1]) >= n + 1
      BY <2>2, <3>1, <3>2
    <3> QED
      BY <3>3
  <2> QED
    BY <1>3, <2>1, <2>2
<1> HIDE DEF P
<1>4. Nat \subseteq P
  BY <1>2, <1>3, InductionOnSet
<1> DEFINE c == Cardinality(N)
<1>5. c \in Nat
  BY FS_CardinalityType
<1> HIDE DEF c
<1>6. CASE Cardinality(f[c]) >= c
  <2>1. /\ f[c] \in SUBSET N /\ f[c + 1] \in SUBSET N /\ Cardinality(f[c]) \in Nat
        /\ f[c] \subseteq f[c + 1]
    BY <1>1, <1>5
  <2>2. Cardinality(f[c]) <= Cardinality(N)
    BY <2>1, FS_Subset
  <2>3. f[c] = N
    BY <1>5, <1>6, <2>1, <2>2, FS_Subset DEF c
  <2> QED
    BY <1>5, <2>1, <2>3 DEF c
<1>7. c \in P
  BY <1>4, <1>5
<1> QED
  BY <1>5, <1>6, <1>7 DEF P, c
-----------------------------------------------------------------------------
\* There is an ascending enumeration of every finite set of naturals.
LEMMA Ascending ==
  ASSUME NEW U, U \subseteq Nat, IsFiniteSet(U)
  PROVE  \E ids \in [1..Cardinality(U) -> U] :
             \A i, j \in DOMAIN ids : i < j => ids[i] < ids[j]
<1> DEFINE Enumerated(S, n) ==
               \E ids \in [1..n -> S] : \A i, j \in 1..n : i < j => ids[i] < ids[j]
           P == {n \in Nat : \A S \in SUBSET Nat :
                     IsFiniteSet(S) /\ Cardinality(S) = n => Enumerated(S, n)}
<1>1. 0 \in P
  <2>1. ASSUME NEW S \in SUBSET Nat PROVE Enumerated(S, 0)
    <3> DEFINE none == [i \in 1..0 |-> 0]
    <3>1. none \in [1..0 -> S] /\ \A i, j \in 1..0 : i < j => none[i] < none[j]
      OBVIOUS
    <3> HIDE DEF none
    <3> QED
      BY <3>1
  <2> QED
    BY <2>1
<1>2. ASSUME NEW n \in Nat, n \in P PROVE n + 1 \in P
  <2>1. ASSUME NEW S \in SUBSET Nat, IsFiniteSet(S), Cardinality(S) = n + 1
        PROVE  Enumerated(S, n + 1)
    <3>1. S # {}
      BY <2>1, FS_EmptySet
    <3>2. PICK m \in S : \A y \in S : m <= y
      BY <3>1, LeastNatural
    <3>3. IsFiniteSet(S \ {m}) /\ Cardinality(S \ {m}) = n
      <4>1. /\ IsFiniteSet(S \ {m})
            /\ Cardinality(S \ {m}) = Cardinality(S) - 1
        BY <2>1, <3>2, FS_RemoveElement
      <4>2. (n + 1) - 1 = n
        OBVIOUS
      <4> QED
        BY <2>1, <4>1, <4>2
    <3>4. Enumerated(S \ {m}, n)
      <4>1. S \ {m} \in SUBSET Nat
        OBVIOUS
      <4> QED
        BY <1>2, <3>3, <4>1
    <3>5. PICK ids \in [1..n -> S \ {m}] : \A i, j \in 1..n : i < j => ids[i] < ids[j]
      BY <3>4
    <3> DEFINE new == [i \in 1..(n + 1) |-> IF i = 1 THEN m ELSE ids[i - 1]]
    <3>6. new \in [1..(n + 1) -> S]
      BY <3>2, <3>5
    <3>7. ASSUME NEW i \in 1..(n + 1), NEW j \in 1..(n + 1), i < j PROVE new[i] < new[j]
      <4>1. j - 1 \in 1..n /\ new[j] = ids[j - 1] /\ ids[j - 1] \in S \ {m}
        BY <3>5, <3>7
      <4>2. CASE i = 1
        <5>1. new[i] = m /\ m \in Nat /\ ids[j - 1] \in Nat
          BY <3>2, <4>1, <4>2
        <5>2. m <= ids[j - 1] /\ m # ids[j - 1]
          BY <3>2, <4>1
        <5>3. new[j] = ids[j - 1]
          BY <4>1
        <5> HIDE DEF new
        <5> QED
          BY <5>1, <5>2, <5>3
      <4>3. CASE i # 1
        <5>1. i - 1 \in 1..n /\ i - 1 < j - 1 /\ new[i] = ids[i - 1]
          BY <3>7, <4>3
        <5> QED
          BY <3>5, <4>1, <5>1
      <4> QED
        BY <4>2, <4>3
    <3> HIDE DEF new
    <3> QED
      BY <3>6, <3>7
  <2> HIDE DEF Enumerated
  <2> QED
    BY <2>1
<1> HIDE DEF P
<1>3. Nat \subseteq P
  BY <1>1, <1>2, InductionOnSet
<1>4. Cardinality(U) \in Nat
  BY FS_CardinalityType
<1>5. Enumerated(U, Cardinality(U))
  BY <1>3, <1>4 DEF P
<1> QED
  BY <1>5

\* queue.sort() lists a set of ids once each.
LEMMA SortedIdsList ==
  ASSUME NEW U, U \subseteq Nat, IsFiniteSet(U)
  PROVE  SortedIds(U) \in Seq(U) /\ Lists(SortedIds(U), U)
<1> DEFINE n == Cardinality(U)
           q == SortedIds(U)
<1>1. n \in Nat
  BY FS_CardinalityType
<1>2. q \in [1..n -> U] /\ \A i, j \in DOMAIN q : i < j => q[i] < q[j]
  BY Ascending DEF SortedIds
<1> HIDE DEF n, q
<1>3. q \in Seq(U) /\ Len(q) = n /\ DOMAIN q = 1..n
  BY <1>1, <1>2
<1> DEFINE R == ToSet(q)
<1>4. R \in SUBSET U /\ R = {q[i] : i \in 1..n}
  BY <1>2, <1>3 DEF ToSet
<1>5. IsInjective(q)
  <2>1. ASSUME NEW a \in 1..n, NEW b \in 1..n, q[a] = q[b] PROVE a = b
    <3>1. q[a] \in Nat /\ q[b] \in Nat
      BY <1>2
    <3> QED
      BY <1>1, <1>2, <1>3, <2>1, <3>1
  <2> QED
    BY <1>3, <2>1 DEF IsInjective
<1> HIDE DEF R
<1>6. q \in Bijection(1..n, R)
  <2>1. q \in [1..n -> R] /\ \A t \in R : \E s \in 1..n : q[s] = t
    BY <1>2, <1>4
  <2> QED
    BY <1>5, <2>1 DEF Bijection, Injection, Surjection
<1>7. ExistsBijection(1..n, R)
  BY <1>6 DEF ExistsBijection
<1>8. IsFiniteSet(1..n) /\ Cardinality(1..n) = n
  BY <1>1, FS_Interval
<1>9. Cardinality(R) = n
  BY <1>7, <1>8, FS_Bijection
<1>10. R = U
  BY <1>4, <1>9, FS_Subset DEF n
<1> QED
  BY <1>3, <1>10 DEF Lists, R, q, n

\* Flattening is appending one sequence after the other.
LEMMA FlattenSeqAppends ==
  ASSUME NEW T, NEW bs \in Seq(Seq(T)), Len(bs) # 0
  PROVE  \E fl \in [1..Len(bs) -> Seq(T)] :
             /\ fl[1] = bs[1]
             /\ \A i \in 1..(Len(bs) - 1) : fl[i + 1] = fl[i] \o bs[i + 1]
             /\ FlattenSeq(bs) = fl[Len(bs)]
<1> DEFINE n == Len(bs)
           Appended(g, k) == /\ g \in [1..k -> Seq(T)] /\ g[1] = bs[1]
                             /\ \A i \in 1..(k - 1) : g[i + 1] = g[i] \o bs[i + 1]
           P == {k \in Nat : k + 1 <= n => \E g : Appended(g, k + 1)}
<1>1. n \in Nat \ {0} /\ \A i \in 1..n : bs[i] \in Seq(T)
  OBVIOUS
<1> HIDE DEF n
<1>2. 0 \in P
  <2>1. Appended([i \in 1..(0 + 1) |-> bs[1]], 0 + 1)
    BY <1>1
  <2> HIDE DEF Appended
  <2> QED
    BY <2>1
<1>3. ASSUME NEW k \in Nat, k \in P PROVE k + 1 \in P
  <2>1. ASSUME (k + 1) + 1 <= n PROVE \E g : Appended(g, (k + 1) + 1)
    <3>0. k + 1 <= n
      BY <1>1, <2>1
    <3>1. PICK g : Appended(g, k + 1)
      <4> HIDE DEF Appended
      <4> QED
        BY <1>3, <3>0
    <3> DEFINE h == [i \in 1..((k + 1) + 1) |->
                        IF i = (k + 1) + 1 THEN g[k + 1] \o bs[(k + 1) + 1] ELSE g[i]]
    <3>2. g[k + 1] \o bs[(k + 1) + 1] \in Seq(T)
      <4>1. g[k + 1] \in Seq(T) /\ bs[(k + 1) + 1] \in Seq(T)
        BY <1>1, <2>1, <3>1
      <4> QED
        BY <4>1
    <3>3. h \in [1..((k + 1) + 1) -> Seq(T)] /\ h[1] = bs[1]
      BY <3>1, <3>2
    <3>4. ASSUME NEW i \in 1..(((k + 1) + 1) - 1) PROVE h[i + 1] = h[i] \o bs[i + 1]
      <4>1. CASE i = k + 1
        <5>1. /\ k + 1 \in 1..((k + 1) + 1) /\ k + 1 # (k + 1) + 1
              /\ (k + 1) + 1 \in 1..((k + 1) + 1)
          OBVIOUS
        <5>2. h[(k + 1) + 1] = g[k + 1] \o bs[(k + 1) + 1]
          BY <5>1, Zenon
        <5>3. h[k + 1] = g[k + 1]
          BY <5>1, Zenon
        <5> HIDE DEF h
        <5> QED
          BY <4>1, <5>2, <5>3
      <4>2. CASE i # k + 1
        <5>1. i \in 1..((k + 1) - 1) /\ h[i] = g[i] /\ h[i + 1] = g[i + 1]
          BY <4>2
        <5> QED
          BY <3>1, <5>1
      <4> QED
        BY <4>1, <4>2
    <3> HIDE DEF h
    <3> QED
      BY <3>3, <3>4
  <2> HIDE DEF Appended
  <2> QED
    BY <2>1
<1> HIDE DEF P
<1>4. Nat \subseteq P
  BY <1>2, <1>3, InductionOnSet
<1>5. n - 1 \in P /\ n - 1 \in Nat /\ (n - 1) + 1 = n
  BY <1>1, <1>4
<1>6. PICK g : Appended(g, n)
  <2> HIDE DEF Appended
  <2>1. n - 1 \in Nat /\ (n - 1) + 1 <= n /\ \E g : Appended(g, (n - 1) + 1)
    BY <1>1, <1>5 DEF P
  <2> QED
    BY <1>5, <2>1
<1> DEFINE Unfolded(f) == f = [i \in 1..Len(bs) |-> IF i = 1 THEN bs[i] ELSE f[i - 1] \o bs[i]]
<1>7. Unfolded(g)
  <2>1. ASSUME NEW i \in 1..n PROVE g[i] = IF i = 1 THEN bs[i] ELSE g[i - 1] \o bs[i]
    <3>1. CASE i # 1
      <4>1. i - 1 \in 1..(n - 1) /\ (i - 1) + 1 = i
        BY <1>1, <3>1
      <4> QED
        BY <1>6, <3>1, <4>1
    <3> QED
      BY <1>6, <3>1
  <2> QED
    BY <1>6, <2>1 DEF n
<1> DEFINE flatten == CHOOSE f : Unfolded(f)
<1>8. Unfolded(flatten)
  BY <1>7
<1>9. FlattenSeq(bs) = flatten[n]
  BY <1>1 DEF FlattenSeq, n
<1> HIDE DEF flatten
<1>10. \A i \in 1..n : flatten[i] = IF i = 1 THEN bs[i] ELSE flatten[i - 1] \o bs[i]
  BY <1>8 DEF n
<1> DEFINE Q == {k \in Nat : k + 1 <= n => flatten[k + 1] \in Seq(T)}
<1>11. 0 \in Q
  BY <1>1, <1>10
<1>12. ASSUME NEW k \in Nat, k \in Q PROVE k + 1 \in Q
  <2>1. ASSUME (k + 1) + 1 <= n PROVE flatten[(k + 1) + 1] \in Seq(T)
    <3>1. flatten[k + 1] \in Seq(T) /\ bs[(k + 1) + 1] \in Seq(T)
      BY <1>1, <1>12, <2>1
    <3>2. flatten[(k + 1) + 1] = flatten[k + 1] \o bs[(k + 1) + 1]
      <4>1. (k + 1) + 1 \in 1..n /\ (k + 1) + 1 # 1 /\ ((k + 1) + 1) - 1 = k + 1
        BY <1>1, <2>1
      <4> QED
        BY <1>10, <4>1
    <3> QED
      BY <3>1, <3>2
  <2> QED
    BY <2>1
<1> HIDE DEF Q
<1>13. Nat \subseteq Q
  BY <1>11, <1>12, InductionOnSet
<1>14. flatten \in [1..n -> Seq(T)]
  <2>1. ASSUME NEW i \in 1..n PROVE flatten[i] \in Seq(T)
    <3>1. i - 1 \in Nat /\ (i - 1) + 1 = i /\ i - 1 \in Q
      BY <1>1, <1>13
    <3> QED
      BY <1>1, <3>1 DEF Q
  <2> QED
    BY <1>8, <2>1 DEF n
<1>15. flatten[1] = bs[1] /\ \A i \in 1..(n - 1) : flatten[i + 1] = flatten[i] \o bs[i + 1]
  <2>1. 1 \in 1..n /\ \A i \in 1..(n - 1) : i + 1 \in 1..n /\ i + 1 # 1 /\ (i + 1) - 1 = i
    BY <1>1
  <2> QED
    BY <1>10, <2>1
<1> QED
  BY <1>9, <1>14, <1>15 DEF n
-----------------------------------------------------------------------------
LEMMA ReachableIsClosed ==
  ASSUME NEW Nodes, NEW edges \in [Nodes -> SUBSET Nodes], NEW s \in Nodes
  PROVE  /\ Reachable(edges, s) \in SUBSET Nodes
         /\ edges[s] \subseteq Reachable(edges, s)
         /\ Closed(edges, Reachable(edges, s))
         /\ \A X \in SUBSET Nodes : edges[s] \subseteq X /\ Closed(edges, X)
                                      => Reachable(edges, s) \subseteq X
<1>1. Reachable(edges, s) \in SUBSET Nodes /\ edges[s] \subseteq Reachable(edges, s)
  BY DEF Reachable
<1>2. Closed(edges, Reachable(edges, s))
  <2>1. ASSUME NEW x \in Reachable(edges, s), NEW t \in edges[x],
               NEW X \in SUBSET Nodes, edges[s] \subseteq X, Closed(edges, X)
        PROVE  t \in X
    <3>1. x \in X
      BY <2>1 DEF Reachable
    <3> QED
      BY <2>1, <3>1 DEF Closed
  <2>2. ASSUME NEW x \in Reachable(edges, s), NEW t \in edges[x]
        PROVE  t \in Nodes
    BY <1>1, <2>2
  <2> QED
    BY <2>1, <2>2 DEF Closed, Reachable
<1> QED
  BY <1>1, <1>2 DEF Reachable

LEMMA ReachableIsTransitive ==
  ASSUME NEW Nodes, NEW edges \in [Nodes -> SUBSET Nodes], NEW s \in Nodes, NEW t \in Reachable(edges, s)
  PROVE  t \in Nodes /\ Reachable(edges, t) \subseteq Reachable(edges, s)
<1>1. t \in Nodes /\ edges[t] \subseteq Reachable(edges, s)
  BY ReachableIsClosed DEF Closed
<1> QED
  BY <1>1, ReachableIsClosed

\* computeClosure computes the set of the nodes reachable from start, without
\* start: the rounds stay below every closed set, and stop growing in one.
LEMMA ClosureOfEdges ==
  ASSUME NEW Nodes, Nodes \subseteq Nat, IsFiniteSet(Nodes),
         NEW edges \in [Nodes -> SUBSET Nodes], NEW s \in Nodes
  PROVE  ComputeClosure(edges, s) = Reachable(edges, s) \ {s}
<1> DEFINE Next(X) == (edges[s] \cup UNION {edges[x] : x \in X}) \ {s}
           step == [X \in SUBSET Nodes |-> Next(X)]
           Unfolded(f) ==
               f = [n \in Nat |-> (edges[s] \cup
                        IF n = 0 THEN {} ELSE UNION {edges[x] : x \in f[n - 1]}) \ {s}]
           Visited == CHOOSE f : Unfolded(f)
           last == Cardinality(Nodes)
<1>1. \A X \in SUBSET Nodes : Next(X) \in SUBSET Nodes
  OBVIOUS
<1>2. step \in [SUBSET Nodes -> SUBSET Nodes]
  BY <1>1
<1>3. \E f : Unfolded(f)
  <2>1. edges[s] \ {s} \in SUBSET Nodes
    OBVIOUS
  <2>2. PICK f \in [Nat -> SUBSET Nodes] :
            f[0] = edges[s] \ {s} /\ \A n \in Nat : f[n + 1] = step[f[n]]
    <3> DEFINE S == SUBSET Nodes
               f0 == edges[s] \ {s}
    <3>1. f0 \in S /\ step \in [S -> S]
      BY <1>2, <2>1
    <3> HIDE DEF step, S, f0
    <3>2. PICK f : Iterates(f, S, f0, step)
      BY <3>1, Iteration
    <3> QED
      BY <3>2 DEF Iterates, S, f0
  <2>3. ASSUME NEW n \in Nat
        PROVE  f[n] = (edges[s] \cup
                    IF n = 0 THEN {} ELSE UNION {edges[x] : x \in f[n - 1]}) \ {s}
    <3>1. CASE n = 0
      BY <2>2, <3>1
    <3>2. CASE n # 0
      <4>1. n - 1 \in Nat /\ (n - 1) + 1 = n
        BY <3>2
      <4>2. f[n] = step[f[n - 1]] /\ f[n - 1] \in SUBSET Nodes
        BY <2>2, <4>1
      <4> QED
        BY <3>2, <4>2
    <3> QED
      BY <3>1, <3>2
  <2>4. Unfolded(f)
    BY <2>2, <2>3
  <2> QED
    BY <2>4
<1>4. Unfolded(Visited)
  BY <1>3
<1>5. ComputeClosure(edges, s) = Visited[last]
  BY DEF ComputeClosure
<1> HIDE DEF Visited
<1>6. Visited[0] = edges[s] \ {s} /\ \A n \in Nat : Visited[n + 1] = Next(Visited[n])
  <2>1. Visited[0] = edges[s] \ {s}
    BY <1>4
  <2>2. ASSUME NEW n \in Nat PROVE Visited[n + 1] = Next(Visited[n])
    <3>1. n + 1 \in Nat /\ n + 1 # 0 /\ (n + 1) - 1 = n
      OBVIOUS
    <3> QED
      BY <1>4, <3>1
  <2> QED
    BY <2>1, <2>2
<1>7. Visited \in [Nat -> SUBSET Nodes]
  <2> DEFINE P == {n \in Nat : Visited[n] \in SUBSET Nodes}
  <2> HIDE DEF Next
  <2>1. 0 \in P
    BY <1>6
  <2>2. \A n \in Nat : n \in P => n + 1 \in P
    BY <1>1, <1>6
  <2>3. Nat \subseteq P
    <3> HIDE DEF P
    <3> QED
      BY <2>1, <2>2, InductionOnSet
  <2> QED
    BY <1>4, <2>3
<1>8. \A n \in Nat : Visited[n] \subseteq Visited[n + 1]
  <2> DEFINE P == {n \in Nat : Visited[n] \subseteq Visited[n + 1]}
  <2>1. 0 \in P
    <3>1. Visited[0 + 1] = Next(Visited[0])
      <4> HIDE DEF Next
      <4> QED
        BY <1>6
    <3>2. edges[s] \ {s} \subseteq Next(Visited[0])
      OBVIOUS
    <3>3. Visited[0] \subseteq Visited[0 + 1]
      BY <1>6, <3>1, <3>2
    <3> QED
      BY <3>3
  <2>2. ASSUME NEW n \in Nat, n \in P PROVE n + 1 \in P
    <3>1. Visited[n] \subseteq Visited[n + 1]
      BY <2>2
    <3>2. Visited[n + 1] = Next(Visited[n]) /\ Visited[(n + 1) + 1] = Next(Visited[n + 1])
      <4> HIDE DEF Next
      <4> QED
        BY <1>6
    <3>3. Next(Visited[n]) \subseteq Next(Visited[n + 1])
      BY <3>1
    <3> QED
      BY <3>2, <3>3
  <2>3. Nat \subseteq P
    <3> HIDE DEF P
    <3> QED
      BY <2>1, <2>2, InductionOnSet
  <2> QED
    BY <2>3
<1>9. last \in Nat /\ Visited[last + 1] = Visited[last]
  <2>1. \A n \in Nat : Visited[n + 1] = step[Visited[n]]
    BY <1>6, <1>7
  <2> HIDE DEF step
  <2> QED
    BY <1>7, <1>8, <2>1, Stabilizes
<1> HIDE DEF last
<1> DEFINE C == Visited[last]
<1>10. C \in SUBSET Nodes /\ C = Next(C)
  BY <1>6, <1>7, <1>9
<1>11. Reachable(edges, s) \ {s} \subseteq C
  <2>1. C \cup {s} \in SUBSET Nodes /\ edges[s] \subseteq C \cup {s}
    BY <1>10
  <2>2. Closed(edges, C \cup {s})
    BY <1>10 DEF Closed
  <2> HIDE DEF C
  <2> QED
    BY <2>1, <2>2, ReachableIsClosed
<1>12. C \subseteq Reachable(edges, s) \ {s}
  <2> DEFINE X == Reachable(edges, s)
             P == {n \in Nat : Visited[n] \subseteq X \ {s}}
  <2>1. edges[s] \subseteq X /\ Closed(edges, X)
    BY ReachableIsClosed
  <2> HIDE DEF X
  <2>2. 0 \in P
    BY <1>6, <2>1
  <2>3. ASSUME NEW n \in Nat, n \in P PROVE n + 1 \in P
    <3>1. Visited[n] \subseteq X /\ Visited[n + 1] = Next(Visited[n])
      BY <1>6, <2>3
    <3>2. Next(Visited[n]) \subseteq X \ {s}
      BY <2>1, <3>1 DEF Closed
    <3> QED
      BY <3>1, <3>2
  <2>4. Nat \subseteq P
    <3> HIDE DEF P
    <3> QED
      BY <2>2, <2>3, InductionOnSet
  <2> QED
    BY <1>9, <2>4 DEF X
<1> QED
  BY <1>5, <1>11, <1>12
-----------------------------------------------------------------------------
\* D is the sets of nodes emitted after each round of Kahn's algorithm over the
\* subgraph of g induced by C.
Rounds(D, g, C) ==
    /\ D \in [Nat -> SUBSET C]
    /\ D[0] = {}
    /\ \A n \in Nat : D[n + 1] = {c \in C : g[c] \cap C \subseteq D[n]}

\* q lists R once each, and each node after the nodes of C it depends on.
OrderedListing(q, R, g, C) ==
    /\ q \in Seq(C)
    /\ Lists(q, R)
    /\ \A k \in 1..Len(q) : \A b \in g[q[k]] \cap C : \E i \in 1..(k - 1) : q[i] = b

\* The rounds only add nodes, and after as many as there are nodes no node is
\* left that a further one would emit.
LEMMA RoundsGrow ==
  ASSUME NEW C, IsFiniteSet(C), NEW g, NEW D, Rounds(D, g, C)
  PROVE  /\ \A n \in Nat : D[n] \subseteq D[n + 1]
         /\ Cardinality(C) \in Nat
         /\ D[Cardinality(C) + 1] = D[Cardinality(C)]
<1> DEFINE P == {n \in Nat : D[n] \subseteq D[n + 1]}
<1>1. 0 \in P
  BY DEF Rounds
<1>2. ASSUME NEW n \in Nat, n \in P PROVE n + 1 \in P
  <2>1. D[n] \subseteq D[n + 1]
    BY <1>2
  <2>2. /\ D[n + 1] = {c \in C : g[c] \cap C \subseteq D[n]}
        /\ D[(n + 1) + 1] = {c \in C : g[c] \cap C \subseteq D[n + 1]}
    BY DEF Rounds
  <2> QED
    BY <2>1, <2>2
<1>3. Nat \subseteq P
  <2> HIDE DEF P
  <2> QED
    BY <1>1, <1>2, InductionOnSet
<1> DEFINE step == [X \in SUBSET C |-> {c \in C : g[c] \cap C \subseteq X}]
<1>4. D \in [Nat -> SUBSET C]
  BY DEF Rounds
<1>5. \A n \in Nat : D[n + 1] = step[D[n]]
  BY <1>4 DEF Rounds
<1> HIDE DEF step
<1>6. \A n \in Nat : D[n] \subseteq D[n + 1]
  BY <1>3
<1> QED
  BY <1>4, <1>5, <1>6, Stabilizes

\* Emitting one more round keeps the listing ordered.
LEMMA RoundIsOrdered ==
  ASSUME NEW C, C \subseteq Nat, IsFiniteSet(C), NEW g, NEW D, Rounds(D, g, C),
         NEW n \in Nat, NEW q, OrderedListing(q, D[n], g, C)
  PROVE  OrderedListing(q \o SortedIds(D[n + 1] \ D[n]), D[n + 1], g, C)
<1> DEFINE E == D[n + 1] \ D[n]
           e == SortedIds(E)
           r == q \o e
<1>1. /\ D[n] \in SUBSET C /\ D[n + 1] \in SUBSET C /\ D[n] \subseteq D[n + 1]
      /\ \A c \in D[n + 1] : g[c] \cap C \subseteq D[n]
  BY RoundsGrow DEF Rounds
<1>2. IsFiniteSet(E) /\ IsFiniteSet(D[n]) /\ E \subseteq Nat /\ E \subseteq C
  BY <1>1, FS_Subset
<1>3. e \in Seq(E) /\ ToSet(e) = E /\ Len(e) = Cardinality(E)
  BY <1>2, SortedIdsList DEF Lists
<1>4. q \in Seq(C) /\ ToSet(q) = D[n] /\ Len(q) = Cardinality(D[n])
  BY DEF OrderedListing, Lists
<1>5. D[n + 1] = D[n] \cup E /\ D[n] \cap E = {}
  BY <1>1
<1>6. Cardinality(D[n + 1]) = Cardinality(D[n]) + Cardinality(E)
  <2>1. /\ Cardinality(D[n] \cup E) = Cardinality(D[n]) + Cardinality(E) - Cardinality({})
        /\ Cardinality(D[n]) \in Nat /\ Cardinality(E) \in Nat
    BY <1>2, <1>5, FS_Union, FS_CardinalityType
  <2> HIDE DEF E
  <2> QED
    BY <1>5, <2>1, FS_EmptySet
<1> HIDE DEF E, e
<1>7. e \in Seq(C)
  <2>1. Len(e) \in Nat /\ e \in [1..Len(e) -> E]
    BY <1>3
  <2>2. e \in [1..Len(e) -> C]
    BY <1>2, <2>1
  <2> QED
    BY <2>1, <2>2
<1>8. /\ r \in Seq(C) /\ Len(r) = Len(q) + Len(e)
      /\ \A k \in 1..Len(q) : r[k] = q[k]
      /\ \A k \in 1..Len(e) : r[Len(q) + k] = e[k]
  BY <1>4, <1>7
<1> HIDE DEF r
<1>9. ToSet(r) = D[n + 1]
  <2>1. /\ DOMAIN r = 1..Len(r) /\ DOMAIN q = 1..Len(q) /\ DOMAIN e = 1..Len(e)
        /\ Len(q) \in Nat /\ Len(e) \in Nat
    BY <1>4, <1>7, <1>8
  <2>2. ASSUME NEW k \in 1..Len(r) PROVE r[k] \in D[n + 1]
    <3>1. CASE k \in 1..Len(q)
      BY <1>4, <1>5, <1>8, <2>1, <3>1 DEF ToSet
    <3>2. CASE k \notin 1..Len(q)
      <4>1. k - Len(q) \in 1..Len(e) /\ k = Len(q) + (k - Len(q))
        BY <1>8, <2>1, <3>2
      <4>2. r[k] = e[k - Len(q)]
        BY <1>8, <4>1
      <4> QED
        BY <1>3, <1>5, <2>1, <4>1, <4>2 DEF ToSet
    <3> QED
      BY <3>1, <3>2
  <2>3. ASSUME NEW x \in D[n + 1] PROVE \E k \in 1..Len(r) : r[k] = x
    <3>1. CASE x \in D[n]
      <4>1. PICK k \in 1..Len(q) : q[k] = x
        BY <1>4, <2>1, <3>1 DEF ToSet
      <4> QED
        BY <1>8, <2>1, <4>1
    <3>2. CASE x \in E
      <4>1. PICK k \in 1..Len(e) : e[k] = x
        BY <1>3, <2>1, <3>2 DEF ToSet
      <4>2. Len(q) + k \in 1..Len(r)
        BY <1>8, <2>1
      <4> QED
        BY <1>8, <4>1, <4>2
    <3> QED
      BY <1>5, <3>1, <3>2
  <2> QED
    BY <2>1, <2>2, <2>3 DEF ToSet
<1>10. ASSUME NEW k \in 1..Len(r), NEW b \in g[r[k]] \cap C
       PROVE  \E i \in 1..(k - 1) : r[i] = b
  <2>1. Len(q) \in Nat /\ Len(e) \in Nat /\ DOMAIN q = 1..Len(q) /\ DOMAIN e = 1..Len(e)
    BY <1>4, <1>7
  <2>2. CASE k \in 1..Len(q)
    <3>1. PICK i \in 1..(k - 1) : q[i] = b
      BY <1>8, <2>2 DEF OrderedListing
    <3>2. i \in 1..Len(q)
      BY <2>1, <2>2
    <3> QED
      BY <1>8, <3>1, <3>2
  <2>3. CASE k \notin 1..Len(q)
    <3>1. b \in D[n]
      <4>1. r[k] \in D[n + 1]
        BY <1>8, <1>9 DEF ToSet
      <4> QED
        BY <1>1, <4>1
    <3>2. PICK i \in 1..Len(q) : q[i] = b
      BY <1>4, <2>1, <3>1 DEF ToSet
    <3>3. i \in 1..(k - 1)
      BY <1>8, <2>1, <2>3
    <3> QED
      BY <1>8, <3>2, <3>3
  <2> QED
    BY <2>2, <2>3
<1> QED
  BY <1>3, <1>4, <1>6, <1>8, <1>9, <1>10 DEF OrderedListing, Lists, r, e, E
\* topologicalSort lists, in order, the nodes that the rounds emit.
LEMMA KahnBatchesAreOrdered ==
  ASSUME NEW C, C \subseteq Nat, IsFiniteSet(C), NEW g
  PROVE  \E D : /\ Rounds(D, g, C)
                /\ OrderedListing(KahnBatches(g, C), D[Cardinality(C)], g, C)
<1> DEFINE Emitted(X) == {c \in C : g[c] \cap C \subseteq X}
           step == [X \in SUBSET C |-> Emitted(X)]
           Unfolded(f) ==
               f = [n \in Nat |-> IF n = 0 THEN {}
                                  ELSE {c \in C : g[c] \cap C \subseteq f[n - 1]}]
           D == CHOOSE f : Unfolded(f)
           N == Cardinality(C)
           bs == [n \in 1..N |-> SortedIds(D[n] \ D[n - 1])]
<1>1. \E f : Unfolded(f)
  <2> DEFINE S == SUBSET C
             f0 == {}
  <2>1. f0 \in S /\ step \in [S -> S]
    OBVIOUS
  <2> HIDE DEF step, S, f0
  <2>2. PICK f : Iterates(f, S, f0, step)
    BY <2>1, Iteration
  <2>3. ASSUME NEW n \in Nat
        PROVE  f[n] = IF n = 0 THEN {} ELSE {c \in C : g[c] \cap C \subseteq f[n - 1]}
    <3>1. CASE n = 0
      BY <2>2, <3>1 DEF Iterates, f0
    <3>2. CASE n # 0
      <4>1. n - 1 \in Nat /\ (n - 1) + 1 = n
        BY <3>2
      <4>2. f[n] = step[f[n - 1]] /\ f[n - 1] \in SUBSET C
        BY <2>2, <4>1 DEF Iterates, S
      <4>3. step[f[n - 1]] = Emitted(f[n - 1])
        BY <4>2 DEF step
      <4> QED
        BY <3>2, <4>2, <4>3
    <3> QED
      BY <3>1, <3>2
  <2>4. Unfolded(f)
    BY <2>2, <2>3 DEF Iterates
  <2> QED
    BY <2>4
<1>2. Unfolded(D)
  BY <1>1
<1>3. KahnBatches(g, C) = FlattenSeq(bs)
  BY DEF KahnBatches
<1> HIDE DEF D
<1>4. /\ D[0] = {}
      /\ \A n \in Nat : D[n + 1] = Emitted(D[n])
  <2>1. D[0] = {}
    BY <1>2
  <2>2. ASSUME NEW n \in Nat PROVE D[n + 1] = Emitted(D[n])
    <3>1. n + 1 \in Nat /\ n + 1 # 0 /\ (n + 1) - 1 = n
      OBVIOUS
    <3> QED
      BY <1>2, <3>1
  <2> QED
    BY <2>1, <2>2
<1>5. Rounds(D, g, C)
  <2>1. ASSUME NEW n \in Nat PROVE D[n] \in SUBSET C
    <3>1. CASE n = 0
      BY <1>4, <3>1
    <3>2. CASE n # 0
      <4>1. n - 1 \in Nat /\ (n - 1) + 1 = n
        BY <3>2
      <4>2. D[n] = Emitted(D[n - 1])
        BY <1>4, <4>1
      <4> QED
        BY <4>2
    <3> QED
      BY <3>1, <3>2
  <2> QED
    BY <1>2, <1>4, <2>1 DEF Rounds
<1>6. N \in Nat
  BY FS_CardinalityType
<1>7. OrderedListing(<<>>, {}, g, C)
  BY FS_EmptySet DEF OrderedListing, Lists, ToSet
<1>8. ASSUME NEW n \in Nat, n + 1 <= N
      PROVE  bs[n + 1] = SortedIds(D[n + 1] \ D[n])
  <2>1. n + 1 \in 1..N /\ (n + 1) - 1 = n
    BY <1>6, <1>8
  <2> QED
    BY <2>1
<1>9. bs \in Seq(Seq(C)) /\ Len(bs) = N
  <2>1. ASSUME NEW n \in 1..N PROVE bs[n] \in Seq(C)
    <3>1. n \in Nat /\ n - 1 \in Nat /\ bs[n] = SortedIds(D[n] \ D[n - 1])
      OBVIOUS
    <3> DEFINE E == D[n] \ D[n - 1]
    <3>2. E \in SUBSET C
      BY <1>5, <3>1 DEF Rounds
    <3>3. IsFiniteSet(E) /\ E \subseteq Nat
      BY <3>2, FS_Subset
    <3> HIDE DEF E, bs
    <3>4. SortedIds(E) \in Seq(E)
      BY <3>3, SortedIdsList
    <3>5. Len(SortedIds(E)) \in Nat /\ SortedIds(E) \in [1..Len(SortedIds(E)) -> E]
      BY <3>4
    <3>6. SortedIds(E) \in [1..Len(SortedIds(E)) -> C]
      BY <3>2, <3>5
    <3>7. SortedIds(E) \in Seq(C)
      BY <3>5, <3>6
    <3> QED
      BY <3>1, <3>7 DEF E
  <2>2. bs \in [1..N -> Seq(C)]
    <3>1. \A n \in 1..N : bs[n] \in Seq(C)
      BY <2>1
    <3>2. bs = [n \in 1..N |-> bs[n]]
      OBVIOUS
    <3> HIDE DEF bs
    <3> QED
      BY <3>1, <3>2
  <2> HIDE DEF bs
  <2> QED
    BY <1>6, <2>2
<1> HIDE DEF bs, N
<1>10. CASE N = 0
  <2>1. FlattenSeq(bs) = <<>>
    <3>1. bs = <<>>
      BY <1>9, <1>10
    <3> QED
      BY <1>9, <1>10, <3>1 DEF FlattenSeq
  <2>2. OrderedListing(KahnBatches(g, C), D[N], g, C)
    BY <1>3, <1>4, <1>7, <1>10, <2>1
  <2> QED
    BY <1>5, <2>2 DEF N
<1>11. CASE N # 0
  <2>1. PICK fl \in [1..N -> Seq(C)] :
            /\ fl[1] = bs[1]
            /\ \A i \in 1..(N - 1) : fl[i + 1] = fl[i] \o bs[i + 1]
            /\ FlattenSeq(bs) = fl[N]
    BY <1>9, <1>11, FlattenSeqAppends
  <2> DEFINE P == {n \in Nat : n + 1 <= N => OrderedListing(fl[n + 1], D[n + 1], g, C)}
  <2>2. 0 \in P
    <3>1. OrderedListing(<<>> \o SortedIds(D[0 + 1] \ D[0]), D[0 + 1], g, C)
      BY <1>4, <1>5, <1>7, RoundIsOrdered
    <3>2. /\ 0 + 1 <= N
          /\ fl[1] = SortedIds(D[0 + 1] \ D[0])
      BY <1>6, <1>8, <1>11, <2>1
    <3>3. fl[1] \in Seq(C) /\ <<>> \o fl[1] = fl[1]
      BY <1>6, <1>11, <2>1
    <3> QED
      BY <3>1, <3>2, <3>3
  <2>3. ASSUME NEW n \in Nat, n \in P PROVE n + 1 \in P
    <3>1. ASSUME (n + 1) + 1 <= N
          PROVE  OrderedListing(fl[(n + 1) + 1], D[(n + 1) + 1], g, C)
      <4>1. n + 1 \in 1..(N - 1) /\ n + 1 <= N
        BY <1>6, <3>1
      <4>2. OrderedListing(fl[n + 1], D[n + 1], g, C)
        BY <2>3, <4>1
      <4> DEFINE m == n + 1
      <4>3. m \in Nat /\ m + 1 <= N /\ m \in 1..(N - 1)
        BY <3>1, <4>1
      <4> HIDE DEF m
      <4>4. fl[m + 1] = fl[m] \o SortedIds(D[m + 1] \ D[m])
        BY <1>8, <2>1, <4>3
      <4>5. OrderedListing(fl[m], D[m], g, C)
        BY <4>2 DEF m
      <4>6. OrderedListing(fl[m] \o SortedIds(D[m + 1] \ D[m]), D[m + 1], g, C)
        BY <1>5, <4>3, <4>5, RoundIsOrdered
      <4> QED
        BY <4>4, <4>6 DEF m
    <3> QED
      BY <3>1
  <2> HIDE DEF P
  <2>4. Nat \subseteq P
    BY <2>2, <2>3, InductionOnSet
  <2>5. N - 1 \in P /\ N - 1 \in Nat /\ (N - 1) + 1 = N
    BY <1>6, <1>11, <2>4
  <2>6. OrderedListing(fl[N], D[N], g, C)
    <3>1. (N - 1) + 1 <= N => OrderedListing(fl[(N - 1) + 1], D[(N - 1) + 1], g, C)
      BY <2>5 DEF P
    <3> QED
      BY <1>6, <2>5, <3>1
  <2> QED
    BY <1>3, <1>5, <2>1, <2>6 DEF N
<1> QED
  BY <1>10, <1>11
-----------------------------------------------------------------------------
\* A node that is never emitted has a dependency that is not, and so on: in a
\* graph without a cycle there is none, as it would be left with fewer such
\* nodes to reach at each turn.
LEMMA AcyclicGraphIsEmitted ==
  ASSUME NEW Nodes, Nodes \subseteq Nat, IsFiniteSet(Nodes),
         NEW g \in [Nodes -> SUBSET Nodes], NEW C \in SUBSET Nodes,
         \A s \in Nodes : s \notin Reachable(g, s), NEW D, Rounds(D, g, C)
  PROVE  D[Cardinality(C)] = C
<1>1. IsFiniteSet(C) /\ IsFiniteSet(Nodes)
  BY FS_Subset
<1> DEFINE R == D[Cardinality(C)]
           T == C \ R
           Left(c) == Reachable(g, c) \cap T
           rank == {Cardinality(Left(c)) : c \in T}
<1>2. R \in SUBSET C /\ \A c \in C : g[c] \cap C \subseteq R => c \in R
  <2>1. R \in SUBSET C /\ D[Cardinality(C) + 1] = {c \in C : g[c] \cap C \subseteq R}
    BY <1>1, RoundsGrow DEF Rounds
  <2>2. D[Cardinality(C) + 1] = R
    BY <1>1, RoundsGrow
  <2> QED
    BY <2>1, <2>2
<1> SUFFICES ASSUME T # {} PROVE FALSE
  BY <1>2
<1> HIDE DEF R
<1>3. ASSUME NEW c \in T PROVE IsFiniteSet(Left(c)) /\ Cardinality(Left(c)) \in Nat
  <2>1. Left(c) \in SUBSET C
    BY <1>2
  <2> HIDE DEF Left, T
  <2> QED
    BY <1>1, <2>1, FS_Subset, FS_CardinalityType
<1>4. rank \subseteq Nat /\ rank # {}
  BY <1>3
<1>5. PICK c \in T : \A x \in T : Cardinality(Left(c)) <= Cardinality(Left(x))
  <2>1. PICK x \in rank : \A y \in rank : x <= y
    <3> HIDE DEF rank
    <3> QED
      BY <1>4, LeastNatural
  <2>2. PICK c \in T : x = Cardinality(Left(c))
    BY <2>1
  <2>3. \A y \in T : Cardinality(Left(y)) \in rank
    OBVIOUS
  <2> HIDE DEF rank, Left, T
  <2> QED
    BY <2>1, <2>2, <2>3
<1>6. PICK b \in g[c] \cap C : b \in T
  BY <1>2
<1>7. b \in Left(c) /\ Left(b) \subseteq Left(c) /\ b \notin Left(b)
  <2>1. c \in Nodes /\ b \in Nodes /\ b \in Reachable(g, c)
    BY <1>2, <1>6, ReachableIsClosed
  <2>2. Reachable(g, b) \subseteq Reachable(g, c) /\ b \notin Reachable(g, b)
    BY <2>1, ReachableIsTransitive
  <2> QED
    BY <1>6, <2>1, <2>2
<1>8. /\ IsFiniteSet(Left(c)) /\ Cardinality(Left(c)) \in Nat /\ Cardinality(Left(b)) \in Nat
      /\ Cardinality(Left(c)) <= Cardinality(Left(b))
  BY <1>3, <1>5, <1>6
<1> HIDE DEF Left, T, rank
<1>9. Cardinality(Left(b)) <= Cardinality(Left(c)) /\ Cardinality(Left(c)) # Cardinality(Left(b))
  <2>1. Left(b) \in SUBSET Left(c) /\ Left(b) # Left(c)
    BY <1>7
  <2> QED
    BY <1>8, <2>1, FS_Subset
<1> QED
  BY <1>8, <1>9

\* What is emitted in a round reaches only what was emitted before it.
LEMMA EmittedGraphIsAcyclic ==
  ASSUME NEW Nodes, NEW g \in [Nodes -> SUBSET Nodes], IsFiniteSet(Nodes), NEW D, Rounds(D, g, Nodes),
         NEW m \in Nat, D[m] = Nodes, NEW s \in Nodes
  PROVE  s \notin Reachable(g, s)
<1> SUFFICES ASSUME s \in Reachable(g, s) PROVE FALSE
  OBVIOUS
<1> DEFINE T == {n \in Nat : s \in D[n]}
<1>1. T # {} /\ T \subseteq Nat
  OBVIOUS
<1>2. PICK n \in T : \A x \in T : n <= x
  <2> HIDE DEF T
  <2> QED
    BY <1>1, LeastNatural
<1>3. n \in Nat /\ n # 0
  BY <1>2 DEF Rounds
<1> DEFINE k == n - 1
<1>4. k \in Nat /\ k + 1 = n /\ k < n
  BY <1>3
<1> HIDE DEF k
<1>5. D[k] \in SUBSET Nodes /\ D[k] \subseteq D[k + 1] /\ \A x \in D[k + 1] : g[x] \cap Nodes \subseteq D[k]
  BY <1>4, RoundsGrow DEF Rounds
<1>6. Closed(g, D[k])
  <2>1. \A x \in D[k] : g[x] \subseteq Nodes
    BY <1>5
  <2> QED
    BY <1>5, <2>1 DEF Closed
<1>7. g[s] \subseteq D[k]
  <2>1. s \in D[k + 1] /\ g[s] \subseteq Nodes
    BY <1>2, <1>4
  <2> QED
    BY <1>5, <2>1
<1>8. s \in D[k]
  BY <1>5, <1>6, <1>7, ReachableIsClosed
<1>9. k \in T
  BY <1>4, <1>8
<1> QED
  BY <1>2, <1>3, <1>4, <1>9
-----------------------------------------------------------------------------
\* directDependentsOf turns the edges round.
LEMMA DependentsAreReversed ==
  ASSUME NEW Nodes, NEW g \in [Nodes -> SUBSET Nodes]
  PROVE  /\ DOMAIN g = Nodes /\ DirectDependents(g) \in [Nodes -> SUBSET Nodes]
         /\ \A a, b \in Nodes : b \in g[a] <=> a \in DirectDependents(g)[b]
<1>1. DOMAIN g = Nodes
  OBVIOUS
<1> QED
  BY <1>1 DEF DirectDependents

\* detectCycles: as many nodes are visited as there are exactly when there is
\* no cycle.
LEMMA CyclesAreDetected ==
  ASSUME NEW Nodes, Nodes \subseteq Nat, IsFiniteSet(Nodes),
         NEW g \in [Nodes -> SUBSET Nodes]
  PROVE  DetectCycles(g) <=> \E s \in Nodes : s \in Reachable(g, s)
<1> DEFINE N == Cardinality(Nodes)
           q == KahnBatches(g, Nodes)
           acyclic == \A s \in Nodes : s \notin Reachable(g, s)
<1>1. N \in Nat /\ DOMAIN g = Nodes
  BY FS_CardinalityType
<1>2. PICK D : Rounds(D, g, Nodes) /\ OrderedListing(q, D[N], g, Nodes)
  BY KahnBatchesAreOrdered
<1>3. D[N] \in SUBSET Nodes /\ Len(q) = Cardinality(D[N])
  BY <1>1, <1>2 DEF Rounds, OrderedListing, Lists
<1>4. DetectCycles(g) <=> Len(q) # N
  BY <1>1 DEF DetectCycles
<1> HIDE DEF q, N
<1>5. ASSUME Len(q) = N PROVE acyclic
  <2>1. D[N] = Nodes
    BY <1>3, <1>5, FS_Subset DEF N
  <2> QED
    BY <1>1, <1>2, <2>1, EmittedGraphIsAcyclic
<1>6. ASSUME acyclic PROVE Len(q) = N
  <2>1. D[N] = Nodes
    <3>1. Nodes \in SUBSET Nodes
      OBVIOUS
    <3> QED
      BY <1>2, <1>6, <3>1, AcyclicGraphIsEmitted DEF N
  <2> QED
    BY <1>3, <2>1 DEF N
<1> QED
  BY <1>4, <1>5, <1>6

\* On an acyclic graph Kahn's algorithm lists any set of nodes once each, the
\* dependencies among them first.
LEMMA KahnBatchesAreComplete ==
  ASSUME NEW Nodes, Nodes \subseteq Nat, IsFiniteSet(Nodes),
         NEW g \in [Nodes -> SUBSET Nodes], \A s \in Nodes : s \notin Reachable(g, s),
         NEW C \in SUBSET Nodes
  PROVE  LET q == KahnBatches(g, C)
         IN  /\ q \in Seq(C) /\ Lists(q, C)
             /\ \A a, b \in C : b \in g[a] => Precedes(q, b, a)
<1> DEFINE q == KahnBatches(g, C)
<1>1. IsFiniteSet(C) /\ C \subseteq Nat
  BY FS_Subset
<1>2. PICK D : Rounds(D, g, C) /\ OrderedListing(q, D[Cardinality(C)], g, C)
  BY <1>1, KahnBatchesAreOrdered
<1>3. D[Cardinality(C)] = C
  BY <1>2, AcyclicGraphIsEmitted
<1>4. OrderedListing(q, C, g, C)
  BY <1>2, <1>3
<1> HIDE DEF q
<1>5. ASSUME NEW a \in C, NEW b \in C, b \in g[a] PROVE Precedes(q, b, a)
  <2>1. DOMAIN q = 1..Len(q) /\ Len(q) \in Nat
    BY <1>4 DEF OrderedListing
  <2>2. PICK k \in 1..Len(q) : q[k] = a
    BY <1>4, <2>1 DEF OrderedListing, Lists, ToSet
  <2>3. PICK i \in 1..(k - 1) : q[i] = b
    BY <1>4, <1>5, <2>2 DEF OrderedListing
  <2>4. i \in 1..Len(q) /\ i < k
    BY <2>1
  <2> QED
    BY <2>1, <2>2, <2>3, <2>4 DEF Precedes
<1> QED
  BY <1>4, <1>5 DEF OrderedListing, q

LEMMA ReverseListing ==
  ASSUME NEW C, NEW q \in Seq(C), Lists(q, C)
  PROVE  /\ Lists(Reverse(q), C)
         /\ \A a, b : Precedes(q, a, b) => Precedes(Reverse(q), b, a)
<1> DEFINE n == Len(q)
           r == Reverse(q)
<1>1. n \in Nat /\ DOMAIN q = 1..n /\ q \in [1..n -> C]
  OBVIOUS
<1>2. r = [i \in 1..n |-> q[(n - i) + 1]]
  BY DEF Reverse
<1> HIDE DEF n, r
<1>3. \A i \in 1..n : (n - i) + 1 \in 1..n /\ (n - ((n - i) + 1)) + 1 = i
  BY <1>1
<1>4. r \in [1..n -> C]
  BY <1>1, <1>2, <1>3
<1>5. r \in Seq(C) /\ Len(r) = n /\ DOMAIN r = 1..n
  BY <1>1, <1>4
<1>6. \A i \in 1..n : r[i] = q[(n - i) + 1] /\ r[(n - i) + 1] = q[i]
  BY <1>2, <1>3
<1>7. ToSet(r) = ToSet(q)
  BY <1>1, <1>3, <1>5, <1>6 DEF ToSet
<1>8. ASSUME NEW a, NEW b, Precedes(q, a, b) PROVE Precedes(r, b, a)
  <2>1. PICK i \in 1..n, j \in 1..n : i < j /\ q[i] = a /\ q[j] = b
    BY <1>1, <1>8 DEF Precedes
  <2>2. (n - j) + 1 < (n - i) + 1
    BY <1>1, <2>1
  <2>3. /\ (n - j) + 1 \in DOMAIN r /\ r[(n - j) + 1] = b
        /\ (n - i) + 1 \in DOMAIN r /\ r[(n - i) + 1] = a
    BY <1>3, <1>5, <1>6, <2>1
  <2> QED
    BY <2>2, <2>3 DEF Precedes
<1> QED
  BY <1>5, <1>7, <1>8 DEF Lists, r, n
\* What topologicalSort owes to a request for ids on the graph g.
SortedRequest(g, ids) ==
    LET up   == TopologicalDependenciesFirst(g, ids)
        down == TopologicalDependentsFirst(g, ids)
    IN  /\ up \in Seq(DOMAIN g) /\ down \in Seq(DOMAIN g)
        /\ Lists(up, ids \cup UNION {Reachable(g, s) : s \in ids})
        /\ Lists(down, ids \cup UNION {Reachable(DirectDependents(g), s) : s \in ids})
        /\ \A a \in DOMAIN g : \A b \in g[a] :
              /\ a \in ToSet(up) => Precedes(up, b, a)
              /\ b \in ToSet(down) => Precedes(down, a, b)

\* The dependencies of a service are in its closure, and so are its dependents
\* in theirs; the orders list those closures.
LEMMA OrdersOfRequest ==
  ASSUME NEW Nodes, Nodes \subseteq Nat, IsFiniteSet(Nodes),
         NEW g \in [Nodes -> SUBSET Nodes], CreateDependencyGraph(g) = "ok",
         NEW ids \in SUBSET Nodes
  PROVE  SortedRequest(g, ids)
<1> DEFINE rev == DirectDependents(g)
           Above(S) == S \cup UNION {TransitiveDependenciesOf(g, s) : s \in S}
           Below(S) == S \cup UNION {TransitiveDependentsOf(g, s) : s \in S}
           ReachUp(S) == S \cup UNION {Reachable(g, s) : s \in S}
           ReachDown(S) == S \cup UNION {Reachable(rev, s) : s \in S}
           UpOrder(S) == TopologicalDependenciesFirst(g, S)
           DownOrder(S) == TopologicalDependentsFirst(g, S)
           Q(S) == KahnBatches(g, Below(S))
<1>1. \A s \in Nodes : s \notin Reachable(g, s)
  BY CyclesAreDetected DEF CreateDependencyGraph
<1>2. /\ rev \in [Nodes -> SUBSET Nodes] /\ DOMAIN g = Nodes
      /\ \A a, b \in Nodes : b \in g[a] <=> a \in rev[b]
  BY DependentsAreReversed
<1> HIDE DEF rev
<1>3. Above(ids) = ReachUp(ids) /\ Below(ids) = ReachDown(ids)
  <2>1. ASSUME NEW s \in ids
        PROVE  /\ TransitiveDependenciesOf(g, s) = Reachable(g, s) \ {s}
               /\ TransitiveDependentsOf(g, s) = Reachable(rev, s) \ {s}
    <3>1. ASSUME NEW e \in [Nodes -> SUBSET Nodes]
          PROVE  ComputeClosure(e, s) = Reachable(e, s) \ {s}
      BY <3>1, ClosureOfEdges
    <3>2. ComputeClosure(g, s) = Reachable(g, s) \ {s}
      BY <3>1
    <3>3. ComputeClosure(rev, s) = Reachable(rev, s) \ {s}
      BY <1>2, <3>1
    <3> QED
      BY <3>2, <3>3 DEF TransitiveDependenciesOf, TransitiveDependentsOf, rev
  <2> QED
    BY <2>1
<1>4. /\ ReachUp(ids) \in SUBSET Nodes /\ ReachDown(ids) \in SUBSET Nodes
      /\ \A a \in ReachUp(ids) : g[a] \subseteq ReachUp(ids)
      /\ \A b \in ReachDown(ids) : rev[b] \subseteq ReachDown(ids)
  <2>1. ASSUME NEW e \in [Nodes -> SUBSET Nodes], NEW s \in Nodes
        PROVE  /\ Reachable(e, s) \in SUBSET Nodes /\ e[s] \subseteq Reachable(e, s)
               /\ \A x \in Reachable(e, s) : e[x] \subseteq Reachable(e, s)
    BY <2>1, ReachableIsClosed DEF Closed
  <2>2. ASSUME NEW s \in Nodes
        PROVE  /\ Reachable(g, s) \in SUBSET Nodes /\ g[s] \subseteq Reachable(g, s)
               /\ \A x \in Reachable(g, s) : g[x] \subseteq Reachable(g, s)
               /\ Reachable(rev, s) \in SUBSET Nodes /\ rev[s] \subseteq Reachable(rev, s)
               /\ \A x \in Reachable(rev, s) : rev[x] \subseteq Reachable(rev, s)
    BY <1>2, <2>1
  <2> QED
    BY <2>2
<1>5. UpOrder(ids) = KahnBatches(g, ReachUp(ids)) /\ DownOrder(ids) = Reverse(Q(ids))
  BY <1>3 DEF TopologicalDependenciesFirst, TopologicalDependentsFirst
<1> HIDE DEF ReachUp, ReachDown, Above, Below, UpOrder, DownOrder
<1>0. ASSUME NEW C \in SUBSET Nodes
      PROVE  /\ KahnBatches(g, C) \in Seq(C) /\ Lists(KahnBatches(g, C), C)
             /\ \A a, b \in C : b \in g[a] => Precedes(KahnBatches(g, C), b, a)
  BY <1>1, KahnBatchesAreComplete
<1>6. /\ Lists(UpOrder(ids), ReachUp(ids)) /\ UpOrder(ids) \in Seq(ReachUp(ids))
      /\ \A a, b \in ReachUp(ids) : b \in g[a] => Precedes(UpOrder(ids), b, a)
  BY <1>0, <1>4, <1>5
<1>7. /\ Q(ids) \in Seq(ReachDown(ids)) /\ Lists(Q(ids), ReachDown(ids))
      /\ \A a, b \in ReachDown(ids) : b \in g[a] => Precedes(Q(ids), b, a)
  BY <1>0, <1>3, <1>4
<1> HIDE DEF Q
<1>8. /\ Lists(DownOrder(ids), ReachDown(ids))
      /\ \A a, b \in ReachDown(ids) : b \in g[a] => Precedes(DownOrder(ids), a, b)
  BY <1>5, <1>7, ReverseListing
<1>9. ToSet(UpOrder(ids)) = ReachUp(ids) /\ ToSet(DownOrder(ids)) = ReachDown(ids)
  BY <1>6, <1>8 DEF Lists
<1>10. ASSUME NEW a \in Nodes, NEW b \in g[a]
       PROVE  /\ a \in ToSet(UpOrder(ids)) => Precedes(UpOrder(ids), b, a)
              /\ b \in ToSet(DownOrder(ids)) => Precedes(DownOrder(ids), a, b)
  <2>1. b \in Nodes /\ a \in rev[b]
    BY <1>2
  <2>2. a \in ReachUp(ids) => b \in ReachUp(ids)
    BY <1>4
  <2>3. b \in ReachDown(ids) => a \in ReachDown(ids)
    BY <1>4, <2>1
  <2> QED
    BY <1>6, <1>8, <1>9, <2>2, <2>3
<1>11. UpOrder(ids) \in Seq(Nodes) /\ DownOrder(ids) \in Seq(Nodes)
  <2>1. ASSUME NEW C \in SUBSET Nodes, NEW q \in Seq(C) PROVE q \in Seq(Nodes)
    <3>1. Len(q) \in Nat /\ q \in [1..Len(q) -> C]
      BY <2>1
    <3>2. q \in [1..Len(q) -> Nodes]
      BY <3>1
    <3> QED
      BY <3>1, <3>2
  <2>2. ASSUME NEW q \in Seq(Nodes) PROVE Reverse(q) \in Seq(Nodes)
    <3>1. \A i \in 1..Len(q) : (Len(q) - i) + 1 \in 1..Len(q)
      OBVIOUS
    <3> QED
      BY <3>1 DEF Reverse
  <2> QED
    BY <1>4, <1>5, <1>6, <1>7, <2>1, <2>2
<1>12. UNION {Reachable(DirectDependents(g), s) : s \in ids} = UNION {Reachable(rev, s) : s \in ids}
  BY DEF rev
<1> QED
  BY <1>2, <1>6, <1>8, <1>10, <1>11, <1>12
  DEF SortedRequest, ReachUp, ReachDown, UpOrder, DownOrder

\* A listing has no repetition: what comes before a service at one place comes
\* before it at every place.
LEMMA ListedOnce ==
  ASSUME NEW C, NEW q \in Seq(C), NEW S, Lists(q, S), NEW a, NEW b, Precedes(q, a, b),
         NEW k \in 1..Len(q), q[k] = b
  PROVE  \E i \in 1..(k - 1) : q[i] = a
<1>1. DOMAIN q = 1..Len(q) /\ Len(q) \in Nat /\ ToSet(q) = S /\ Len(q) = Cardinality(S)
  BY DEF Lists
<1>2. q \in Surjection(1..Len(q), S)
  <2>1. q \in [1..Len(q) -> S]
    BY <1>1 DEF ToSet
  <2> QED
    BY <1>1, <2>1 DEF Surjection, ToSet
<1>3. IsFiniteSet(1..Len(q)) /\ Cardinality(1..Len(q)) = Len(q)
  BY <1>1, FS_Interval
<1>4. q \in Injection(1..Len(q), S)
  BY <1>1, <1>2, <1>3, FS_SurjSameCardinalityImpliesInj
<1>5. PICK i \in 1..Len(q), j \in 1..Len(q) : i < j /\ q[i] = a /\ q[j] = b
  BY <1>1 DEF Precedes
<1>6. j = k
  BY <1>1, <1>4, <1>5 DEF Injection, IsInjective
<1> QED
  BY <1>1, <1>5, <1>6

-----------------------------------------------------------------------------
(* Every configuration.                                                     *)

Declared == [Ids -> SUBSET (Ids \cup {Unknown})]

LEMMA KnownGraph ==
  ASSUME deps \in Declared, KnownDeps
  PROVE  deps \in [Ids -> SUBSET Ids]
<1>1. deps = [s \in Ids |-> deps[s]] /\ \A s \in Ids : deps[s] \subseteq Ids
  BY DEF Declared, KnownDeps
<1> QED
  BY <1>1

LEMMA DagsAreAccepted ==
  ASSUME IdsAssumption, deps \in Declared
  PROVE  AcceptsExactlyTheDags
<1>1. DOMAIN deps = Ids
  BY DEF Declared
<1>2. CASE ~KnownDeps
  BY <1>1, <1>2 DEF AcceptsExactlyTheDags, CreateDependencyGraph, KnownDeps
<1>3. CASE KnownDeps
  <2>1. DetectCycles(deps) <=> ~Acyclic
    BY <1>3, KnownGraph, CyclesAreDetected DEF IdsAssumption, Acyclic
  <2> QED
    BY <1>1, <1>3, <2>1 DEF AcceptsExactlyTheDags, CreateDependencyGraph, KnownDeps
<1> QED
  BY <1>2, <1>3

LEMMA ClosuresAreReachable ==
  ASSUME IdsAssumption, deps \in Declared
  PROVE  ClosureIsReachability
<1> SUFFICES ASSUME KnownDeps, NEW s \in Ids
             PROVE  /\ TransitiveDependenciesOf(deps, s) = Reachable(deps, s) \ {s}
                    /\ TransitiveDependentsOf(deps, s) =
                           Reachable(DirectDependents(deps), s) \ {s}
  BY DEF ClosureIsReachability
<1>1. deps \in [Ids -> SUBSET Ids] /\ DirectDependents(deps) \in [Ids -> SUBSET Ids]
  BY KnownGraph, DependentsAreReversed
<1> QED
  BY <1>1, ClosureOfEdges
  DEF TransitiveDependenciesOf, TransitiveDependentsOf, IdsAssumption

LEMMA OrdersAreRespected ==
  ASSUME IdsAssumption, deps \in Declared
  PROVE  OrdersRespectDependencies
<1> SUFFICES ASSUME CreateDependencyGraph(deps) = "ok" PROVE OrdersRespectDependencies
  BY DEF OrdersRespectDependencies
<1>1. KnownDeps
  BY DagsAreAccepted DEF AcceptsExactlyTheDags
<1>2. deps \in [Ids -> SUBSET Ids] /\ Ids \subseteq Nat /\ IsFiniteSet(Ids)
  BY <1>1, KnownGraph DEF IdsAssumption
<1>3. DOMAIN deps = Ids /\ \A ids \in SUBSET Ids : SortedRequest(deps, ids)
  BY <1>2, OrdersOfRequest
<1> QED
  BY <1>3 DEF OrdersRespectDependencies, SortedRequest

\* Whatever the services and the dependencies they declare, createDependencyGraph
\* accepts exactly the acyclic graphs of registered services, computeClosure
\* returns what can be reached, and topologicalSort orders it.
THEOREM GraphFunctionsCompute ==
  ASSUME IdsAssumption
  PROVE  GraphSpec => []GraphFunctionsAreExact
<1>1. GraphInit => deps \in Declared
  BY DEF GraphInit, Declared
<1>2. deps \in Declared /\ [Reconfigure]_deps => (deps \in Declared)'
  <2> SUFFICES ASSUME deps \in Declared, Reconfigure PROVE deps' \in Declared
    BY DEF Declared
  <2> QED
    BY DEF Reconfigure, Declared
<1>3. deps \in Declared => GraphFunctionsAreExact
  BY DagsAreAccepted, ClosuresAreReachable, OrdersAreRespected
  DEF GraphFunctionsAreExact
<1> QED
  BY <1>1, <1>2, <1>3, PTL DEF GraphSpec
=============================================================================
