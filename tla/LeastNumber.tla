----------------------------- MODULE LeastNumber -----------------------------
(***************************************************************************)
(* Sets of natural numbers have a least element, and a greatest one if     *)
(* they are bounded: what the proofs about Lowest (src/src/adksys_mpi.c)   *)
(* and about the heads of lists (src/src/adiak.c) rest on; and the         *)
(* induction that follows, for what is built argument by argument.         *)
(***************************************************************************)
EXTENDS Integers, WellFoundedInduction, TLAPS

\* The least element.
LEMMA LeastExists ==
    ASSUME NEW S, S \subseteq Nat, S # {}
    PROVE  \E m \in S : \A q \in S : m <= q
<1> DEFINE R == {ss \in Nat \X Nat : ss[1] < ss[2]}
<1>1. IsWellFoundedOn(R, Nat)
  BY NatLessThanWellFounded DEF OpToRel
<1>2. PICK m \in S : \A q \in S : ~(<<q, m>> \in R)
  <2> HIDE DEF R
  <2> QED BY <1>1, WFMin
<1>3. \A q \in S : m <= q
  <2> SUFFICES ASSUME NEW q \in S PROVE m <= q
    OBVIOUS
  <2>1. ~(q < m)
    BY <1>2
  <2> QED BY <2>1
<1> QED BY <1>3

\* The greatest element, within a bound.
LEMMA GreatestExists ==
    ASSUME NEW n \in Nat, NEW S, S \subseteq 0..n, S # {}
    PROVE  \E m \in S : \A q \in S : m >= q
<1> DEFINE T == {n - x : x \in S}
<1>1. T \subseteq Nat /\ T # {}
  <2>1. \A x \in S : n - x \in Nat
    OBVIOUS
  <2>2. PICK x \in S : TRUE
    OBVIOUS
  <2>3. n - x \in T
    OBVIOUS
  <2> QED BY <2>1, <2>3
<1>2. PICK k \in T : \A q \in T : k <= q
  <2> HIDE DEF T
  <2> QED BY <1>1, LeastExists
<1>3. PICK m \in S : k = n - m
  BY <1>2
<1>4. \A q \in S : m >= q
  <2> SUFFICES ASSUME NEW q \in S PROVE m >= q
    OBVIOUS
  <2>1. n - q \in T
    OBVIOUS
  <2>2. n - m <= n - q
    BY <1>2, <1>3, <2>1
  <2>3. m \in Nat /\ q \in Nat
    OBVIOUS
  <2> QED BY <2>2, <2>3
<1> QED BY <1>4

\* Induction up to a bound, for the set of numbers that have a property.
LEMMA Induction ==
    ASSUME NEW n \in Nat, NEW S, S \subseteq 0..n, 0 \in S,
           \A m \in 1..n : m - 1 \in S => m \in S
    PROVE  \A k \in 0..n : k \in S
<1> DEFINE T == (0..n) \ S
<1>1. ASSUME T # {} PROVE FALSE
  <2>1. PICK m \in T : \A q \in T : m <= q
    <3>1. T \subseteq Nat
      OBVIOUS
    <3> HIDE DEF T
    <3> QED BY <1>1, <3>1, LeastExists
  <2>2. m \in 1..n /\ m - 1 \in 0..n /\ m - 1 \notin T
    <3>1. m \in 0..n /\ m # 0
      OBVIOUS
    <3> HIDE DEF T
    <3> QED BY <2>1, <3>1
  <2> QED BY <2>2
<1> QED BY <1>1

\* f is defined on the numbers up to n, each value from the one before: then[i] is what
\* makes value i.
Iterates(f, n, first, then) ==
    /\ f = [i \in 0..n |-> f[i]]
    /\ f[0] = first
    /\ \A i \in 1..n : f[i] = then[i][f[i - 1]]

\* The steps of an iteration whose values are in a set.
Steps(n, D) == [1..n -> [D -> D]]

\* There is such a function.
LEMMA Iteration ==
    ASSUME NEW n \in Nat, NEW D, NEW first \in D, NEW then \in Steps(n, D)
    PROVE  \E f \in [0..n -> D] : Iterates(f, n, first, then)
<1> DEFINE Is(f, k) == f = [i \in 0..k |-> IF i = 0 THEN first ELSE then[i][f[i - 1]]]
           S == {k \in 0..n : \E f \in [0..k -> D] : Is(f, k)}
<1>1. 0 \in S
  <2> DEFINE f == [i \in 0..0 |-> first]
  <2>1. f \in [0..0 -> D] /\ Is(f, 0)
    OBVIOUS
  <2>2. \E h \in [0..0 -> D] : Is(h, 0)
    <3> HIDE DEF f, Is
    <3> QED BY <2>1
  <2> HIDE DEF f, Is
  <2> QED BY <2>2
<1>2. ASSUME NEW k \in 1..n, k - 1 \in S PROVE k \in S
  <2>1. PICK f \in [0..(k - 1) -> D] : Is(f, k - 1)
    BY <1>2
  <2> DEFINE g == [i \in 0..k |-> IF i = 0 THEN first ELSE then[i][f[i - 1]]]
  <2>2. ASSUME NEW i \in 0..k PROVE g[i] \in D
    <3>1. CASE i = 0
      BY <3>1
    <3>2. CASE i # 0
      <4>1. i \in 1..n /\ i - 1 \in 0..(k - 1)
        BY <3>2
      <4>2. f[i - 1] \in D /\ then[i] \in [D -> D]
        BY <4>1 DEF Steps
      <4> QED BY <3>2, <4>2
    <3> QED BY <3>1, <3>2
  <2>3. ASSUME NEW i \in 0..(k - 1) PROVE g[i] = f[i]
    <3>1. f[i] = IF i = 0 THEN first ELSE then[i][f[i - 1]]
      BY <2>1
    <3> QED BY <3>1
  <2>4. ASSUME NEW i \in 0..k
        PROVE  (IF i = 0 THEN first ELSE then[i][f[i - 1]])
                 = (IF i = 0 THEN first ELSE then[i][g[i - 1]])
    <3>1. CASE i # 0
      <4>1. i - 1 \in 0..(k - 1)
        BY <3>1
      <4>2. g[i - 1] = f[i - 1]
        BY <4>1, <2>3
      <4> HIDE DEF g
      <4> QED BY <3>1, <4>2
    <3> QED BY <3>1
  <2>5. g \in [0..k -> D] /\ g = [i \in 0..k |-> IF i = 0 THEN first ELSE then[i][f[i - 1]]]
    BY <2>2
  <2>6. Is(g, k)
    <3> HIDE DEF g
    <3> QED BY <2>4, <2>5
  <2> HIDE DEF g, Is
  <2> QED BY <2>5, <2>6
<1>3. n \in S
  <2>1. S \subseteq 0..n
    OBVIOUS
  <2> HIDE DEF S
  <2>2. \A k \in 0..n : k \in S
    BY <1>1, <1>2, <2>1, Induction
  <2> QED BY <2>2
<1>4. PICK f \in [0..n -> D] : Is(f, n)
  BY <1>3
<1>5. Iterates(f, n, first, then)
  BY <1>4 DEF Iterates
<1> QED BY <1>5
===============================================================================
