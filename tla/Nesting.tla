------------------------------- MODULE Nesting -------------------------------
(***************************************************************************)
(* Structures nested to a bounded depth, such as the datatypes of          *)
(* src/src/adiak.c: Over(S) are those whose parts are in S.  What is shown *)
(* of every structure by induction on its parts, and that a function can   *)
(* be defined by recursion on them.                                        *)
(***************************************************************************)
EXTENDS Integers, LeastNumber

CONSTANTS
    MaxDepth,     \* bound on the depth
    Over(_),      \* the structures whose parts are in a set
    Parts(_),     \* the parts of a structure, by number
    Step(_, _)    \* the value of a function for a structure, from its values for the parts

UpTo[depth \in 0..MaxDepth] == Over(IF depth = 0 THEN {} ELSE UpTo[depth - 1])
All == UpTo[MaxDepth]

Nested ==
    /\ MaxDepth \in Nat
    /\ \A S, T : S \subseteq T => Over(S) \subseteq Over(T)
    /\ \A S : \A t \in Over(S) : \A i \in DOMAIN Parts(t) : Parts(t)[i] \in S

-----------------------------------------------------------------------------
\* Levels is UpTo as far as depth n.
Levels(f, n) == f = [depth \in 0..n |-> Over(IF depth = 0 THEN {} ELSE f[depth - 1])]

\* The levels exist.
LEMMA LevelsExist ==
    ASSUME MaxDepth \in Nat
    PROVE  Levels(UpTo, MaxDepth)
<1> DEFINE S == {n \in 0..MaxDepth : \E f : Levels(f, n)}
<1>1. 0 \in S
  <2>1. Levels([depth \in 0..0 |-> Over({})], 0)
    BY DEF Levels
  <2> QED BY <2>1
<1>2. ASSUME NEW n \in 1..MaxDepth, n - 1 \in S PROVE n \in S
  <2>1. PICK f : Levels(f, n - 1)
    BY <1>2
  <2> DEFINE g == [depth \in 0..n |-> Over(IF depth = 0 THEN {} ELSE f[depth - 1])]
  <2>2. ASSUME NEW depth \in 0..(n - 1) PROVE g[depth] = f[depth]
    <3>1. depth \in 0..n
      OBVIOUS
    <3>2. g[depth] = Over(IF depth = 0 THEN {} ELSE f[depth - 1])
      BY <3>1
    <3>3. f[depth] = Over(IF depth = 0 THEN {} ELSE f[depth - 1])
      BY <2>1 DEF Levels
    <3> QED BY <3>2, <3>3
  <2>3. ASSUME NEW depth \in 0..n
        PROVE  Over(IF depth = 0 THEN {} ELSE f[depth - 1]) = Over(IF depth = 0 THEN {} ELSE g[depth - 1])
    <3>1. CASE depth = 0
      BY <3>1
    <3>2. CASE depth # 0
      <4>1. depth - 1 \in 0..(n - 1)
        BY <3>2
      <4>2. g[depth - 1] = f[depth - 1]
        BY <4>1, <2>2
      <4> HIDE DEF g
      <4> QED BY <3>2, <4>2
    <3> QED BY <3>1, <3>2
  <2>4. Levels(g, n)
    <3>1. g = [depth \in 0..n |-> Over(IF depth = 0 THEN {} ELSE f[depth - 1])]
      OBVIOUS
    <3> HIDE DEF g
    <3> QED BY <3>1, <2>3 DEF Levels
  <2> QED BY <2>4
<1>3. MaxDepth \in S
  <2>1. S \subseteq 0..MaxDepth
    OBVIOUS
  <2> HIDE DEF S
  <2>2. \A k \in 0..MaxDepth : k \in S
    BY <1>1, <1>2, <2>1, Induction
  <2> QED BY <2>2
<1>4. \E f : Levels(f, MaxDepth)
  BY <1>3
<1> QED BY <1>4 DEF UpTo, Levels

\* What is nested less deeply is among what is nested more deeply.
LEMMA LevelsGrow ==
    ASSUME Nested, NEW depth \in 1..MaxDepth
    PROVE  UpTo[depth - 1] \subseteq UpTo[depth]
<1> DEFINE S == {k \in 0..MaxDepth : k = 0 \/ UpTo[k - 1] \subseteq UpTo[k]}
<1>1. Levels(UpTo, MaxDepth)
  BY LevelsExist DEF Nested
<1>2. ASSUME NEW k \in 0..MaxDepth PROVE UpTo[k] = Over(IF k = 0 THEN {} ELSE UpTo[k - 1])
  BY <1>1 DEF Levels
<1>3. ASSUME NEW k \in 1..MaxDepth, k - 1 \in S PROVE k \in S
  <2>1. k \in 0..MaxDepth /\ k - 1 \in 0..MaxDepth /\ k # 0
    BY DEF Nested
  <2>2. (IF k - 1 = 0 THEN {} ELSE UpTo[(k - 1) - 1]) \subseteq UpTo[k - 1]
    BY <1>3
  <2>3. Over(IF k - 1 = 0 THEN {} ELSE UpTo[(k - 1) - 1]) \subseteq Over(UpTo[k - 1])
    BY <2>2 DEF Nested
  <2>4. UpTo[k - 1] = Over(IF k - 1 = 0 THEN {} ELSE UpTo[(k - 1) - 1])
    BY <2>1, <1>2
  <2>5. UpTo[k] = Over(UpTo[k - 1])
    BY <2>1, <1>2
  <2> QED BY <2>1, <2>3, <2>4, <2>5
<1>4. 0 \in S /\ S \subseteq 0..MaxDepth
  BY DEF Nested
<1>5. \A k \in 0..MaxDepth : k \in S
  <2> HIDE DEF S
  <2> QED BY <1>3, <1>4, Induction DEF Nested
<1>6. depth \in S /\ depth # 0
  BY <1>5
<1> QED BY <1>6

\* Every level is among all structures.
LEMMA LevelsWithin ==
    ASSUME Nested, NEW depth \in 0..MaxDepth
    PROVE  UpTo[depth] \subseteq All
<1> DEFINE S == {k \in 0..MaxDepth : UpTo[MaxDepth - k] \subseteq All}
<1>1. MaxDepth \in Nat
  BY DEF Nested
<1>2. 0 \in S
  BY <1>1 DEF All
<1>3. ASSUME NEW k \in 1..MaxDepth, k - 1 \in S PROVE k \in S
  <2>1. MaxDepth - (k - 1) \in 1..MaxDepth
    BY <1>1
  <2>2. UpTo[(MaxDepth - (k - 1)) - 1] \subseteq UpTo[MaxDepth - (k - 1)]
    BY <2>1, LevelsGrow
  <2>3. (MaxDepth - (k - 1)) - 1 = MaxDepth - k
    BY <1>1
  <2> QED BY <2>2, <2>3, <1>3
<1>4. \A k \in 0..MaxDepth : k \in S
  <2>1. S \subseteq 0..MaxDepth
    OBVIOUS
  <2> HIDE DEF S
  <2> QED BY <1>1, <1>2, <1>3, <2>1, Induction
<1>5. MaxDepth - depth \in 0..MaxDepth /\ MaxDepth - (MaxDepth - depth) = depth
  BY <1>1
<1>6. MaxDepth - depth \in S
  BY <1>4, <1>5
<1> QED BY <1>5, <1>6

\* A structure of some level has its parts in the level before, and there is one if it
\* has any.
LEMMA PartsAreLower ==
    ASSUME Nested, NEW depth \in 0..MaxDepth, NEW t \in UpTo[depth], NEW i \in DOMAIN Parts(t)
    PROVE  depth # 0 /\ Parts(t)[i] \in UpTo[depth - 1]
<1>1. Levels(UpTo, MaxDepth)
  BY LevelsExist DEF Nested
<1>2. t \in Over(IF depth = 0 THEN {} ELSE UpTo[depth - 1])
  BY <1>1 DEF Levels
<1>3. Parts(t)[i] \in (IF depth = 0 THEN {} ELSE UpTo[depth - 1])
  BY <1>2 DEF Nested
<1> QED BY <1>3

\* All structures are those over themselves: and their parts are structures.
LEMMA PartsAreStructures ==
    ASSUME Nested, NEW t \in All, NEW i \in DOMAIN Parts(t)
    PROVE  Parts(t)[i] \in All
<1>1. MaxDepth \in Nat /\ MaxDepth \in 0..MaxDepth
  BY DEF Nested
<1>2. MaxDepth # 0 /\ Parts(t)[i] \in UpTo[MaxDepth - 1]
  BY <1>1, PartsAreLower DEF All
<1>3. MaxDepth \in 1..MaxDepth
  BY <1>1, <1>2
<1> QED BY <1>2, <1>3, LevelsGrow DEF All

LEMMA StructuresOverAll ==
    ASSUME Nested
    PROVE  All \subseteq Over(All)
<1>1. Levels(UpTo, MaxDepth) /\ MaxDepth \in Nat /\ MaxDepth \in 0..MaxDepth
  BY LevelsExist DEF Nested
<1>2. All = Over(IF MaxDepth = 0 THEN {} ELSE UpTo[MaxDepth - 1])
  BY <1>1 DEF Levels, All
<1>3. (IF MaxDepth = 0 THEN {} ELSE UpTo[MaxDepth - 1]) \subseteq All
  <2>1. CASE MaxDepth = 0
    BY <2>1
  <2>2. CASE MaxDepth # 0
    BY <2>2, <1>1, LevelsGrow DEF All
  <2> QED BY <2>1, <2>2
<1> QED BY <1>2, <1>3 DEF Nested

-----------------------------------------------------------------------------
\* Induction: what holds of a structure if it holds of its parts holds of all.
THEOREM NestingInduction ==
    ASSUME Nested, NEW S,
           \A t \in All : (\A i \in DOMAIN Parts(t) : Parts(t)[i] \in S) => t \in S
    PROVE  All \subseteq S
<1> DEFINE D == {d \in 0..MaxDepth : UpTo[d] \subseteq S}
<1>1. MaxDepth \in Nat
  BY DEF Nested
<1>2. 0 \in D
  <2>1. 0 \in 0..MaxDepth
    BY <1>1
  <2>2. ASSUME NEW t \in UpTo[0] PROVE t \in S
    <3>1. t \in All
      BY <2>1, LevelsWithin
    <3>2. \A i \in DOMAIN Parts(t) : FALSE
      BY <2>1, PartsAreLower
    <3> QED BY <3>1, <3>2
  <2> QED BY <2>1, <2>2
<1>3. ASSUME NEW d \in 1..MaxDepth, d - 1 \in D PROVE d \in D
  <2>1. d \in 0..MaxDepth
    BY <1>1
  <2>2. ASSUME NEW t \in UpTo[d] PROVE t \in S
    <3>1. t \in All
      BY <2>1, LevelsWithin
    <3>2. \A i \in DOMAIN Parts(t) : Parts(t)[i] \in UpTo[d - 1]
      BY <2>1, PartsAreLower
    <3> QED BY <3>1, <3>2, <1>3
  <2> QED BY <2>1, <2>2
<1>4. \A d \in 0..MaxDepth : d \in D
  <2>1. D \subseteq 0..MaxDepth
    OBVIOUS
  <2> HIDE DEF D
  <2> QED BY <1>1, <1>2, <1>3, <2>1, Induction
<1>5. MaxDepth \in D
  BY <1>1, <1>4
<1> QED BY <1>5 DEF All

-----------------------------------------------------------------------------
\* f is the function that Step makes of its values for the parts.
Computes(f, D) == f = [t \in D |-> Step(t, [i \in DOMAIN Parts(t) |-> f[Parts(t)[i]]])]

Result == CHOOSE f : Computes(f, All)

LEMMA OneLevelMore ==
    ASSUME Nested, NEW d \in 1..MaxDepth, NEW f, Computes(f, UpTo[d - 1])
    PROVE  \E g : Computes(g, UpTo[d])
<1> DEFINE g == [t \in UpTo[d] |-> Step(t, [i \in DOMAIN Parts(t) |-> f[Parts(t)[i]]])]
<1>0. MaxDepth \in Nat /\ d \in 0..MaxDepth /\ d - 1 \in 0..MaxDepth
  BY DEF Nested
<1>1. ASSUME NEW t \in UpTo[d], NEW i \in DOMAIN Parts(t) PROVE g[Parts(t)[i]] = f[Parts(t)[i]]
  <2>1. Parts(t)[i] \in UpTo[d - 1] /\ Parts(t)[i] \in UpTo[d]
    BY <1>0, PartsAreLower, LevelsGrow
  <2>2. f[Parts(t)[i]] = Step(Parts(t)[i], [j \in DOMAIN Parts(Parts(t)[i]) |-> f[Parts(Parts(t)[i])[j]]])
    BY <2>1 DEF Computes
  <2> QED BY <2>1, <2>2
<1>2. ASSUME NEW t \in UpTo[d]
      PROVE [i \in DOMAIN Parts(t) |-> f[Parts(t)[i]]] = [i \in DOMAIN Parts(t) |-> g[Parts(t)[i]]]
  <2> HIDE DEF g
  <2> QED BY <1>1
<1>3. \A t \in UpTo[d] : g[t] = Step(t, [i \in DOMAIN Parts(t) |-> g[Parts(t)[i]]])
  <2> SUFFICES ASSUME NEW t \in UpTo[d] PROVE g[t] = Step(t, [i \in DOMAIN Parts(t) |-> g[Parts(t)[i]]])
    OBVIOUS
  <2>1. g[t] = Step(t, [i \in DOMAIN Parts(t) |-> f[Parts(t)[i]]])
    OBVIOUS
  <2> HIDE DEF g
  <2> QED BY <2>1, <1>2
<1>4. g = [t \in UpTo[d] |-> g[t]]
  OBVIOUS
<1>5. Computes(g, UpTo[d])
  <2> HIDE DEF g
  <2> QED BY <1>3, <1>4 DEF Computes
<1> QED BY <1>5

\* Recursion: there is a function that is computed from its values for the parts.
THEOREM NestingRecursion ==
    ASSUME Nested
    PROVE  Computes(Result, All)
<1> DEFINE S == {d \in 0..MaxDepth : \E f : Computes(f, UpTo[d])}
<1>0. MaxDepth \in Nat /\ 0 \in 0..MaxDepth
  BY DEF Nested
<1>1. 0 \in S
  <2> DEFINE f == [t \in UpTo[0] |-> Step(t, << >>)]
             g == [t \in UpTo[0] |-> Step(t, [i \in DOMAIN Parts(t) |-> f[Parts(t)[i]]])]
  <2>1. \A t \in UpTo[0] : DOMAIN Parts(t) = {}
    BY <1>0, PartsAreLower
  <2>2. \A t \in UpTo[0] : [i \in DOMAIN Parts(t) |-> f[Parts(t)[i]]] = [i \in DOMAIN Parts(t) |-> g[Parts(t)[i]]]
    <3> HIDE DEF f, g
    <3> QED BY <2>1
  <2>3. g = [t \in UpTo[0] |-> Step(t, [i \in DOMAIN Parts(t) |-> g[Parts(t)[i]]])]
    <3>1. g = [t \in UpTo[0] |-> Step(t, [i \in DOMAIN Parts(t) |-> f[Parts(t)[i]]])]
      OBVIOUS
    <3> HIDE DEF f, g
    <3> QED BY <3>1, <2>2
  <2>4. Computes(g, UpTo[0])
    <3> HIDE DEF f, g
    <3> QED BY <2>3 DEF Computes
  <2> QED BY <1>0, <2>4
<1>2. ASSUME NEW d \in 1..MaxDepth, d - 1 \in S PROVE d \in S
  <2>1. PICK f : Computes(f, UpTo[d - 1])
    BY <1>2
  <2>2. \E g : Computes(g, UpTo[d])
    BY <2>1, OneLevelMore
  <2> QED BY <2>2
<1>3. MaxDepth \in S
  <2>1. S \subseteq 0..MaxDepth
    OBVIOUS
  <2> HIDE DEF S
  <2>2. \A k \in 0..MaxDepth : k \in S
    BY <1>0, <1>1, <1>2, <2>1, Induction
  <2> QED BY <1>0, <2>2
<1>4. \E f : Computes(f, All)
  BY <1>3 DEF All
<1> QED BY <1>4 DEF Result
==============================================================================
