------------------------------ MODULE ValueProofs ------------------------------
(***************************************************************************)
(* Proofs about the values of AdiakValue, for all type strings, dimensions *)
(* and data up to the bound on lengths: that every block of memory of a    *)
(* copied value is released once, that the record has the datatype its     *)
(* string describes and the string made from a datatype reads back, and    *)
(* that tools read the application's data from a copy and from a reference.*)
(***************************************************************************)
EXTENDS AdiakValue, TypeProofs, SequenceTheorems, TLAPS

-----------------------------------------------------------------------------
\* What is computed for a datatype from what is computed for its subtypes.
Sizes == INSTANCE Nesting WITH
    MaxDepth <- MaxLength, Over <- TypesOver, Parts <- Subtypes, Step <- SizeFrom
Copies == INSTANCE Nesting WITH
    MaxDepth <- MaxLength, Over <- TypesOver, Parts <- Subtypes, Step <- CopyFrom
Frees == INSTANCE Nesting WITH
    MaxDepth <- MaxLength, Over <- TypesOver, Parts <- Subtypes, Step <- FreedFrom

LEMMA SizeParts ==
    ASSUME NEW t \in Datatypes
    PROVE  calc_size[t] = SizeFrom(t, [i \in DOMAIN t.subtype |-> calc_size[t.subtype[i]]])
<1>1. Sizes!Nested /\ Sizes!All = Datatypes
  BY TypesNested DEF Sizes!Nested, Types!Nested, Sizes!All, Sizes!UpTo, Datatypes, TypesUpTo
<1>2. Sizes!Result = calc_size
  BY <1>1 DEF Sizes!Result, Sizes!Computes, calc_size, Subtypes
<1>3. Sizes!Computes(calc_size, Datatypes)
  BY <1>1, <1>2, Sizes!NestingRecursion
<1> QED BY <1>3 DEF Sizes!Computes, Subtypes

LEMMA CopyParts ==
    ASSUME NEW t \in Datatypes
    PROVE  copy_value[t] = CopyFrom(t, [i \in DOMAIN t.subtype |-> copy_value[t.subtype[i]]])
<1>1. Copies!Nested /\ Copies!All = Datatypes
  BY TypesNested DEF Copies!Nested, Types!Nested, Copies!All, Copies!UpTo, Datatypes, TypesUpTo
<1>2. Copies!Result = copy_value
  BY <1>1 DEF Copies!Result, Copies!Computes, copy_value, Subtypes
<1>3. Copies!Computes(copy_value, Datatypes)
  BY <1>1, <1>2, Copies!NestingRecursion
<1> QED BY <1>3 DEF Copies!Computes, Subtypes

LEMMA FreedParts ==
    ASSUME NEW t \in Datatypes
    PROVE  free_adiak_value_worker[t]
               = FreedFrom(t, [i \in DOMAIN t.subtype |-> free_adiak_value_worker[t.subtype[i]]])
<1>1. Frees!Nested /\ Frees!All = Datatypes
  BY TypesNested DEF Frees!Nested, Types!Nested, Frees!All, Frees!UpTo, Datatypes, TypesUpTo
<1>2. Frees!Result = free_adiak_value_worker
  BY <1>1 DEF Frees!Result, Frees!Computes, free_adiak_value_worker, Subtypes
<1>3. Frees!Computes(free_adiak_value_worker, Datatypes)
  BY <1>1, <1>2, Frees!NestingRecursion
<1> QED BY <1>3 DEF Frees!Computes, Subtypes

\* Induction over datatypes.
LEMMA TypeInduction ==
    ASSUME NEW S, \A t \in Datatypes : (\A i \in DOMAIN t.subtype : t.subtype[i] \in S) => t \in S
    PROVE  Datatypes \subseteq S
<1>1. \A t \in Types!All : (\A i \in DOMAIN Subtypes(t) : Subtypes(t)[i] \in S) => t \in S
  BY TypesAll DEF Subtypes
<1>2. Types!All \subseteq S
  BY <1>1, TypesNested, Types!NestingInduction
<1> QED BY <1>2, TypesAll

\* Every element has a subtype.
LEMMA ElementSubtype ==
    ASSUME NEW t \in Datatypes, t.dtype \in ContainerTypes, NEW i \in 1..Count(t)
    PROVE  Index(t, i) \in DOMAIN t.subtype /\ Element(t, i) \in Datatypes
<1>1. t.subtype \in Seq(Datatypes) /\ Len(t.subtype) = Arity(t) /\ Count(t) \in Nat
  BY DatatypeFields DEF Count
<1>2. Index(t, i) \in 1..Len(t.subtype)
  <2>1. CASE t.dtype = "tuple"
    BY <1>1, <2>1 DEF Arity, Index
  <2>2. CASE t.dtype # "tuple"
    <3>1. Arity(t) = 1
      BY <2>2 DEF Arity
    <3> QED BY <1>1, <2>2, <3>1 DEF Index
  <2> QED BY <2>1, <2>2
<1> QED BY <1>1, <1>2 DEF Element

\* Sizes are numbers.
SumOf(sum, sizes) == sum = [i \in 0..Len(sizes) |-> IF i = 0 THEN 0 ELSE sum[i - 1] + sizes[i]]

LEMMA SumSteps ==
    ASSUME NEW sizes \in Seq(Nat)
    PROVE  \E sum : SumOf(sum, sizes)
<1> DEFINE n == Len(sizes)
           then == [i \in 1..n |-> [before \in Nat |-> before + sizes[i]]]
<1>1. n \in Nat
  OBVIOUS
<1>2. then \in Steps(n, Nat)
  <2>1. ASSUME NEW i \in 1..n, NEW before \in Nat PROVE before + sizes[i] \in Nat
    OBVIOUS
  <2> HIDE DEF n
  <2> QED BY <2>1 DEF Steps
<1>3. \E f \in [0..n -> Nat] : Iterates(f, n, 0, then)
  <2>1. 0 \in Nat
    OBVIOUS
  <2> HIDE DEF n, then
  <2> QED BY <1>1, <1>2, <2>1, Iteration
<1>4. PICK f \in [0..n -> Nat] : Iterates(f, n, 0, then)
  <2> HIDE DEF n, then
  <2> QED BY <1>3
<1>5. ASSUME NEW i \in 0..n PROVE f[i] = IF i = 0 THEN 0 ELSE f[i - 1] + sizes[i]
  <2>1. CASE i = 0
    BY <2>1, <1>4 DEF Iterates
  <2>2. CASE i # 0
    <3>1. i \in 1..n /\ i - 1 \in 0..n
      BY <1>1, <2>2
    <3>2. f[i] = then[i][f[i - 1]] /\ f[i - 1] \in Nat
      <4> HIDE DEF n, then
      <4> QED BY <1>4, <3>1 DEF Iterates
    <3>3. then[i][f[i - 1]] = f[i - 1] + sizes[i]
      <4> HIDE DEF n
      <4> QED BY <3>1, <3>2
    <3> QED BY <2>2, <3>2, <3>3
  <2> QED BY <2>1, <2>2
<1>6. f = [i \in 0..n |-> IF i = 0 THEN 0 ELSE f[i - 1] + sizes[i]]
  <2>1. f = [i \in 0..n |-> f[i]]
    OBVIOUS
  <2> HIDE DEF n, then
  <2> QED BY <1>5, <2>1
<1> QED BY <1>6 DEF SumOf

LEMMA SizeFromParts ==
    ASSUME NEW t, NEW sizes \in Seq(Nat)
    PROVE  \E sum : /\ SumOf(sum, sizes)
                    /\ SizeFrom(t, sizes) = CASE t.dtype \in ContainerTypes \ {"tuple"} -> Count(t) * sizes[1]
                                              [] t.dtype = "tuple" -> sum[Len(sizes)]
                                              [] OTHER -> t.num_bytes
BY SumSteps DEF SumOf, SizeFrom

LEMMA SumType ==
    ASSUME NEW sizes \in Seq(Nat), NEW sum, SumOf(sum, sizes)
    PROVE  \A i \in 0..Len(sizes) : sum[i] \in Nat
<1> DEFINE S == {i \in 0..Len(sizes) : sum[i] \in Nat}
<1>1. Len(sizes) \in Nat /\ S \subseteq 0..Len(sizes)
  OBVIOUS
<1>2. 0 \in S
  BY <1>1 DEF SumOf
<1>3. ASSUME NEW i \in 1..Len(sizes), i - 1 \in S PROVE i \in S
  <2>1. i \in 0..Len(sizes) /\ i # 0 /\ sizes[i] \in Nat /\ sum[i - 1] \in Nat
    BY <1>3
  <2>2. sum[i] = sum[i - 1] + sizes[i]
    BY <2>1 DEF SumOf
  <2> QED BY <2>1, <2>2
<1>4. \A i \in 0..Len(sizes) : i \in S
  <2> HIDE DEF S
  <2> QED BY <1>1, <1>2, <1>3, Induction
<1> QED BY <1>4

LEMMA SizeType == \A t \in Datatypes : calc_size[t] \in Nat
<1> DEFINE S == {t \in Datatypes : calc_size[t] \in Nat}
<1>1. ASSUME NEW t \in Datatypes, \A i \in DOMAIN t.subtype : t.subtype[i] \in S PROVE t \in S
  <2> DEFINE sizes == [i \in DOMAIN t.subtype |-> calc_size[t.subtype[i]]]
  <2>1. t.subtype \in Seq(Datatypes) /\ Len(t.subtype) = Arity(t) /\ t.num_bytes \in Nat
        /\ Count(t) \in Nat
    BY DatatypeFields DEF Count
  <2>2. DOMAIN t.subtype = 1..Len(t.subtype) /\ Len(t.subtype) \in Nat
    BY <2>1
  <2>3. sizes \in Seq(Nat) /\ Len(sizes) = Len(t.subtype)
    BY <1>1, <2>2
  <2> HIDE DEF sizes
  <2>4. PICK sum : /\ SumOf(sum, sizes)
                   /\ SizeFrom(t, sizes) = CASE t.dtype \in ContainerTypes \ {"tuple"} -> Count(t) * sizes[1]
                                             [] t.dtype = "tuple" -> sum[Len(sizes)]
                                             [] OTHER -> t.num_bytes
    BY <2>3, SizeFromParts
  <2>5. CASE t.dtype \in ContainerTypes \ {"tuple"}
    <3>1. Len(sizes) = 1
      BY <2>1, <2>3, <2>5 DEF Arity
    <3>2. sizes[1] \in Nat
      <4>1. 1 \in 1..Len(sizes)
        BY <3>1
      <4> QED BY <2>3, <4>1
    <3>3. SizeFrom(t, sizes) = Count(t) * sizes[1]
      BY <2>4, <2>5
    <3>4. SizeFrom(t, sizes) \in Nat
      BY <2>1, <3>2, <3>3
    <3> QED BY <3>4, SizeParts DEF sizes
  <2>6. CASE t.dtype = "tuple"
    <3>1. sum[Len(sizes)] \in Nat
      BY <2>2, <2>3, <2>4, SumType
    <3>2. SizeFrom(t, sizes) = sum[Len(sizes)]
      BY <2>4, <2>6
    <3> QED BY <3>1, <3>2, SizeParts DEF sizes
  <2>7. CASE t.dtype \notin ContainerTypes
    <3>1. SizeFrom(t, sizes) = t.num_bytes
      BY <2>4, <2>7 DEF ContainerTypes
    <3> QED BY <2>1, <3>1, SizeParts DEF sizes
  <2> QED BY <2>5, <2>6, <2>7
<1>2. Datatypes \subseteq S
  <2> HIDE DEF S
  <2> QED BY <1>1, TypeInduction
<1> QED BY <1>2

-----------------------------------------------------------------------------
\* copy_value goes through the elements of a container one after the other: the partial
\* results.
CopiesUpTo(upTo, t, at) ==
    upTo = [i \in 0..t.num_elements |->
              IF i = 0 THEN [subs |-> << >>, bytes |-> 0, blocks |-> {<< >>}]
              ELSE LET before == upTo[i - 1]
                       one == copy_value[Element(t, i)][at + before.bytes]
                   IN  [subs |-> Append(before.subs, one.value),
                        bytes |-> before.bytes + one.bytes,
                        blocks |-> before.blocks \cup Inside(i, one.blocks)]]

LEMMA CopySteps ==
    ASSUME NEW t \in Datatypes, t.dtype \in ContainerTypes, ~t.is_reference, NEW at \in Nat,
           \A i \in 1..t.num_elements : \A a \in Nat : copy_value[Element(t, i)][a].bytes \in Nat
    PROVE  \E upTo : CopiesUpTo(upTo, t, at)
<1> DEFINE n == t.num_elements
           Value1(i, a) == copy_value[Element(t, i)][a].value
           Blocks1(i, a) == Inside(i, copy_value[Element(t, i)][a].blocks)
           V == {Value1(i, a) : i \in 1..n, a \in Nat}
           B == {<< >>} \cup UNION {Blocks1(i, a) : i \in 1..n, a \in Nat}
           D == [subs : Seq(V), bytes : Nat, blocks : SUBSET B]
           first == [subs |-> << >>, bytes |-> 0, blocks |-> {<< >>}]
           Then(i, before) ==
               [subs |-> Append(before.subs, Value1(i, at + before.bytes)),
                bytes |-> before.bytes + copy_value[Element(t, i)][at + before.bytes].bytes,
                blocks |-> before.blocks \cup Blocks1(i, at + before.bytes)]
           then == [i \in 1..n |-> [before \in D |-> Then(i, before)]]
<1>1. n \in Nat
  BY DatatypeFields
<1>2. first \in D
  <2> HIDE DEF V
  <2> QED OBVIOUS
<1>3. ASSUME NEW i \in 1..n, NEW before \in D PROVE Then(i, before) \in D
  <2>1. before.subs \in Seq(V) /\ before.bytes \in Nat /\ before.blocks \subseteq B
    <3> HIDE DEF V, B
    <3> QED OBVIOUS
  <2> DEFINE a == at + before.bytes
  <2>2. a \in Nat
    BY <2>1
  <2> HIDE DEF a
  <2>3. Value1(i, a) \in V /\ Blocks1(i, a) \subseteq B
    <3> HIDE DEF Value1, Blocks1
    <3> QED BY <2>2
  <2>4. copy_value[Element(t, i)][a].bytes \in Nat
    BY <2>2
  <2> DEFINE more == copy_value[Element(t, i)][a].bytes
             one == Value1(i, a)
             places == Blocks1(i, a)
  <2>5. Then(i, before) = [subs |-> Append(before.subs, one), bytes |-> before.bytes + more,
                           blocks |-> before.blocks \cup places]
    BY DEF a
  <2>6. one \in V /\ places \subseteq B /\ more \in Nat
    BY <2>3, <2>4
  <2> HIDE DEF V, B, one, places, more, Then
  <2>7. Append(before.subs, one) \in Seq(V)
    BY <2>1, <2>6
  <2>8. before.blocks \cup places \in SUBSET B /\ before.bytes + more \in Nat
    BY <2>1, <2>6
  <2> QED BY <2>5, <2>7, <2>8
<1>4. then \in Steps(n, D)
  <2> HIDE DEF n, D, Then
  <2> QED BY <1>3 DEF Steps
<1>5. \E f \in [0..n -> D] : Iterates(f, n, first, then)
  <2> HIDE DEF n, D, first, then
  <2> QED BY <1>1, <1>2, <1>4, Iteration
<1>6. PICK f \in [0..n -> D] : Iterates(f, n, first, then)
  <2> HIDE DEF n, D, first, then
  <2> QED BY <1>5
<1>7. ASSUME NEW i \in 0..n PROVE f[i] = IF i = 0 THEN first ELSE Then(i, f[i - 1])
  <2>1. CASE i = 0
    <3> HIDE DEF D, then, first, Then
    <3> QED BY <2>1, <1>6 DEF Iterates
  <2>2. CASE i # 0
    <3>1. i \in 1..n /\ i - 1 \in 0..n
      BY <1>1, <2>2
    <3>2. f[i] = then[i][f[i - 1]] /\ f[i - 1] \in D
      <4> HIDE DEF n, then, D, first
      <4> QED BY <1>6, <3>1 DEF Iterates
    <3>3. then[i][f[i - 1]] = Then(i, f[i - 1])
      <4> HIDE DEF n, D, Then
      <4> QED BY <3>1, <3>2
    <3> HIDE DEF then, Then, first, D
    <3> QED BY <2>2, <3>2, <3>3
  <2> QED BY <2>1, <2>2
<1>8. f = [i \in 0..n |-> IF i = 0 THEN first ELSE Then(i, f[i - 1])]
  <2>1. f = [i \in 0..n |-> f[i]]
    OBVIOUS
  <2> HIDE DEF n, then, Then, first, D
  <2> QED BY <1>7, <2>1
<1>9. CopiesUpTo(f, t, at)
  <2> HIDE DEF D, V, B, then
  <2> QED BY <1>8 DEF CopiesUpTo
<1> QED BY <1>9

\* What copy_value does with a container that is not a reference.
CopiesFrom(upTo, t, copies, at) ==
    upTo = [i \in 0..t.num_elements |->
              IF i = 0 THEN [subs |-> << >>, bytes |-> 0, blocks |-> {<< >>}]
              ELSE LET before == upTo[i - 1]
                       one == copies[Index(t, i)][at + before.bytes]
                   IN  [subs |-> Append(before.subs, one.value),
                        bytes |-> before.bytes + one.bytes,
                        blocks |-> before.blocks \cup Inside(i, one.blocks)]]

LEMMA CopiesOfParts ==
    ASSUME NEW t \in Datatypes, t.dtype \in ContainerTypes, NEW at, NEW upTo
    PROVE  CopiesUpTo(upTo, t, at)
               <=> CopiesFrom(upTo, t, [i \in DOMAIN t.subtype |-> copy_value[t.subtype[i]]], at)
<1> DEFINE copies == [i \in DOMAIN t.subtype |-> copy_value[t.subtype[i]]]
           n == t.num_elements
           first == [subs |-> << >>, bytes |-> 0, blocks |-> {<< >>}]
           More(i, before, one) ==
               [subs |-> Append(before.subs, one.value),
                bytes |-> before.bytes + one.bytes,
                blocks |-> before.blocks \cup Inside(i, one.blocks)]
           A(i) == IF i = 0 THEN first
                   ELSE More(i, upTo[i - 1], copy_value[Element(t, i)][at + upTo[i - 1].bytes])
           B(i) == IF i = 0 THEN first
                   ELSE More(i, upTo[i - 1], copies[Index(t, i)][at + upTo[i - 1].bytes])
<1>1. n \in Nat /\ t.num_ref_elements \in Nat
  BY DatatypeFields
<1>2. ASSUME NEW i \in 1..n PROVE copies[Index(t, i)] = copy_value[Element(t, i)]
  <2>1. i \in 1..Count(t)
    BY <1>1 DEF Count
  <2>2. Index(t, i) \in DOMAIN t.subtype
    BY <2>1, ElementSubtype
  <2> QED BY <2>2 DEF Element
<1>3. ASSUME NEW i \in 0..n PROVE A(i) = B(i)
  <2> HIDE DEF copies, More, first
  <2>1. i # 0 => i \in 1..n
    BY <1>1
  <2> QED BY <1>2, <2>1
<1>4. CopiesUpTo(upTo, t, at) <=> upTo = [i \in 0..n |-> A(i)]
  <2> HIDE DEF copies
  <2> QED BY DEF CopiesUpTo
<1>5. CopiesFrom(upTo, t, copies, at) <=> upTo = [i \in 0..n |-> B(i)]
  <2> HIDE DEF copies
  <2> QED BY DEF CopiesFrom
<1>6. [i \in 0..n |-> A(i)] = [i \in 0..n |-> B(i)]
  <2> HIDE DEF A, B
  <2> QED BY <1>3
<1> HIDE DEF A, B
<1> QED BY <1>4, <1>5, <1>6

LEMMA CopyOfContainer ==
    ASSUME NEW t \in Datatypes, t.dtype \in ContainerTypes, ~t.is_reference, NEW at \in Nat,
           \A i \in 1..t.num_elements : \A a \in Nat : copy_value[Element(t, i)][a].bytes \in Nat
    PROVE  \E upTo : /\ CopiesUpTo(upTo, t, at)
                     /\ copy_value[t][at] = Copied(Array(upTo[t.num_elements].subs),
                                                   upTo[t.num_elements].bytes,
                                                   upTo[t.num_elements].blocks)
<1> DEFINE copies == [i \in DOMAIN t.subtype |-> copy_value[t.subtype[i]]]
<1>1. PICK f : CopiesUpTo(f, t, at)
  BY CopySteps
<1>2. CopiesFrom(f, t, copies, at)
  BY <1>1, CopiesOfParts
<1>3. copy_value[t] = CopyFrom(t, copies)
  BY CopyParts
<1>4. t.dtype \notin PointerTypes
  BY DEF ContainerTypes, PointerTypes, StringTypes
<1> HIDE DEF copies
<1>5. PICK upTo : /\ CopiesFrom(upTo, t, copies, at)
                  /\ CopyFrom(t, copies)[at] = Copied(Array(upTo[t.num_elements].subs),
                                                      upTo[t.num_elements].bytes,
                                                      upTo[t.num_elements].blocks)
  BY <1>2, <1>4 DEF CopiesFrom, CopyFrom
<1>6. CopiesUpTo(upTo, t, at)
  BY <1>5, CopiesOfParts DEF copies
<1> QED BY <1>3, <1>5, <1>6

-----------------------------------------------------------------------------
\* What copy_value leaves: the number of bytes read, the blocks that the worker of
\* free_adiak_value frees, and an array of all elements.
CopiedAsFreed(t, copied) ==
    /\ copied.bytes \in Nat
    /\ copied.blocks = free_adiak_value_worker[t]
    /\ Len(copied.value.subs) = IF t.is_reference THEN 0 ELSE t.num_elements

LEMMA CopiesMade ==
    ASSUME NEW t \in Datatypes, NEW at \in Nat, NEW upTo, CopiesUpTo(upTo, t, at),
           \A i \in 1..t.num_elements : \A a \in Nat :
               CopiedAsFreed(Element(t, i), copy_value[Element(t, i)][a])
    PROVE  \A i \in 0..t.num_elements :
               /\ upTo[i].bytes \in Nat /\ Len(upTo[i].subs) = i
               /\ \E V : upTo[i].subs \in Seq(V)
               /\ upTo[i].blocks = {<< >>} \cup
                     UNION {Inside(j, free_adiak_value_worker[Element(t, j)]) : j \in 1..i}
<1> DEFINE n == t.num_elements
           Freed(j) == Inside(j, free_adiak_value_worker[Element(t, j)])
           Good(i) == /\ upTo[i].bytes \in Nat /\ Len(upTo[i].subs) = i
                      /\ \E V : upTo[i].subs \in Seq(V)
                      /\ upTo[i].blocks = {<< >>} \cup UNION {Freed(j) : j \in 1..i}
           S == {i \in 0..n : Good(i)}
<1>1. n \in Nat
  BY DatatypeFields
<1>2. Good(0)
  <2>1. upTo[0] = [subs |-> << >>, bytes |-> 0, blocks |-> {<< >>}]
    BY <1>1 DEF CopiesUpTo
  <2>2. UNION {Freed(j) : j \in 1..0} = {}
    OBVIOUS
  <2>3. << >> \in Seq({}) /\ Len(<< >>) = 0
    OBVIOUS
  <2> HIDE DEF Freed
  <2> QED BY <2>1, <2>2, <2>3
<1>3. ASSUME NEW i \in 1..n, Good(i - 1) PROVE Good(i)
  <2>1. i \in 0..n /\ i # 0
    BY <1>1
  <2> DEFINE before == upTo[i - 1]
             one == copy_value[Element(t, i)][at + before.bytes]
  <2>2. upTo[i] = [subs |-> Append(before.subs, one.value), bytes |-> before.bytes + one.bytes,
                   blocks |-> before.blocks \cup Inside(i, one.blocks)]
    BY <2>1 DEF CopiesUpTo
  <2>3. before.bytes \in Nat /\ Len(before.subs) = i - 1
        /\ before.blocks = {<< >>} \cup UNION {Freed(j) : j \in 1..(i - 1)}
    BY <1>3
  <2>4. PICK V : before.subs \in Seq(V)
    BY <1>3
  <2>5. CopiedAsFreed(Element(t, i), one)
    BY <2>3
  <2> HIDE DEF before, one
  <2>6. one.bytes \in Nat /\ one.blocks = free_adiak_value_worker[Element(t, i)]
    BY <2>5 DEF CopiedAsFreed
  <2>7. Inside(i, one.blocks) = Freed(i)
    BY <2>6
  <2>8. upTo[i].bytes \in Nat
    BY <2>2, <2>3, <2>6
  <2>9. Append(before.subs, one.value) \in Seq(V \cup {one.value})
        /\ Len(Append(before.subs, one.value)) = i
    <3>1. before.subs \in Seq(V \cup {one.value})
      BY <2>4
    <3> QED BY <3>1, <2>3, <2>1
  <2>10. upTo[i].blocks = {<< >>} \cup UNION {Freed(j) : j \in 1..i}
    <3> HIDE DEF Freed
    <3>1. \A j : j \in 1..i <=> j \in 1..(i - 1) \/ j = i
      BY <2>1, <1>1
    <3>2. UNION {Freed(j) : j \in 1..i} = (UNION {Freed(j) : j \in 1..(i - 1)}) \cup Freed(i)
      <4>1. ASSUME NEW x, x \in UNION {Freed(j) : j \in 1..i}
            PROVE  x \in (UNION {Freed(j) : j \in 1..(i - 1)}) \cup Freed(i)
        <5>1. PICK j \in 1..i : x \in Freed(j)
          BY <4>1
        <5>2. CASE j = i
          BY <5>1, <5>2
        <5>3. CASE j \in 1..(i - 1)
          BY <5>1, <5>3
        <5> QED BY <5>2, <5>3, <3>1
      <4>2. ASSUME NEW x, x \in (UNION {Freed(j) : j \in 1..(i - 1)}) \cup Freed(i)
            PROVE  x \in UNION {Freed(j) : j \in 1..i}
        <5>1. CASE x \in Freed(i)
          <6>1. i \in 1..i
            BY <3>1
          <6> QED BY <5>1, <6>1
        <5>2. CASE x \in UNION {Freed(j) : j \in 1..(i - 1)}
          <6>1. PICK j \in 1..(i - 1) : x \in Freed(j)
            BY <5>2
          <6>2. j \in 1..i
            BY <3>1
          <6> QED BY <6>1, <6>2
        <5> QED BY <4>2, <5>1, <5>2
      <4> QED BY <4>1, <4>2
    <3>3. upTo[i].blocks = before.blocks \cup Freed(i)
      BY <2>2, <2>7
    <3> QED BY <3>2, <3>3, <2>3
  <2> HIDE DEF Freed
  <2> QED BY <2>2, <2>8, <2>9, <2>10
<1>4. \A i \in 0..n : i \in S
  <2>1. S \subseteq 0..n /\ 0 \in 0..n
    BY <1>1
  <2>2. \A i \in 1..n : i - 1 \in S => i \in S
    <3> HIDE DEF Good
    <3> QED BY <1>1, <1>3
  <2>3. 0 \in S
    <3> HIDE DEF Good
    <3> QED BY <1>2, <2>1
  <2> HIDE DEF S, n
  <2> QED BY <1>1, <2>1, <2>2, <2>3, Induction
<1> QED
  <2>1. \A i \in 0..n : Good(i)
    BY <1>4
  <2> QED BY <2>1

\* Whatever mix of copies and references a datatype is, releasing frees what copying
\* has allocated.
THEOREM CopiesAreFreed ==
    ASSUME NEW t \in Datatypes, NEW at \in Nat
    PROVE  CopiedAsFreed(t, copy_value[t][at])
<1> DEFINE S == {u \in Datatypes : \A a \in Nat : CopiedAsFreed(u, copy_value[u][a])}
<1>1. ASSUME NEW u \in Datatypes, \A i \in DOMAIN u.subtype : u.subtype[i] \in S, NEW a \in Nat
      PROVE  CopiedAsFreed(u, copy_value[u][a])
  <2> DEFINE copies == [i \in DOMAIN u.subtype |-> copy_value[u.subtype[i]]]
             freed == [i \in DOMAIN u.subtype |-> free_adiak_value_worker[u.subtype[i]]]
             n == u.num_elements
  <2>1. /\ u.dtype \in NumberTypes \cup PointerTypes \cup ContainerTypes
        /\ u.num_bytes \in Nat /\ u.is_reference \in BOOLEAN
        /\ n \in Nat /\ u.num_ref_elements \in Nat
        /\ u.dtype \notin ContainerTypes => n = 0
    BY DatatypeFields DEF Count
  <2>2. copy_value[u] = CopyFrom(u, copies) /\ free_adiak_value_worker[u] = FreedFrom(u, freed)
    BY CopyParts, FreedParts
  <2>3. \A x, y, z : /\ Copied(x, y, z).value = x /\ Copied(x, y, z).bytes = y /\ Copied(x, y, z).blocks = z
    BY DEF Copied
  <2>4. /\ \A x : Len(Reference(x).subs) = 0
        /\ \A x : Array(x).subs = x
        /\ \A x, y : Len(Pointer(x, y).subs) = 0 /\ Len(Numeric(x, y).subs) = 0
    BY DEF Reference, Array, Pointer, Numeric, Value
  <2>5. CASE u.dtype \in PointerTypes
    <3>1. u.dtype \notin ContainerTypes
      BY <2>5 DEF ContainerTypes, PointerTypes, StringTypes
    <3>2. \E cell : CopyFrom(u, copies)[a]
              = Copied(Pointer(cell, ~u.is_reference), 8, IF u.is_reference THEN {} ELSE {<< >>})
      <4> HIDE DEF copies
      <4> QED BY <2>5, <3>1 DEF CopyFrom
    <3>3. FreedFrom(u, freed) = IF u.is_reference THEN {} ELSE {<< >>}
      <4> HIDE DEF freed
      <4> QED BY <2>1, <2>5, <3>1 DEF FreedFrom
    <3> HIDE DEF copies, freed
    <3> QED BY <2>1, <2>2, <2>3, <2>4, <3>1, <3>2, <3>3 DEF CopiedAsFreed
  <2>6. CASE u.dtype \in ContainerTypes /\ u.is_reference
    <3>1. u.dtype \notin PointerTypes
      BY <2>6 DEF ContainerTypes, PointerTypes, StringTypes
    <3>2. CopyFrom(u, copies)[a] = Copied(Reference(a), calc_size[u], {})
      <4> HIDE DEF copies
      <4> QED BY <2>6, <3>1 DEF CopyFrom
    <3>3. FreedFrom(u, freed) = {}
      <4> HIDE DEF freed
      <4> QED BY <2>6 DEF FreedFrom
    <3>4. calc_size[u] \in Nat
      BY SizeType
    <3> HIDE DEF copies, freed
    <3> QED BY <2>6, <2>2, <2>3, <2>4, <3>2, <3>3, <3>4 DEF CopiedAsFreed
  <2>7. CASE u.dtype \in ContainerTypes /\ ~u.is_reference
    <3>1. ASSUME NEW i \in 1..n PROVE Index(u, i) \in DOMAIN u.subtype /\ Element(u, i) \in S
      <4>1. i \in 1..Count(u)
        BY <2>1 DEF Count
      <4>2. Index(u, i) \in DOMAIN u.subtype
        BY <4>1, <2>7, ElementSubtype
      <4> HIDE DEF S
      <4> QED BY <4>2, <1>1 DEF Element
    <3>2. \A i \in 1..n : \A b \in Nat : CopiedAsFreed(Element(u, i), copy_value[Element(u, i)][b])
      BY <3>1
    <3>3. \A i \in 1..n : \A b \in Nat : copy_value[Element(u, i)][b].bytes \in Nat
      BY <3>2 DEF CopiedAsFreed
    <3>4. PICK upTo : /\ CopiesUpTo(upTo, u, a)
                      /\ copy_value[u][a] = Copied(Array(upTo[n].subs), upTo[n].bytes, upTo[n].blocks)
      BY <2>7, <3>3, CopyOfContainer
    <3>5. /\ upTo[n].bytes \in Nat /\ Len(upTo[n].subs) = n
          /\ upTo[n].blocks = {<< >>} \cup UNION {Inside(j, free_adiak_value_worker[Element(u, j)]) : j \in 1..n}
      <4>1. n \in 0..n
        BY <2>1
      <4>2. CopiesUpTo(upTo, u, a)
        BY <3>4
      <4>3. \A i \in 0..u.num_elements :
               /\ upTo[i].bytes \in Nat /\ Len(upTo[i].subs) = i
               /\ \E V : upTo[i].subs \in Seq(V)
               /\ upTo[i].blocks = {<< >>} \cup
                     UNION {Inside(j, free_adiak_value_worker[Element(u, j)]) : j \in 1..i}
        BY <3>2, <4>2, CopiesMade
      <4> QED BY <4>1, <4>3
    <3>6. FreedFrom(u, freed) = {<< >>} \cup UNION {Inside(j, freed[Index(u, j)]) : j \in 1..n}
      <4>1. u.dtype \notin PointerTypes
        BY <2>7 DEF ContainerTypes, PointerTypes, StringTypes
      <4> HIDE DEF freed
      <4> QED BY <2>7, <4>1 DEF FreedFrom
    <3>7. \A j \in 1..n : freed[Index(u, j)] = free_adiak_value_worker[Element(u, j)]
      BY <3>1 DEF Element
    <3>8. free_adiak_value_worker[u] = upTo[n].blocks
      <4> HIDE DEF freed
      <4> QED BY <2>2, <3>5, <3>6, <3>7
    <3> QED BY <2>3, <2>4, <2>7, <3>4, <3>5, <3>8 DEF CopiedAsFreed
  <2>8. CASE u.dtype \notin PointerTypes \cup ContainerTypes
    <3>1. \E cell, number : CopyFrom(u, copies)[a] = Copied(Numeric(cell, number), u.num_bytes, {})
      <4> HIDE DEF copies
      <4> QED BY <2>8 DEF CopyFrom
    <3>2. FreedFrom(u, freed) = {}
      <4> HIDE DEF freed
      <4> QED BY <2>8 DEF FreedFrom
    <3> HIDE DEF copies, freed
    <3> QED BY <2>1, <2>8, <2>2, <2>3, <2>4, <3>1, <3>2 DEF CopiedAsFreed
  <2> QED BY <2>5, <2>6, <2>7, <2>8
<1>2. Datatypes \subseteq S
  <2>1. ASSUME NEW u \in Datatypes, \A i \in DOMAIN u.subtype : u.subtype[i] \in S PROVE u \in S
    BY <1>1, <2>1
  <2> HIDE DEF S
  <2> QED BY <2>1, TypeInduction
<1> QED BY <1>2

-----------------------------------------------------------------------------
\* The inductive invariant.

\* A term is registered only while the application has its data, so that the string
\* that parse_typestr reads is one that is written for a term.
DataOfTerm == object # 0 => term \in Terms

\* The record has a datatype that a value can be copied and released by, and there is
\* no record before the first registration.
RecordOK ==
    /\ dtype \in Datatypes \cup {NullType}
    /\ dtype # NullType => registered >= 1 /\ of \in Terms

ValueInv == TypeOK /\ DataOfTerm /\ RecordOK /\ HeapIsRecord /\ TopTypeAgrees

\* A new value has the blocks that will be released with it, and all its elements.
LEMMA NewValueFreed ==
    ASSUME NEW t \in Datatypes
    PROVE  /\ NewValue(t).blocks = free_adiak_value_worker[t]
           /\ Len(NewValue(t).value.subs) = IF t.is_reference THEN 0 ELSE t.num_elements
<1>1. /\ t.dtype \in NumberTypes \cup PointerTypes \cup ContainerTypes
      /\ t.is_reference \in BOOLEAN /\ t.num_elements \in Nat /\ t.num_ref_elements \in Nat
      /\ t.dtype \notin ContainerTypes => t.num_elements = 0
  BY DatatypeFields DEF Count
<1> DEFINE freed == [i \in DOMAIN t.subtype |-> free_adiak_value_worker[t.subtype[i]]]
<1>2. free_adiak_value_worker[t] = FreedFrom(t, freed)
  BY FreedParts
<1> HIDE DEF freed
<1>3. \A x, y, z : Copied(x, y, z).value = x /\ Copied(x, y, z).blocks = z
  BY DEF Copied
<1>4. CASE t.dtype \in ContainerTypes
  <2>1. NewValue(t) = copy_value[t][0]
    <3>1. t.dtype \notin PointerTypes
      BY <1>4 DEF ContainerTypes, PointerTypes, StringTypes
    <3> QED BY <1>4, <3>1 DEF NewValue
  <2>2. CopiedAsFreed(t, copy_value[t][0])
    BY CopiesAreFreed
  <2> QED BY <2>1, <2>2 DEF CopiedAsFreed
<1>5. CASE t.dtype \in PointerTypes
  <2>1. t.dtype \notin ContainerTypes
    BY <1>5 DEF ContainerTypes, PointerTypes, StringTypes
  <2>2. NewValue(t) = Copied(Pointer(Load(0, 8), ~t.is_reference), 8, IF t.is_reference THEN {} ELSE {<< >>})
    BY <1>5, <2>1 DEF NewValue
  <2>3. FreedFrom(t, freed) = IF t.is_reference THEN {} ELSE {<< >>}
    BY <1>1, <1>5, <2>1 DEF FreedFrom
  <2>4. Pointer(Load(0, 8), ~t.is_reference).subs = << >>
    BY DEF Pointer, Value
  <2> QED BY <1>1, <1>2, <1>3, <2>1, <2>2, <2>3, <2>4
<1>6. CASE t.dtype \notin PointerTypes \cup ContainerTypes
  <2>1. \E v : NewValue(t) = Copied(v, t.num_bytes, {}) /\ v.subs = << >>
    BY <1>6 DEF NewValue, Value
  <2>2. FreedFrom(t, freed) = {}
    BY <1>6 DEF FreedFrom
  <2> QED BY <1>1, <1>2, <1>3, <1>6, <2>1, <2>2
<1> QED BY <1>4, <1>5, <1>6

\* The blocks of different registrations are different.
LEMMA BlocksApart ==
    ASSUME NEW k \in Nat, NEW P, NEW Q
    PROVE  /\ Blocks(k, P) \cap Blocks(k + 1, Q) = {}
           /\ \A block \in Blocks(k, P) : block[1] = k
BY DEF Blocks

LEMMA ValueInvInit == Init => ValueInv
<1> SUFFICES ASSUME Init PROVE ValueInv
  OBVIOUS
<1>1. TypeOK
  <2>1. 0 \in 0..MaxVersion /\ 0 \in 0..MaxRegistrations
    BY ValueAssumption
  <2> QED BY <2>1 DEF Init, TypeOK
<1> QED BY <1>1 DEF Init, ValueInv, DataOfTerm, RecordOK, HeapIsRecord, OldBlocks, TopTypeAgrees

\* Registering keeps the invariant.
LEMMA ValueInvRegister ==
    ASSUME ValueInv, NEW stray \in 0..1, adiak_namevalue(stray)
    PROVE  ValueInv'
<1> DEFINE t == parse_typestr(Written[term], Dimensions[term], stray)
           new == NewValue(t)
<1>1. /\ object # 0 /\ targets # 0 /\ registered < MaxRegistrations
      /\ t # NullType /\ registered' = registered + 1
      /\ dtype' = t /\ value' = new.value
      /\ of' = term /\ heap' = (heap \cup Blocks(registered + 1, new.blocks)) \ OldBlocks
      /\ term' = term /\ object' = object /\ targets' = targets
  BY DEF adiak_namevalue, appVars
<1>2. term \in Terms /\ term \in AllTerms /\ Len(Written[term]) <= MaxLength
  BY <1>1, ValueAssumption DEF ValueInv, DataOfTerm
<1>3. Written[term] \in Seq(Tokens) /\ Dimensions[term] \in Seq(Nat) /\ stray \in Nat
  BY <1>2, WrittenType, DimensionsType
<1>4. t \in Datatypes
  BY <1>1, <1>2, <1>3, ParseTyped
<1>5. toplevel_type(Written[term]) = t.dtype
  BY <1>1, <1>3, ReadingsAgree
<1> HIDE DEF t
<1>6. /\ new.blocks = free_adiak_value_worker[t]
      /\ Len(new.value.subs) = IF t.is_reference THEN 0 ELSE t.num_elements
  BY <1>4, NewValueFreed
<1> HIDE DEF new
<1>7. registered \in Nat /\ registered + 1 \in 0..MaxRegistrations /\ registered + 1 \in 1..(registered + 1)
  BY <1>1, ValueAssumption DEF ValueInv, TypeOK
<1>8. heap' = Blocks(registered + 1, free_adiak_value_worker[t])
  <2>1. heap = OldBlocks
    BY DEF ValueInv, HeapIsRecord
  <2>2. OldBlocks \cap Blocks(registered + 1, new.blocks) = {}
    BY <1>7, BlocksApart DEF OldBlocks
  <2> QED BY <1>1, <1>6, <2>1, <2>2
<1>9. OldBlocks' = Blocks(registered + 1, free_adiak_value_worker[t])
  BY <1>1 DEF OldBlocks
<1>10. HeapIsRecord'
  BY <1>8, <1>9 DEF HeapIsRecord
<1>11. \A block \in heap' : block[1] \in 1..registered'
  <2>1. \A block \in Blocks(registered + 1, free_adiak_value_worker[t]) : block[1] = registered + 1
    BY DEF Blocks
  <2> QED BY <1>1, <1>7, <1>8, <2>1
<1>12. TypeOK'
  BY <1>1, <1>2, <1>6, <1>7, <1>11 DEF ValueInv, TypeOK
<1>13. DataOfTerm' /\ RecordOK'
  BY <1>1, <1>2, <1>4, <1>7 DEF DataOfTerm, RecordOK
<1>14. TopTypeAgrees'
  BY <1>1, <1>5 DEF TopTypeAgrees
<1> QED BY <1>10, <1>12, <1>13, <1>14 DEF ValueInv

LEMMA ValueInvNext == ValueInv /\ [Next]_vars => ValueInv'
<1> SUFFICES ASSUME ValueInv, [Next]_vars PROVE ValueInv'
  OBVIOUS
<1> USE DEF ValueInv
<1>1. ASSUME NEW stray \in 0..1, adiak_namevalue(stray) PROVE ValueInv'
  BY <1>1, ValueInvRegister
<1>2. CASE adiak_clean
  <2>1. /\ dtype' = NullType /\ value' = NoValue /\ heap' = heap \ OldBlocks
        /\ term' = term /\ object' = object /\ targets' = targets
        /\ registered' = registered /\ of' = of
    BY <1>2 DEF adiak_clean, appVars
  <2>2. heap' = {}
    BY <2>1 DEF HeapIsRecord
  <2>3. TypeOK'
    BY <2>1, <2>2 DEF TypeOK
  <2> QED BY <2>1, <2>2, <2>3 DEF DataOfTerm, RecordOK, HeapIsRecord, OldBlocks, TopTypeAgrees
<1>3. ASSUME NEW g \in Terms, PrepareData(g) PROVE ValueInv'
  <2>1. /\ term' = g /\ object' = 1 /\ targets' = 1
        /\ registered' = registered /\ dtype' = dtype /\ value' = value /\ of' = of /\ heap' = heap
    BY <1>3 DEF PrepareData, recordVars
  <2>2. TypeOK'
    <3>1. 1 \in 0..MaxVersion
      BY ValueAssumption
    <3> QED BY <2>1, <3>1 DEF TypeOK
  <2> QED BY <2>1, <2>2 DEF DataOfTerm, RecordOK, HeapIsRecord, OldBlocks, TopTypeAgrees
<1>4. CASE ChangeData
  <2>1. /\ term' = term /\ {object', targets'} \subseteq 0..MaxVersion
        /\ object # 0 \/ object' = 0
        /\ registered' = registered /\ dtype' = dtype /\ value' = value /\ of' = of /\ heap' = heap
    BY <1>4, ValueAssumption DEF ChangeData, recordVars, TypeOK
  <2>2. TypeOK'
    BY <2>1 DEF TypeOK
  <2> QED BY <2>1, <2>2 DEF DataOfTerm, RecordOK, HeapIsRecord, OldBlocks, TopTypeAgrees
<1>5. CASE FreeData
  <2>1. /\ term' = term /\ {object', targets'} \subseteq 0..MaxVersion
        /\ object # 0 \/ object' = 0
        /\ registered' = registered /\ dtype' = dtype /\ value' = value /\ of' = of /\ heap' = heap
    BY <1>5, ValueAssumption DEF FreeData, recordVars, TypeOK
  <2>2. TypeOK'
    BY <2>1 DEF TypeOK
  <2> QED BY <2>1, <2>2 DEF DataOfTerm, RecordOK, HeapIsRecord, OldBlocks, TopTypeAgrees
<1>6. CASE UNCHANGED vars
  <2>1. /\ term' = term /\ object' = object /\ targets' = targets
        /\ registered' = registered /\ dtype' = dtype /\ value' = value /\ of' = of /\ heap' = heap
    BY <1>6 DEF vars, appVars, recordVars
  <2>2. TypeOK'
    BY <2>1 DEF TypeOK
  <2> QED BY <2>1, <2>2 DEF DataOfTerm, RecordOK, HeapIsRecord, OldBlocks, TopTypeAgrees
<1> QED BY <1>1, <1>2, <1>3, <1>4, <1>5, <1>6 DEF Next

\* The record, its value and the heap are well formed.
THEOREM ValueTypes == Spec => []TypeOK
<1>1. ValueInv => TypeOK
  BY DEF ValueInv
<1> QED BY <1>1, ValueInvInit, ValueInvNext, PTL DEF Spec

\* Adiak holds exactly the blocks that it will release with the record.
THEOREM BlocksReleased == Spec => []HeapIsRecord
<1>1. ValueInv => HeapIsRecord
  BY DEF ValueInv
<1> QED BY <1>1, ValueInvInit, ValueInvNext, PTL DEF Spec

\* The first argument is read as the type of the record.
THEOREM TopTypes == Spec => []TopTypeAgrees
<1>1. ValueInv => TopTypeAgrees
  BY DEF ValueInv
<1> QED BY <1>1, ValueInvInit, ValueInvNext, PTL DEF Spec
-----------------------------------------------------------------------------
\* The inductive invariant, with what parsing makes of terms.

\* No tuple of the application stands before another element of a tuple
\* (TypeNestedTuple shows what happens otherwise).
AllTuplesLast == \A g \in Terms : TuplesLast[g]

ParsedInv == ValueInv /\ ParsesAsWritten

LEMMA ParsedInvInit == Init => ParsedInv
BY ValueInvInit DEF Init, ParsedInv, ParsesAsWritten

\* Of the actions that AdiakValue has without C++.
LEMMA ParsedInvNext == AllTuplesLast /\ ParsedInv /\ [Next]_vars => ParsedInv'
<1> SUFFICES ASSUME AllTuplesLast, ParsedInv, [Next]_vars PROVE ParsedInv'
  OBVIOUS
<1>1. ValueInv /\ ParsesAsWritten
  BY DEF ParsedInv
<1>2. ValueInv'
  BY <1>1, ValueInvNext
<1>3. ASSUME NEW stray \in 0..1, adiak_namevalue(stray) PROVE ParsesAsWritten'
  <2>1. /\ object # 0 /\ of' = term
        /\ dtype' = parse_typestr(Written[term], Dimensions[term], stray)
    BY <1>3 DEF adiak_namevalue
  <2>2. term \in Terms /\ term \in AllTerms /\ Len(Written[term]) <= MaxLength /\ TuplesLast[term]
    BY <1>1, <2>1, ValueAssumption DEF ValueInv, DataOfTerm, AllTuplesLast
  <2>3. stray \in Nat
    OBVIOUS
  <2>4. parse_typestr(Written[term], Dimensions[term], stray) = Meaning[term][FALSE]
    BY <2>2, <2>3, TermReadBack
  <2> QED BY <2>1, <2>4 DEF ParsesAsWritten
<1>4. ASSUME adiak_clean PROVE ParsesAsWritten'
  BY <1>4 DEF adiak_clean, ParsesAsWritten
<1>5. ASSUME UNCHANGED recordVars PROVE ParsesAsWritten'
  BY <1>1, <1>5 DEF recordVars, ParsesAsWritten
<1>6. (\E g \in Terms : PrepareData(g)) \/ ChangeData \/ FreeData \/ UNCHANGED vars => UNCHANGED recordVars
  BY DEF PrepareData, ChangeData, FreeData, vars
<1> QED BY <1>2, <1>3, <1>4, <1>5, <1>6 DEF Next, ParsedInv

\* The parser builds the datatype that the documentation describes, for any terms,
\* whatever follows the dimensions, as long as tuples come last in tuples: brackets,
\* "&" and arguments are matched at any depth.
THEOREM ParsedAsWritten ==
    ASSUME AllTuplesLast
    PROVE  Spec => []ParsesAsWritten
<1>1. ParsedInv => ParsesAsWritten
  BY DEF ParsedInv
<1> QED BY <1>1, ParsedInvInit, ParsedInvNext, PTL DEF Spec

-----------------------------------------------------------------------------
\* The term that the short string of a datatype is written for: without "&", and
\* scalars with the specifier that stands for their type.
PlainTermFrom(g, plain) ==
    [kind |-> g.kind, spec |-> IF g.kind = "scalar" THEN Simple[base[g.spec].dtype] ELSE "none",
     ref |-> FALSE, n |-> g.n, subs |-> plain]
PlainTerm[g \in AllTerms] == PlainTermFrom(g, [i \in DOMAIN g.subs |-> PlainTerm[g.subs[i]]])

PlainTerms == INSTANCE Nesting WITH
    MaxDepth <- MaxLength, Over <- TermsOver, Parts <- Subterms, Step <- PlainTermFrom
Plains == INSTANCE Nesting WITH
    MaxDepth <- MaxLength, Over <- TypesOver, Parts <- Subtypes, Step <- PlainFrom
Ranges == INSTANCE Nesting WITH
    MaxDepth <- MaxLength, Over <- TypesOver, Parts <- Subtypes, Step <- HasRangeFrom
TypeStrings == INSTANCE Nesting WITH
    MaxDepth <- MaxLength, Over <- TypesOver, Parts <- Subtypes, Step <- StringFrom

LEMMA PlainTermParts ==
    ASSUME NEW g \in AllTerms
    PROVE  PlainTerm[g] = PlainTermFrom(g, [i \in DOMAIN g.subs |-> PlainTerm[g.subs[i]]])
<1>1. PlainTerms!Nested /\ PlainTerms!All = AllTerms
  BY TermsNested DEF PlainTerms!Nested, Strings!Nested, PlainTerms!All, PlainTerms!UpTo, AllTerms, TermsUpTo
<1>2. PlainTerms!Result = PlainTerm
  BY <1>1 DEF PlainTerms!Result, PlainTerms!Computes, PlainTerm, Subterms
<1>3. PlainTerms!Computes(PlainTerm, AllTerms)
  BY <1>1, <1>2, PlainTerms!NestingRecursion
<1> QED BY <1>3 DEF PlainTerms!Computes, Subterms

LEMMA PlainParts ==
    ASSUME NEW t \in Datatypes
    PROVE  Plain[t] = PlainFrom(t, [i \in DOMAIN t.subtype |-> Plain[t.subtype[i]]])
<1>1. Plains!Nested /\ Plains!All = Datatypes
  BY TypesNested DEF Plains!Nested, Types!Nested, Plains!All, Plains!UpTo, Datatypes, TypesUpTo
<1>2. Plains!Result = Plain
  BY <1>1 DEF Plains!Result, Plains!Computes, Plain, Subtypes
<1>3. Plains!Computes(Plain, Datatypes)
  BY <1>1, <1>2, Plains!NestingRecursion
<1> QED BY <1>3 DEF Plains!Computes, Subtypes

LEMMA HasRangeParts ==
    ASSUME NEW t \in Datatypes
    PROVE  HasRange[t] = HasRangeFrom(t, [i \in DOMAIN t.subtype |-> HasRange[t.subtype[i]]])
<1>1. Ranges!Nested /\ Ranges!All = Datatypes
  BY TypesNested DEF Ranges!Nested, Types!Nested, Ranges!All, Ranges!UpTo, Datatypes, TypesUpTo
<1>2. Ranges!Result = HasRange
  BY <1>1 DEF Ranges!Result, Ranges!Computes, HasRange, Subtypes
<1>3. Ranges!Computes(HasRange, Datatypes)
  BY <1>1, <1>2, Ranges!NestingRecursion
<1> QED BY <1>3 DEF Ranges!Computes, Subtypes

LEMMA TypeStringParts ==
    ASSUME NEW t \in Datatypes
    PROVE  adiak_type_to_string[t]
               = StringFrom(t, [i \in DOMAIN t.subtype |-> adiak_type_to_string[t.subtype[i]]])
<1>1. TypeStrings!Nested /\ TypeStrings!All = Datatypes
  BY TypesNested DEF TypeStrings!Nested, Types!Nested, TypeStrings!All, TypeStrings!UpTo, Datatypes, TypesUpTo
<1>2. TypeStrings!Result = adiak_type_to_string
  BY <1>1 DEF TypeStrings!Result, TypeStrings!Computes, adiak_type_to_string, Subtypes
<1>3. TypeStrings!Computes(adiak_type_to_string, Datatypes)
  BY <1>1, <1>2, TypeStrings!NestingRecursion
<1> QED BY <1>3 DEF TypeStrings!Computes, Subtypes

\* Every base type has a specifier that stands for it.
LEMMA SimpleSpecifier ==
    ASSUME NEW spec \in Specifiers
    PROVE  /\ base[spec].dtype \in DOMAIN Simple /\ Simple[base[spec].dtype] \in Specifiers
<1>1. base[spec].dtype \in NumberTypes \cup PointerTypes
  BY BaseFields
<1>3. base[spec].dtype # "unset"
  BY SMTT(30) DEF base, Specifiers, BaseType, Type
<1>2. \A d \in (NumberTypes \cup PointerTypes) \ {"unset"} : d \in DOMAIN Simple /\ Simple[d] \in Specifiers
  BY SMTT(30) DEF NumberTypes, PointerTypes, StringTypes, Simple, Specifiers
<1> QED BY <1>1, <1>2, <1>3

\* Lengths add up.
LEMMA FlattenShorter ==
    ASSUME NEW S, NEW seqs \in Seq(Seq(S)), NEW longer \in Seq(Seq(S)), Len(seqs) = Len(longer),
           \A i \in 1..Len(seqs) : Len(seqs[i]) <= Len(longer[i])
    PROVE  Len(FlattenSeq(seqs)) <= Len(FlattenSeq(longer))
<1> DEFINE n == Len(seqs)
<1>1. n \in Nat
  OBVIOUS
<1>2. PICK at : Placed(FlattenSeq(seqs), at, seqs)
  BY FlattenPlaces
<1>3. PICK behind : Placed(FlattenSeq(longer), behind, longer)
  BY FlattenPlaces
<1> DEFINE K == {i \in 0..n : at[i] <= behind[i]}
<1>4. 0 \in K
  BY <1>1, <1>2, <1>3 DEF Placed
<1>5. ASSUME NEW i \in 1..n, i - 1 \in K PROVE i \in K
  <2>1. /\ at[i] = at[i - 1] + Len(seqs[i]) /\ behind[i] = behind[i - 1] + Len(longer[i])
        /\ at[i - 1] \in Nat /\ behind[i - 1] \in Nat
    <3>1. i \in 1..Len(seqs) /\ i \in 1..Len(longer) /\ i - 1 \in 0..Len(seqs) /\ i - 1 \in 0..Len(longer)
      OBVIOUS
    <3> HIDE DEF n, K
    <3> QED BY <1>2, <1>3, <3>1 DEF Placed
  <2>2. Len(seqs[i]) \in Nat /\ Len(longer[i]) \in Nat /\ Len(seqs[i]) <= Len(longer[i])
    OBVIOUS
  <2>3. at[i - 1] <= behind[i - 1]
    BY <1>5
  <2> DEFINE a == at[i - 1]
             b == behind[i - 1]
             x == Len(seqs[i])
             y == Len(longer[i])
  <2>4. a + x <= b + y
    <3>1. a \in Nat /\ b \in Nat /\ x \in Nat /\ y \in Nat /\ a <= b /\ x <= y
      BY <2>1, <2>2, <2>3
    <3> HIDE DEF a, b, x, y
    <3> QED BY <3>1
  <2> QED BY <2>1, <2>4
<1>6. \A i \in 0..n : i \in K
  <2>1. K \subseteq 0..n
    OBVIOUS
  <2> HIDE DEF K, n
  <2> QED BY <1>1, <1>4, <1>5, <2>1, Induction
<1>7. at[n] <= behind[n]
  BY <1>1, <1>6
<1> QED BY <1>2, <1>3, <1>7 DEF Placed

\* PlainTerm makes terms, with the same dimensions, tuples in the same places, and
\* strings that are not longer.
LEMMA PlainTermFields ==
    ASSUME NEW g \in AllTerms
    PROVE  /\ PlainTerm[g].kind = g.kind /\ PlainTerm[g].n = g.n /\ PlainTerm[g].ref = FALSE
           /\ PlainTerm[g].subs = [i \in DOMAIN g.subs |-> PlainTerm[g.subs[i]]]
           /\ PlainTerm[g].spec = IF g.kind = "scalar" THEN Simple[base[g.spec].dtype] ELSE "none"
<1> DEFINE plain == [i \in DOMAIN g.subs |-> PlainTerm[g.subs[i]]]
           spec == IF g.kind = "scalar" THEN Simple[base[g.spec].dtype] ELSE "none"
<1>1. PlainTerm[g] = PlainTermFrom(g, plain)
  BY PlainTermParts
<1>2. PlainTermFrom(g, plain) = [kind |-> g.kind, spec |-> spec, ref |-> FALSE, n |-> g.n, subs |-> plain]
  BY DEF PlainTermFrom
<1> HIDE DEF plain, spec
<1>3. /\ PlainTerm[g].kind = g.kind /\ PlainTerm[g].n = g.n /\ PlainTerm[g].ref = FALSE
      /\ PlainTerm[g].subs = plain /\ PlainTerm[g].spec = spec
  BY <1>1, <1>2
<1> QED BY <1>3 DEF plain, spec

LEMMA PlainTermType == \A g \in AllTerms : PlainTerm[g] \in AllTerms
<1> DEFINE S == {d \in 0..MaxLength : \A g \in TermsUpTo[d] : PlainTerm[g] \in TermsUpTo[d]}
<1>0. MaxLength \in Nat
  BY LengthAssumption
<1>1. ASSUME NEW d \in 0..MaxLength, d # 0 => d - 1 \in S PROVE d \in S
  <2> DEFINE parts == IF d = 0 THEN {} ELSE TermsUpTo[d - 1]
  <2>1. TermsUpTo[d] = TermsOver(parts) /\ TermsUpTo[d] \subseteq AllTerms
    BY TermLevels
  <2>2. \A g \in parts : PlainTerm[g] \in parts
    BY <1>1
  <2> HIDE DEF parts
  <2>3. ASSUME NEW g \in TermsUpTo[d] PROVE PlainTerm[g] \in TermsUpTo[d]
    <3>1. g \in TermsOver(parts) /\ g \in AllTerms
      BY <2>1
    <3> DEFINE subs == [i \in DOMAIN g.subs |-> PlainTerm[g.subs[i]]]
               spec == IF g.kind = "scalar" THEN Simple[base[g.spec].dtype] ELSE "none"
    <3>2. g.subs \in Seq(parts)
      BY <3>1 DEF TermsOver
    <3>3. subs \in Seq(parts) /\ Len(subs) = Len(g.subs)
      <4>1. DOMAIN g.subs = 1..Len(g.subs) /\ Len(g.subs) \in Nat
        BY <3>2
      <4>2. \A i \in 1..Len(g.subs) : PlainTerm[g.subs[i]] \in parts
        BY <2>2, <3>2
      <4> QED BY <4>1, <4>2
    <3>4. spec \in Specifiers \cup {"none"} /\ (g.kind = "scalar" => spec # "none")
      <4>1. CASE g.kind = "scalar"
        <5>1. spec \in Specifiers
          BY <3>1, <4>1, TermFields, SimpleSpecifier
        <5>2. "none" \notin Specifiers
          BY DEF Specifiers
        <5> HIDE DEF spec
        <5> QED BY <5>1, <5>2
      <4> QED BY <4>1
    <3>5. PlainTerm[g] = [kind |-> g.kind, spec |-> spec, ref |-> FALSE, n |-> g.n, subs |-> subs]
      BY <3>1, PlainTermParts DEF PlainTermFrom
    <3>6. g.kind = "scalar" => subs = << >>
      BY <3>1, TermFields
    <3>7. /\ g.kind \in ContainerTypes \cup {"scalar"} /\ g.n \in Nat
          /\ g.kind \in {"list", "set", "range"} => Len(g.subs) = 1
          /\ g.kind = "range" => g.n = 2
          /\ g.kind = "tuple" => Len(g.subs) = g.n
      BY <3>1, TermFields
    <3> HIDE DEF subs, spec
    <3>8. PlainTerm[g] \in TermsOver(parts)
      BY <3>3, <3>4, <3>5, <3>6, <3>7 DEF TermsOver
    <3> QED BY <2>1, <3>8
  <2> QED BY <2>3
<1>2. MaxLength \in S
  <2>1. S \subseteq 0..MaxLength
    OBVIOUS
  <2> HIDE DEF S
  <2>2. 0 \in S /\ \A d \in 1..MaxLength : d - 1 \in S => d \in S
    BY <1>0, <1>1
  <2>3. \A d \in 0..MaxLength : d \in S
    BY <1>0, <2>1, <2>2, Induction
  <2> QED BY <2>3, <1>0
<1> QED BY <1>2 DEF AllTerms

LEMMA PlainDimensions == \A g \in AllTerms : Dimensions[PlainTerm[g]] = Dimensions[g]
<1> DEFINE S == {g \in AllTerms : Dimensions[PlainTerm[g]] = Dimensions[g]}
<1>1. ASSUME NEW g \in AllTerms, \A i \in DOMAIN g.subs : g.subs[i] \in S PROVE g \in S
  <2> DEFINE h == PlainTerm[g]
  <2>1. h \in AllTerms
    BY PlainTermType
  <2>2. h.kind = g.kind /\ h.n = g.n /\ h.subs = [i \in DOMAIN g.subs |-> PlainTerm[g.subs[i]]]
    BY PlainTermFields
  <2>3. \A i \in DOMAIN g.subs : Dimensions[PlainTerm[g.subs[i]]] = Dimensions[g.subs[i]]
    BY <1>1
  <2> HIDE DEF h
  <2>4. [i \in DOMAIN h.subs |-> Dimensions[h.subs[i]]] = [i \in DOMAIN g.subs |-> Dimensions[g.subs[i]]]
    BY <2>2, <2>3
  <2> DEFINE dimensions == [i \in DOMAIN g.subs |-> Dimensions[g.subs[i]]]
  <2>6. Dimensions[h] = DimensionsFrom(h, dimensions) /\ Dimensions[g] = DimensionsFrom(g, dimensions)
    BY <2>1, <2>4, DimensionsParts
  <2> HIDE DEF dimensions
  <2>5. Dimensions[h] = Dimensions[g]
    BY <2>2, <2>6 DEF DimensionsFrom
  <2> QED BY <2>5 DEF h
<1>2. AllTerms \subseteq S
  <2> HIDE DEF S
  <2> QED BY <1>1, TermInduction
<1> QED BY <1>2

LEMMA PlainTuplesLast == \A g \in AllTerms : TuplesLast[PlainTerm[g]] = TuplesLast[g]
<1> DEFINE S == {g \in AllTerms : TuplesLast[PlainTerm[g]] = TuplesLast[g]}
<1>1. ASSUME NEW g \in AllTerms, \A i \in DOMAIN g.subs : g.subs[i] \in S PROVE g \in S
  <2> DEFINE h == PlainTerm[g]
             last == [i \in DOMAIN g.subs |-> TuplesLast[g.subs[i]]]
  <2>1. h \in AllTerms
    BY PlainTermType
  <2>2. h.kind = g.kind /\ h.n = g.n /\ h.subs = [i \in DOMAIN g.subs |-> PlainTerm[g.subs[i]]]
    BY PlainTermFields
  <2>3. \A i \in DOMAIN g.subs : TuplesLast[PlainTerm[g.subs[i]]] = TuplesLast[g.subs[i]]
    BY <1>1
  <2>4. \A i \in DOMAIN g.subs : PlainTerm[g.subs[i]].kind = g.subs[i].kind
    BY <1>1, PlainTermFields
  <2> HIDE DEF h
  <2>5. [i \in DOMAIN h.subs |-> TuplesLast[h.subs[i]]] = last
    BY <2>2, <2>3
  <2>6. g.kind = "tuple" => \A i \in 1..(g.n - 1) : h.subs[i].kind = g.subs[i].kind
    <3> SUFFICES ASSUME g.kind = "tuple", NEW i \in 1..(g.n - 1) PROVE h.subs[i].kind = g.subs[i].kind
      OBVIOUS
    <3>1. DOMAIN g.subs = 1..g.n /\ g.n \in Nat
      BY TermFields
    <3>2. i \in DOMAIN g.subs
      BY <3>1
    <3> QED BY <2>2, <2>4, <3>2
  <2>7. TuplesLast[h] = TuplesLastFrom(h, last) /\ TuplesLast[g] = TuplesLastFrom(g, last)
    BY <2>1, <2>5, TuplesLastParts
  <2> HIDE DEF last
  <2>8. TuplesLastFrom(h, last) = TuplesLastFrom(g, last)
    BY <2>2, <2>6 DEF TuplesLastFrom
  <2> QED BY <2>7, <2>8 DEF h
<1>2. AllTerms \subseteq S
  <2> HIDE DEF S
  <2> QED BY <1>1, TermInduction
<1> QED BY <1>2

\* Without "&" a string is not longer.
LEMMA PlainShorter == \A g \in AllTerms : Len(Written[PlainTerm[g]]) <= Len(Written[g])
<1> DEFINE S == {g \in AllTerms : Len(Written[PlainTerm[g]]) <= Len(Written[g])}
<1>1. ASSUME NEW g \in AllTerms, \A i \in DOMAIN g.subs : g.subs[i] \in S PROVE g \in S
  <2> DEFINE h == PlainTerm[g]
             n == Len(g.subs)
  <2>1. h \in AllTerms
    BY PlainTermType
  <2>2. h.kind = g.kind /\ h.ref = FALSE /\ h.subs = [i \in DOMAIN g.subs |-> PlainTerm[g.subs[i]]]
    BY PlainTermFields
  <2>3. \A i \in DOMAIN g.subs : Len(Written[PlainTerm[g.subs[i]]]) <= Len(Written[g.subs[i]])
    BY <1>1
  <2> HIDE DEF h
  <2>4. /\ Core(h) \in Seq(Tokens) /\ Core(g) \in Seq(Tokens) /\ Written[h] = Core(h)
        /\ g.ref => Written[g] = <<"&">> \o Core(g)
        /\ ~g.ref => Written[g] = Core(g)
    BY <2>1, <2>2, WrittenCore
  <2>5. Len(Core(h)) <= Len(Core(g))
    <3>1. CASE g.kind = "scalar"
      BY <2>2, <3>1 DEF Core
    <3>2. CASE g.kind # "scalar"
      <4> DEFINE short == StringsOf(h)
                 long == StringsOf(g)
      <4>1. /\ short \in Seq(Seq(Tokens)) /\ Len(short) = Len(h.subs)
            /\ long \in Seq(Seq(Tokens)) /\ Len(long) = n /\ n \in Nat /\ DOMAIN g.subs = 1..n
            /\ \A i \in 1..Len(h.subs) : short[i] = Written[h.subs[i]]
            /\ \A i \in 1..n : long[i] = Written[g.subs[i]]
            /\ Listed(short) \in Seq(Tokens) /\ Listed(long) \in Seq(Tokens)
        BY <2>1, StringsOfType
      <4>2. Len(h.subs) = n
        BY <2>2, <4>1
      <4> HIDE DEF short, long, n
      <4>9. Len(short) = n
        BY <4>1, <4>2
      <4>3. \A i \in 1..n : Len(short[i]) <= Len(long[i])
        <5> SUFFICES ASSUME NEW i \in 1..n PROVE Len(short[i]) <= Len(long[i])
          OBVIOUS
        <5>1. short[i] = Written[h.subs[i]] /\ long[i] = Written[g.subs[i]] /\ i \in DOMAIN g.subs
          BY <4>1, <4>2
        <5>2. h.subs[i] = PlainTerm[g.subs[i]]
          BY <2>2, <5>1
        <5> QED BY <2>3, <5>1, <5>2
      <4>4. Len(Listed(short)) <= Len(Listed(long))
        <5>1. /\ Spaced(short) \in Seq(Seq(Tokens)) /\ Len(Spaced(short)) = n /\ Listed(short) = FlattenSeq(Spaced(short))
              /\ \A i \in 1..n : Spaced(short)[i] = IF i = 1 THEN short[i] ELSE <<",", " ">> \o short[i]
          <6>1. short \in Seq(Seq(Tokens))
            BY <4>1
          <6> QED BY <4>9, <6>1, SpacedStrings
        <5>2. /\ Spaced(long) \in Seq(Seq(Tokens)) /\ Len(Spaced(long)) = n /\ Listed(long) = FlattenSeq(Spaced(long))
              /\ \A i \in 1..n : Spaced(long)[i] = IF i = 1 THEN long[i] ELSE <<",", " ">> \o long[i]
          BY <4>1, SpacedStrings
        <5>3. <<",", " ">> \in Seq(Tokens)
          BY <4>1, SpacedStrings
        <5> DEFINE separator == <<",", " ">>
        <5>4. /\ separator \in Seq(Tokens)
              /\ \A i \in 1..n : Spaced(short)[i] = IF i = 1 THEN short[i] ELSE separator \o short[i]
              /\ \A i \in 1..n : Spaced(long)[i] = IF i = 1 THEN long[i] ELSE separator \o long[i]
          BY <5>1, <5>2, <5>3
        <5> HIDE DEF separator
        <5>5. \A i \in 1..n : Len(Spaced(short)[i]) <= Len(Spaced(long)[i])
          <6> SUFFICES ASSUME NEW i \in 1..n PROVE Len(Spaced(short)[i]) <= Len(Spaced(long)[i])
            OBVIOUS
          <6>1. short[i] \in Seq(Tokens) /\ long[i] \in Seq(Tokens) /\ Len(short[i]) <= Len(long[i])
            BY <4>1, <4>2, <4>3
          <6>2. CASE i = 1
            BY <5>4, <6>1, <6>2
          <6>3. CASE i # 1
            <7> DEFINE a == short[i]
                       b == long[i]
            <7>1. Spaced(short)[i] = separator \o a /\ Spaced(long)[i] = separator \o b
              BY <5>4, <6>3
            <7>2. a \in Seq(Tokens) /\ b \in Seq(Tokens) /\ Len(a) <= Len(b)
              BY <6>1
            <7> HIDE DEF a, b
            <7>3. Len(separator \o a) <= Len(separator \o b)
              BY <5>4, <7>2
            <7> QED BY <7>1, <7>3
          <6> QED BY <6>2, <6>3
        <5>6. Len(FlattenSeq(Spaced(short))) <= Len(FlattenSeq(Spaced(long)))
          BY <5>1, <5>2, <5>5, FlattenShorter
        <5> QED BY <5>1, <5>2, <5>6
      <4>5. Bracket(g.kind) \in DOMAIN Opening
        BY <3>2, TermFields, BracketKind
      <4>6. Core(h) = Enclosed(Bracket(g.kind), Listed(short)) /\ Core(g) = Enclosed(Bracket(g.kind), Listed(long))
        BY <2>2, <3>2 DEF Core, short, long
      <4>7. /\ Len(Core(h)) = Len(Listed(short)) + 2
            /\ Len(Core(g)) = Len(Listed(long)) + 2
        BY <4>1, <4>5, <4>6, EnclosedLength
      <4>8. Len(Listed(short)) \in Nat /\ Len(Listed(long)) \in Nat
        BY <4>1
      <4> QED BY <4>4, <4>7, <4>8
    <3> QED BY <3>1, <3>2
  <2>6. Len(Core(g)) <= Len(Written[g])
    <3> DEFINE core == Core(g)
    <3>1. core \in Seq(Tokens) /\ (Written[g] = <<"&">> \o core \/ Written[g] = core)
      BY <2>4, TermFields
    <3> HIDE DEF core
    <3>2. Len(<<"&">> \o core) = 1 + Len(core)
      BY <3>1
    <3>3. Len(core) \in Nat
      BY <3>1
    <3> QED BY <3>1, <3>2, <3>3 DEF core
  <2>7. Len(Core(h)) \in Nat /\ Len(Core(g)) \in Nat /\ Len(Written[g]) \in Nat
    BY <2>4, WrittenType
  <2>8. Len(Written[h]) <= Len(Written[g])
    BY <2>4, <2>5, <2>6, <2>7
  <2> QED BY <2>8 DEF h
<1>2. AllTerms \subseteq S
  <2> HIDE DEF S
  <2> QED BY <1>1, TermInduction
<1> QED BY <1>2

\* The brackets that are printed are those that are written.
LEMMA BracketPrinted ==
    ASSUME NEW kind \in {"set", "list", "tuple"}
    PROVE  /\ LeftBracket[kind] = <<Bracket(kind)>>
           /\ RightBracket[kind] = <<Closing[Bracket(kind)]>>
<1>1. Bracket(kind) \in DOMAIN Opening /\ Opening[Bracket(kind)] = kind
  BY BracketKind DEF ContainerTypes
<1>2. Bracket(kind) = CASE kind = "set" -> "[" [] kind = "list" -> "{" [] kind = "tuple" -> "("
  <2> DEFINE b == Bracket(kind)
  <2>1. b \in {"[", "{", "<", "("} /\ Opening[b] = kind
    BY <1>1 DEF Opening
  <2> HIDE DEF b
  <2>2. b = CASE kind = "set" -> "[" [] kind = "list" -> "{" [] kind = "tuple" -> "("
    BY <2>1 DEF Opening
  <2> QED BY <2>2 DEF b
<1>3. CASE kind = "set"
  <2>1. Bracket(kind) = "[" /\ Closing["["] = "]"
    BY <1>2, <1>3 DEF Closing
  <2> QED BY <1>3, <2>1 DEF LeftBracket, RightBracket
<1>4. CASE kind = "list"
  <2>1. Bracket(kind) = "{" /\ Closing["{"] = "}"
    BY <1>2, <1>4 DEF Closing
  <2> QED BY <1>4, <2>1 DEF LeftBracket, RightBracket
<1>5. CASE kind = "tuple"
  <2>1. Bracket(kind) = "(" /\ Closing["("] = ")"
    BY <1>2, <1>5 DEF Closing
  <2> QED BY <1>5, <2>1 DEF LeftBracket, RightBracket
<1> QED BY <1>3, <1>4, <1>5

\* What is printed for the datatype of a term, and what that describes.
Printed(g, t) ==
    /\ adiak_type_to_string[t] = Written[PlainTerm[g]]
    /\ Plain[t] = Meaning[PlainTerm[g]][FALSE]
PrintedFor(g) == \A r \in BOOLEAN : ~HasRange[Meaning[g][r]] => Printed(g, Meaning[g][r])

LEMMA ScalarPrinted ==
    ASSUME NEW g \in AllTerms, g.kind = "scalar", NEW r \in BOOLEAN
    PROVE  Printed(g, Meaning[g][r])
<1> DEFINE t == Meaning[g][r]
           h == PlainTerm[g]
           name == base[g.spec].dtype
           bytes == base[g.spec].num_bytes
           simple == Simple[name]
<1>1. h \in AllTerms /\ h.kind = "scalar" /\ h.ref = FALSE /\ h.spec = simple
  BY PlainTermType, PlainTermFields
<1>2. t \in Datatypes
  BY MeaningType
<1>3. g.spec \in Specifiers /\ simple \in Specifiers /\ name \in DOMAIN Simple
  BY TermFields, SimpleSpecifier
<1>4. t = base_ref(g.spec, r \/ g.ref)
  BY MeaningOf
<1>5. base[g.spec] = BaseType(name, bytes)
  BY <1>3, BaseFields
<1> HIDE DEF t, h, name, bytes
<1>6. t.dtype = name
  BY <1>4, <1>5 DEF base_ref, BaseType, Type
<1> DEFINE strings == [i \in DOMAIN t.subtype |-> adiak_type_to_string[t.subtype[i]]]
           plains == [i \in DOMAIN t.subtype |-> Plain[t.subtype[i]]]
<1>7. adiak_type_to_string[t] = StringFrom(t, strings) /\ Plain[t] = PlainFrom(t, plains)
  BY <1>2, TypeStringParts, PlainParts
<1> HIDE DEF strings, plains
<1>8. adiak_type_to_string[t] = <<simple>> /\ Plain[t] = base[simple]
  BY <1>3, <1>6, <1>7 DEF StringFrom, PlainFrom
<1>9. Written[h] = <<simple>>
  <2>1. Written[h] = Core(h)
    BY <1>1, WrittenCore
  <2> QED BY <1>1, <2>1 DEF Core
<1>10. Meaning[h][FALSE] = base[simple]
  <2>1. Meaning[h][FALSE] = base_ref(simple, FALSE \/ h.ref)
    BY <1>1, MeaningOf
  <2> DEFINE ref == FALSE \/ h.ref
             plain == base[simple].dtype
             size == base[simple].num_bytes
  <2>2. base[simple] = BaseType(plain, size)
    BY <1>3, BaseFields
  <2>3. ref = FALSE
    BY <1>1
  <2> HIDE DEF plain, size, simple, ref
  <2>4. base_ref(simple, ref) = Type(plain, size, ref /\ plain \in StringTypes, 0, 0, << >>)
    BY <2>2 DEF base_ref, BaseType, Type
  <2>6. (ref /\ plain \in StringTypes) = FALSE
    BY <2>3
  <2>5. base_ref(simple, ref) = base[simple]
    BY <2>2, <2>4, <2>6 DEF BaseType
  <2> QED BY <2>1, <2>5 DEF ref
<1> QED BY <1>8, <1>9, <1>10 DEF Printed, t, h

LEMMA ContainerPrinted ==
    ASSUME NEW g \in AllTerms, g.kind # "scalar", \A i \in DOMAIN g.subs : PrintedFor(g.subs[i]),
           NEW r \in BOOLEAN, ~HasRange[Meaning[g][r]]
    PROVE  Printed(g, Meaning[g][r])
<1> DEFINE t == Meaning[g][r]
           h == PlainTerm[g]
           ref == r \/ g.ref
           meant == [i \in DOMAIN g.subs |-> Meaning[g.subs[i]][ref]]
<1>1. h \in AllTerms /\ h.kind = g.kind /\ h.ref = FALSE /\ h.n = g.n
  BY PlainTermType, PlainTermFields
<1>2. h.subs = [i \in DOMAIN g.subs |-> PlainTerm[g.subs[i]]]
  BY PlainTermFields
<1>3. t \in Datatypes
  BY MeaningType
<1>4. ref \in BOOLEAN /\ g.kind \in ContainerTypes /\ g.n \in Nat /\ \A i \in DOMAIN g.subs : g.subs[i] \in AllTerms
  BY TermFields
<1>5. t = ContainerType(g.kind, ref, g.n, meant)
  BY MeaningOf
<1> DEFINE strings == [i \in DOMAIN t.subtype |-> adiak_type_to_string[t.subtype[i]]]
           plains == [i \in DOMAIN t.subtype |-> Plain[t.subtype[i]]]
           ranges == [i \in DOMAIN t.subtype |-> HasRange[t.subtype[i]]]
<1>6. adiak_type_to_string[t] = StringFrom(t, strings) /\ Plain[t] = PlainFrom(t, plains)
  BY <1>3, TypeStringParts, PlainParts
<1>7. ~HasRangeFrom(t, ranges)
  BY <1>3, HasRangeParts
<1>8. t.dtype = g.kind /\ t.subtype = meant /\ Count(t) = g.n
  <2> HIDE DEF t, meant, ref
  <2>1. ref = TRUE \/ ref = FALSE
    BY <1>4
  <2> QED BY <1>4, <1>5, <2>1 DEF ContainerType, Type, Count
<1>9. g.kind # "range"
  <2> HIDE DEF t, ranges
  <2> QED BY <1>7, <1>8 DEF HasRangeFrom
<1>10. ASSUME NEW i \in DOMAIN g.subs PROVE Printed(g.subs[i], meant[i])
  <2>1. meant[i] = Meaning[g.subs[i]][ref] /\ i \in DOMAIN t.subtype /\ t.subtype[i] = meant[i]
    BY <1>8
  <2>2. HasRange[meant[i]] # TRUE
    <3>1. ranges[i] = HasRange[meant[i]] /\ i \in DOMAIN ranges
      BY <2>1
    <3> HIDE DEF t, ranges, meant
    <3> QED BY <1>7, <3>1 DEF HasRangeFrom, Range
  <2>3. HasRange[meant[i]] \in BOOLEAN
    <3>1. meant[i] \in Datatypes
      BY <1>4, <2>1, MeaningType
    <3> HIDE DEF meant
    <3>2. \A x, q : HasRangeFrom(x, q) \in BOOLEAN
      BY DEF HasRangeFrom
    <3> QED BY <3>1, <3>2, HasRangeParts
  <2>4. PrintedFor(g.subs[i])
    OBVIOUS
  <2>5. ~HasRange[Meaning[g.subs[i]][ref]]
    BY <2>1, <2>2, <2>3
  <2> HIDE DEF meant, ref
  <2> QED BY <1>4, <2>1, <2>4, <2>5 DEF PrintedFor
<1>11. DOMAIN meant = DOMAIN g.subs /\ DOMAIN h.subs = DOMAIN g.subs
  BY <1>2
<1>12. \A i \in DOMAIN g.subs : h.subs[i] = PlainTerm[g.subs[i]]
  BY <1>2
<1> HIDE DEF t, h, ref, meant
<1>18. DOMAIN t.subtype = DOMAIN h.subs
  BY <1>8, <1>11
<1>19. ASSUME NEW i \in DOMAIN h.subs
       PROVE  /\ adiak_type_to_string[t.subtype[i]] = Written[h.subs[i]]
              /\ Plain[t.subtype[i]] = Meaning[h.subs[i]][FALSE]
  <2>1. i \in DOMAIN g.subs /\ t.subtype[i] = meant[i] /\ h.subs[i] = PlainTerm[g.subs[i]]
    BY <1>8, <1>11, <1>12
  <2>2. Printed(g.subs[i], meant[i])
    BY <1>10, <2>1
  <2> QED BY <2>1, <2>2 DEF Printed
<1>13. strings = StringsOf(h)
  BY <1>18, <1>19 DEF StringsOf
<1>14. plains = [i \in DOMAIN h.subs |-> Meaning[h.subs[i]][FALSE]]
  BY <1>18, <1>19
<1> HIDE DEF strings, plains, ranges
<1>15. g.kind \in {"set", "list", "tuple"} /\ g.kind \notin DOMAIN Simple
  BY <1>4, <1>9 DEF ContainerTypes, Simple
<1>16. adiak_type_to_string[t] = Written[h]
  <2>1. adiak_type_to_string[t] = LeftBracket[g.kind] \o Listed(strings) \o RightBracket[g.kind]
    BY <1>6, <1>8, <1>15 DEF StringFrom
  <2>2. Written[h] = Enclosed(Bracket(g.kind), Listed(strings))
    <3>1. Written[h] = Core(h)
      BY <1>1, WrittenCore
    <3>2. h.kind # "scalar"
      BY <1>1
    <3> QED BY <1>1, <1>13, <3>1, <3>2 DEF Core
  <2>3. LeftBracket[g.kind] = <<Bracket(g.kind)>> /\ RightBracket[g.kind] = <<Closing[Bracket(g.kind)]>>
    BY <1>15, BracketPrinted
  <2> QED BY <2>1, <2>2, <2>3 DEF Enclosed
<1>17. Plain[t] = Meaning[h][FALSE]
  <2>1. Plain[t] = ContainerType(g.kind, FALSE, g.n, plains)
    BY <1>6, <1>8, <1>15 DEF PlainFrom
  <2>2. Meaning[h][FALSE] = ContainerType(h.kind, FALSE \/ h.ref, h.n, [i \in DOMAIN h.subs |-> Meaning[h.subs[i]][FALSE \/ h.ref]])
    BY <1>1, MeaningOf
  <2>3. (FALSE \/ h.ref) = FALSE
    BY <1>1
  <2> QED BY <1>1, <1>14, <2>1, <2>2, <2>3
<1> QED BY <1>16, <1>17 DEF Printed, t, h

\* The short string that adiak_type_to_string prints for the datatype of a term
\* without ranges, parsed with the term's dimensions, gives that datatype back as far
\* as the string tells: without references, and with one type for all numbers of a
\* kind.
THEOREM StringReadBack ==
    ASSUME NEW g \in AllTerms, TuplesLast[g], Len(Written[g]) <= MaxLength,
           NEW r \in BOOLEAN, ~HasRange[Meaning[g][r]]
    PROVE  parse_typestr(adiak_type_to_string[Meaning[g][r]], Dimensions[g], 0) = Plain[Meaning[g][r]]
<1> DEFINE S == {u \in AllTerms : PrintedFor(u)}
<1>1. ASSUME NEW u \in AllTerms, \A i \in DOMAIN u.subs : u.subs[i] \in S PROVE u \in S
  <2>1. \A i \in DOMAIN u.subs : PrintedFor(u.subs[i])
    BY <1>1
  <2>2. ASSUME NEW q \in BOOLEAN, ~HasRange[Meaning[u][q]] PROVE Printed(u, Meaning[u][q])
    BY <2>1, <2>2, ScalarPrinted, ContainerPrinted
  <2> QED BY <2>2 DEF PrintedFor
<1>2. AllTerms \subseteq S
  <2> HIDE DEF S
  <2> QED BY <1>1, TermInduction
<1>3. Printed(g, Meaning[g][r])
  BY <1>2 DEF PrintedFor
<1> DEFINE h == PlainTerm[g]
<1>4. h \in AllTerms /\ TuplesLast[h] /\ Dimensions[h] = Dimensions[g]
  BY PlainTermType, PlainTuplesLast, PlainDimensions
<1>5. Len(Written[h]) <= MaxLength
  <2>1. Len(Written[h]) <= Len(Written[g])
    BY PlainShorter
  <2>2. Len(Written[h]) \in Nat /\ Len(Written[g]) \in Nat /\ MaxLength \in Nat
    BY <1>4, WrittenType, LengthAssumption
  <2> HIDE DEF h
  <2> QED BY <2>1, <2>2
<1>6. parse_typestr(Written[h], Dimensions[h], 0) = Meaning[h][FALSE]
  <2>1. 0 \in Nat
    OBVIOUS
  <2> HIDE DEF h
  <2> QED BY <1>4, <1>5, <2>1, TermReadBack
<1> QED BY <1>3, <1>4, <1>6 DEF Printed

-----------------------------------------------------------------------------
\* Strings in the record.
LEMMA ParsedStrings == AllTuplesLast /\ ParsedInv => StringParsesBack
<1> SUFFICES ASSUME AllTuplesLast, ParsedInv, dtype # NullType, ~HasRange[dtype]
             PROVE  parse_typestr(adiak_type_to_string[dtype], Dimensions[of], 0) = Plain[dtype]
  BY DEF StringParsesBack
<1>1. of \in Terms /\ of \in AllTerms /\ Len(Written[of]) <= MaxLength /\ TuplesLast[of]
  BY ValueAssumption DEF ParsedInv, ValueInv, RecordOK, AllTuplesLast
<1> DEFINE no == FALSE
<1>2. no \in BOOLEAN /\ dtype = Meaning[of][no]
  BY DEF ParsedInv, ParsesAsWritten
<1> HIDE DEF no
<1>3. ~HasRange[Meaning[of][no]]
  BY <1>2
<1>4. parse_typestr(adiak_type_to_string[Meaning[of][no]], Dimensions[of], 0) = Plain[Meaning[of][no]]
  BY <1>1, <1>2, <1>3, StringReadBack
<1> QED BY <1>2, <1>4

\* The string that a tool prints for the type of a record describes that type.
THEOREM StringsParse ==
    ASSUME AllTuplesLast
    PROVE  Spec => []StringParsesBack
<1>1. ParsedInv => StringParsesBack
  BY ParsedStrings
<1> QED BY <1>1, ParsedInvInit, ParsedInvNext, PTL DEF Spec

-----------------------------------------------------------------------------
\* Where the elements of a container begin in memory, as the code has it: element i + 1
\* at Begins(t)[i].
BeginsOf(begins, t) ==
    begins = [i \in 0..Count(t) |-> IF i = 0 THEN 0 ELSE begins[i - 1] + calc_size[Element(t, i)]]
Begins(t) == CHOOSE begins : BeginsOf(begins, t)

\* The data of a value: their address, their path in the object registered, and the
\* versions of the object and of what its pointers lead to.
Data(at, path, version, leads) == [at |-> at, path |-> path, version |-> version, leads |-> leads]
AllData == [at : Nat, path : Seq(Nat), version : Nat, leads : Nat]
DataPart(t, data, i) ==
    Data(data.at + Begins(t)[i - 1], Append(data.path, i), data.version, data.leads)

\* The value that a record keeps for data of type t: what was copied is in the value,
\* of what is referenced only the address is.
KeptFrom(t, kept) ==
    [data \in AllData |->
        IF t.dtype \in PointerTypes THEN Value(0, data.path, 0, ~t.is_reference, data.leads, << >>)
        ELSE IF t.dtype \notin ContainerTypes
        THEN Value(Field(t), data.path, 0, FALSE, data.version, << >>)
        ELSE IF t.is_reference THEN Reference(data.at)
        ELSE Array([i \in 1..t.num_elements |-> kept[Index(t, i)][DataPart(t, data, i)]])]
Kept[t \in Datatypes] == KeptFrom(t, [i \in DOMAIN t.subtype |-> Kept[t.subtype[i]]])

\* What is computed for a datatype from what is computed for its subtypes.
CellBlocks == INSTANCE Nesting WITH
    MaxDepth <- MaxLength, Over <- TypesOver, Parts <- Subtypes, Step <- CellsFrom
CSizes == INSTANCE Nesting WITH
    MaxDepth <- MaxLength, Over <- TypesOver, Parts <- Subtypes, Step <- CSizeFrom
Gaps == INSTANCE Nesting WITH
    MaxDepth <- MaxLength, Over <- TypesOver, Parts <- Subtypes, Step <- GaplessFrom
Readings == INSTANCE Nesting WITH
    MaxDepth <- MaxLength, Over <- TypesOver, Parts <- Subtypes, Step <- SeenFrom
Promises == INSTANCE Nesting WITH
    MaxDepth <- MaxLength, Over <- TypesOver, Parts <- Subtypes, Step <- PromisedFrom
Referring == INSTANCE Nesting WITH
    MaxDepth <- MaxLength, Over <- TypesOver, Parts <- Subtypes, Step <- ReferencesFrom
Keeping == INSTANCE Nesting WITH
    MaxDepth <- MaxLength, Over <- TypesOver, Parts <- Subtypes, Step <- KeptFrom

LEMMA CellsParts ==
    ASSUME NEW t \in Datatypes
    PROVE  CellsOf[t] = CellsFrom(t, [i \in DOMAIN t.subtype |-> CellsOf[t.subtype[i]]])
<1>1. CellBlocks!Nested /\ CellBlocks!All = Datatypes
  BY TypesNested DEF CellBlocks!Nested, Types!Nested, CellBlocks!All, CellBlocks!UpTo, Datatypes, TypesUpTo
<1>2. CellBlocks!Result = CellsOf
  BY <1>1 DEF CellBlocks!Result, CellBlocks!Computes, CellsOf, Subtypes
<1>3. CellBlocks!Computes(CellsOf, Datatypes)
  BY <1>1, <1>2, CellBlocks!NestingRecursion
<1> QED BY <1>3 DEF CellBlocks!Computes, Subtypes

LEMMA CSizeParts ==
    ASSUME NEW t \in Datatypes
    PROVE  CSize[t] = CSizeFrom(t, [i \in DOMAIN t.subtype |-> CSize[t.subtype[i]]])
<1>1. CSizes!Nested /\ CSizes!All = Datatypes
  BY TypesNested DEF CSizes!Nested, Types!Nested, CSizes!All, CSizes!UpTo, Datatypes, TypesUpTo
<1>2. CSizes!Result = CSize
  BY <1>1 DEF CSizes!Result, CSizes!Computes, CSize, Subtypes
<1>3. CSizes!Computes(CSize, Datatypes)
  BY <1>1, <1>2, CSizes!NestingRecursion
<1> QED BY <1>3 DEF CSizes!Computes, Subtypes

LEMMA GaplessParts ==
    ASSUME NEW t \in Datatypes
    PROVE  Gapless[t] = GaplessFrom(t, [i \in DOMAIN t.subtype |-> Gapless[t.subtype[i]]])
<1>1. Gaps!Nested /\ Gaps!All = Datatypes
  BY TypesNested DEF Gaps!Nested, Types!Nested, Gaps!All, Gaps!UpTo, Datatypes, TypesUpTo
<1>2. Gaps!Result = Gapless
  BY <1>1 DEF Gaps!Result, Gaps!Computes, Gapless, Subtypes
<1>3. Gaps!Computes(Gapless, Datatypes)
  BY <1>1, <1>2, Gaps!NestingRecursion
<1> QED BY <1>3 DEF Gaps!Computes, Subtypes

LEMMA SeenParts ==
    ASSUME NEW t \in Datatypes
    PROVE  Seen[t] = SeenFrom(t, [i \in DOMAIN t.subtype |-> Seen[t.subtype[i]]])
<1>1. Readings!Nested /\ Readings!All = Datatypes
  BY TypesNested DEF Readings!Nested, Types!Nested, Readings!All, Readings!UpTo, Datatypes, TypesUpTo
<1>2. Readings!Result = Seen
  BY <1>1 DEF Readings!Result, Readings!Computes, Seen, Subtypes
<1>3. Readings!Computes(Seen, Datatypes)
  BY <1>1, <1>2, Readings!NestingRecursion
<1> QED BY <1>3 DEF Readings!Computes, Subtypes

LEMMA PromisedParts ==
    ASSUME NEW t \in Datatypes
    PROVE  Promised[t] = PromisedFrom(t, [i \in DOMAIN t.subtype |-> Promised[t.subtype[i]]])
<1>1. Promises!Nested /\ Promises!All = Datatypes
  BY TypesNested DEF Promises!Nested, Types!Nested, Promises!All, Promises!UpTo, Datatypes, TypesUpTo
<1>2. Promises!Result = Promised
  BY <1>1 DEF Promises!Result, Promises!Computes, Promised, Subtypes
<1>3. Promises!Computes(Promised, Datatypes)
  BY <1>1, <1>2, Promises!NestingRecursion
<1> QED BY <1>3 DEF Promises!Computes, Subtypes

LEMMA ReferencesParts ==
    ASSUME NEW t \in Datatypes
    PROVE  References[t] = ReferencesFrom(t, [i \in DOMAIN t.subtype |-> References[t.subtype[i]]])
<1>1. Referring!Nested /\ Referring!All = Datatypes
  BY TypesNested DEF Referring!Nested, Types!Nested, Referring!All, Referring!UpTo, Datatypes, TypesUpTo
<1>2. Referring!Result = References
  BY <1>1 DEF Referring!Result, Referring!Computes, References, Subtypes
<1>3. Referring!Computes(References, Datatypes)
  BY <1>1, <1>2, Referring!NestingRecursion
<1> QED BY <1>3 DEF Referring!Computes, Subtypes

LEMMA KeptParts ==
    ASSUME NEW t \in Datatypes
    PROVE  Kept[t] = KeptFrom(t, [i \in DOMAIN t.subtype |-> Kept[t.subtype[i]]])
<1>1. Keeping!Nested /\ Keeping!All = Datatypes
  BY TypesNested DEF Keeping!Nested, Types!Nested, Keeping!All, Keeping!UpTo, Datatypes, TypesUpTo
<1>2. Keeping!Result = Kept
  BY <1>1 DEF Keeping!Result, Keeping!Computes, Kept, Subtypes
<1>3. Keeping!Computes(Kept, Datatypes)
  BY <1>1, <1>2, Keeping!NestingRecursion
<1> QED BY <1>3 DEF Keeping!Computes, Subtypes

-----------------------------------------------------------------------------
\* The datatypes that terms mean: scalars have sizes, pointers are 8 bytes long, and
\* what is in a reference is one, unless it is a number or a timeval.
Meant == {Meaning[g][r] : g \in AllTerms, r \in BOOLEAN}

LEMMA MeantFields ==
    ASSUME NEW t \in Meant
    PROVE  /\ t \in Datatypes
           /\ t.dtype \notin ContainerTypes =>
                 /\ t.num_bytes \in 1..8 /\ t.subtype = << >>
                 /\ t.dtype \notin PointerTypes => ~t.is_reference
           /\ t.dtype \in PointerTypes => t.num_bytes = 8
           /\ t.dtype \in ContainerTypes =>
                 /\ t.num_bytes = 0
                 /\ t.is_reference => t.num_elements = 0
                 /\ ~t.is_reference => Count(t) = t.num_elements
           /\ \A j \in DOMAIN t.subtype :
                 /\ t.subtype[j] \in Meant
                 /\ t.is_reference /\ t.subtype[j].dtype \in ContainerTypes => t.subtype[j].is_reference
<1>1. PICK g \in AllTerms, r \in BOOLEAN : t = Meaning[g][r]
  BY DEF Meant
<1>2. t \in Datatypes
  BY <1>1, MeaningType
<1> DEFINE ref == r \/ g.ref
<1>3. ref \in BOOLEAN
  BY <1>1, TermFields
<1>4. CASE g.kind = "scalar"
  <2>1. t = base_ref(g.spec, ref) /\ g.spec \in Specifiers
    BY <1>1, <1>4, MeaningOf, TermFields
  <2> DEFINE name == base[g.spec].dtype
             bytes == base[g.spec].num_bytes
             is == ref /\ name \in StringTypes
  <2>2. base[g.spec] = BaseType(name, bytes) /\ name \in NumberTypes \cup PointerTypes /\ bytes \in 1..8
    BY <2>1, BaseFields
  <2>3. name \in PointerTypes => bytes = 8
    BY <2>1 DEF Specifiers, base, BaseType, Type, PointerTypes, StringTypes
  <2> HIDE DEF name, bytes
  <2>4. base_ref(g.spec, ref) = [BaseType(name, bytes) EXCEPT !.is_reference = is]
    BY <2>2 DEF base_ref, BaseType, Type
  <2> HIDE DEF is
  <2>5. t = Type(name, bytes, is, 0, 0, << >>)
    BY <2>1, <2>4 DEF BaseType, Type
  <2>6. is => name \in StringTypes
    BY DEF is
  <2>7. name \notin ContainerTypes
    BY <2>2 DEF NumberTypes, PointerTypes, StringTypes, ContainerTypes
  <2>8. t.dtype = name /\ t.num_bytes = bytes /\ t.is_reference = is /\ t.subtype = << >>
    BY <2>5 DEF Type
  <2>9. name \notin PointerTypes => ~is
    BY <2>6 DEF PointerTypes
  <2> QED BY <1>2, <2>2, <2>3, <2>7, <2>8, <2>9
<1>5. CASE g.kind # "scalar"
  <2> DEFINE subtypes == [i \in DOMAIN g.subs |-> Meaning[g.subs[i]][ref]]
  <2>1. t = ContainerType(g.kind, ref, g.n, subtypes)
    BY <1>1, <1>5, MeaningOf
  <2>2. g.kind \in ContainerTypes /\ g.n \in Nat /\ g.subs \in Seq(AllTerms)
    BY <1>1, <1>5, TermFields
  <2>3. ASSUME NEW j \in DOMAIN subtypes
        PROVE  /\ subtypes[j] \in Meant
               /\ ref /\ subtypes[j].dtype \in ContainerTypes => subtypes[j].is_reference
    <3>1. j \in DOMAIN g.subs /\ g.subs[j] \in AllTerms
      BY <2>2
    <3>2. subtypes[j] = Meaning[g.subs[j]][ref]
      BY <3>1
    <3>3. subtypes[j] \in Meant
      <4> HIDE DEF ref, subtypes
      <4> QED BY <1>3, <3>1, <3>2 DEF Meant
    <3>4. ASSUME ref, subtypes[j].dtype \in ContainerTypes PROVE subtypes[j].is_reference
      <4> DEFINE h == g.subs[j]
      <4>1. h \in AllTerms
        BY <3>1
      <4>2. (ref \/ h.ref) = TRUE
        BY <3>4
      <4> HIDE DEF h
      <4>3. CASE h.kind = "scalar"
        <5>1. subtypes[j] = base_ref(h.spec, ref \/ h.ref) /\ h.spec \in Specifiers
          BY <1>3, <3>2, <4>1, <4>3, MeaningOf, TermFields DEF h
        <5>2. subtypes[j].dtype = base[h.spec].dtype
          <6>1. base[h.spec] = BaseType(base[h.spec].dtype, base[h.spec].num_bytes)
            BY <5>1, BaseFields
          <6>2. base_ref(h.spec, ref \/ h.ref)
                  = [BaseType(base[h.spec].dtype, base[h.spec].num_bytes)
                        EXCEPT !.is_reference = (ref \/ h.ref) /\ base[h.spec].dtype \in StringTypes]
            BY <6>1 DEF base_ref, BaseType, Type
          <6> QED BY <5>1, <6>2 DEF BaseType, Type
        <5>3. base[h.spec].dtype \in NumberTypes \cup PointerTypes
          BY <5>1, BaseFields
        <5> QED BY <3>4, <5>2, <5>3 DEF NumberTypes, PointerTypes, StringTypes, ContainerTypes
      <4>4. CASE h.kind # "scalar"
        <5> DEFINE inner == ref \/ h.ref
                   deeper == [i \in DOMAIN h.subs |-> Meaning[h.subs[i]][inner]]
        <5>1. subtypes[j] = ContainerType(h.kind, inner, h.n, deeper)
          BY <1>3, <3>2, <4>1, <4>4, MeaningOf DEF h
        <5>2. inner
          BY <4>2
        <5> HIDE DEF deeper, inner
        <5> QED BY <5>1, <5>2 DEF ContainerType, Type
      <4> QED BY <4>3, <4>4
    <3> QED BY <3>3, <3>4
  <2> HIDE DEF subtypes, ref
  <2>4. /\ t.dtype = g.kind /\ t.num_bytes = 0 /\ t.is_reference = ref /\ t.subtype = subtypes
        /\ t.num_elements = (IF ref THEN 0 ELSE g.n) /\ t.num_ref_elements = (IF ref THEN g.n ELSE 0)
    BY <2>1 DEF ContainerType, Type
  <2>5. g.kind \notin PointerTypes
    BY <2>2 DEF PointerTypes, StringTypes, ContainerTypes
  <2>6. ~ref => Count(t) = t.num_elements
    BY <2>2, <2>4 DEF Count
  <2> QED BY <1>2, <2>2, <2>3, <2>4, <2>5, <2>6
<1> QED BY <1>4, <1>5

LEMMA MeantInduction ==
    ASSUME NEW S, \A t \in Meant : (\A j \in DOMAIN t.subtype : t.subtype[j] \in S) => t \in S
    PROVE  Meant \subseteq S
<1> DEFINE T == {t \in Datatypes : t \in Meant => t \in S}
<1>1. ASSUME NEW t \in Datatypes, \A j \in DOMAIN t.subtype : t.subtype[j] \in T PROVE t \in T
  <2>1. ASSUME t \in Meant PROVE t \in S
    <3>1. \A j \in DOMAIN t.subtype : t.subtype[j] \in Meant
      BY <2>1, MeantFields
    <3>2. \A j \in DOMAIN t.subtype : t.subtype[j] \in S
      BY <3>1, <1>1
    <3> QED BY <2>1, <3>2
  <2> QED BY <2>1
<1>2. Datatypes \subseteq T
  <2> HIDE DEF T
  <2> QED BY <1>1, TypeInduction
<1>3. Meant \subseteq Datatypes
  BY MeantFields
<1> QED BY <1>2, <1>3

-----------------------------------------------------------------------------
\* Where elements begin.
LEMMA BeginsSteps ==
    ASSUME NEW t \in Datatypes
    PROVE  /\ BeginsOf(Begins(t), t)
           /\ Begins(t)[0] = 0
           /\ \A i \in 1..Count(t) : Begins(t)[i] = Begins(t)[i - 1] + calc_size[Element(t, i)]
           /\ \A i \in 0..Count(t) : Begins(t)[i] \in Nat
<1> DEFINE n == Count(t)
           sizes == [i \in 1..n |-> calc_size[Element(t, i)]]
<1>1. n \in Nat
  BY DatatypeFields DEF Count
<1>2. \A i \in 1..n : calc_size[Element(t, i)] \in Nat
  <2>1. \A i \in 1..n : Element(t, i) \in Datatypes
    <3>1. t.dtype \notin ContainerTypes => n = 0
      BY DatatypeFields
    <3> QED BY <3>1, ElementSubtype
  <2> QED BY <2>1, SizeType
<1>3. sizes \in Seq(Nat) /\ Len(sizes) = n
  <2> HIDE DEF n
  <2> QED BY <1>1, <1>2
<1>4. PICK sum : SumOf(sum, sizes)
  <2> HIDE DEF sizes
  <2> QED BY <1>3, SumSteps
<1>5. sum = [i \in 0..n |-> IF i = 0 THEN 0 ELSE sum[i - 1] + sizes[i]]
  <2> HIDE DEF sizes, n
  <2> QED BY <1>3, <1>4 DEF SumOf
<1>6. ASSUME NEW i \in 0..n
      PROVE  (IF i = 0 THEN 0 ELSE sum[i - 1] + sizes[i])
                 = (IF i = 0 THEN 0 ELSE sum[i - 1] + calc_size[Element(t, i)])
  <2>1. i # 0 => i \in 1..n
    BY <1>1
  <2> HIDE DEF n
  <2> QED BY <2>1
<1>7. BeginsOf(sum, t)
  <2> HIDE DEF sizes
  <2> QED BY <1>5, <1>6 DEF BeginsOf
<1>8. BeginsOf(Begins(t), t)
  BY <1>7 DEF Begins
<1> DEFINE b == Begins(t)
<1>9. b = [i \in 0..n |-> IF i = 0 THEN 0 ELSE b[i - 1] + calc_size[Element(t, i)]]
  BY <1>8 DEF BeginsOf
<1> HIDE DEF b
<1>10. b[0] = 0 /\ \A i \in 1..n : b[i] = b[i - 1] + calc_size[Element(t, i)]
  <2>1. 0 \in 0..n /\ \A i \in 1..n : i \in 0..n /\ i # 0
    BY <1>1
  <2> HIDE DEF n
  <2> QED BY <1>9, <2>1
<1>11. \A i \in 0..n : b[i] \in Nat
  <2> DEFINE S == {i \in 0..n : b[i] \in Nat}
  <2>1. 0 \in S /\ S \subseteq 0..n
    BY <1>1, <1>10
  <2>2. ASSUME NEW i \in 1..n, i - 1 \in S PROVE i \in S
    BY <2>2, <1>1, <1>2, <1>10
  <2> HIDE DEF S, n
  <2>3. \A i \in 0..n : i \in S
    BY <1>1, <2>1, <2>2, Induction
  <2> QED BY <2>3 DEF S
<1> QED BY <1>8, <1>10, <1>11 DEF b

\* There is only one such function, whatever names the sizes.
LEMMA BeginsAlone ==
    ASSUME NEW t \in Datatypes, NEW n \in 0..Count(t), NEW sum, sum[0] = 0,
           \A i \in 1..n : sum[i] = sum[i - 1] + calc_size[Element(t, i)]
    PROVE  \A i \in 0..n : sum[i] = Begins(t)[i]
<1> DEFINE S == {i \in 0..n : sum[i] = Begins(t)[i]}
<1>1. Count(t) \in Nat /\ n \in Nat
  BY DatatypeFields DEF Count
<1>2. 0 \in S /\ S \subseteq 0..n
  BY <1>1, BeginsSteps
<1>3. ASSUME NEW i \in 1..n, i - 1 \in S PROVE i \in S
  <2>1. i \in 1..Count(t) /\ i \in 0..n
    BY <1>1
  <2> QED BY <2>1, <1>3, BeginsSteps
<1> HIDE DEF S
<1>4. \A i \in 0..n : i \in S
  BY <1>1, <1>2, <1>3, Induction
<1> QED BY <1>4 DEF S

LEMMA BeginsGrow ==
    ASSUME NEW t \in Datatypes, NEW j \in 0..Count(t), NEW i \in 0..j
    PROVE  Begins(t)[i] <= Begins(t)[j]
<1> DEFINE n == Count(t)
           b == Begins(t)
           S == {k \in 0..n : \A m \in 0..k : b[m] <= b[k]}
<1>1. n \in Nat
  BY DatatypeFields DEF Count
<1>2. \A k \in 0..n : b[k] \in Nat
  BY BeginsSteps
<1>3. \A k \in 1..n : b[k] = b[k - 1] + calc_size[Element(t, k)] /\ calc_size[Element(t, k)] \in Nat
  <2>1. \A k \in 1..n : Element(t, k) \in Datatypes
    <3>1. t.dtype \notin ContainerTypes => n = 0
      BY DatatypeFields
    <3> QED BY <3>1, ElementSubtype
  <2> QED BY <2>1, SizeType, BeginsSteps
<1> HIDE DEF n, b
<1>4. 0 \in S /\ S \subseteq 0..n
  BY <1>1, <1>2
<1>5. ASSUME NEW k \in 1..n, k - 1 \in S PROVE k \in S
  <2>1. k \in 0..n /\ k - 1 \in 0..n
    BY <1>1
  <2>2. ASSUME NEW m \in 0..k PROVE b[m] <= b[k]
    <3>1. CASE m = k
      BY <3>1, <2>1, <1>2
    <3>2. CASE m # k
      <4>1. m \in 0..(k - 1) /\ m \in 0..n
        BY <3>2, <2>1, <1>1
      <4>2. b[m] <= b[k - 1]
        BY <4>1, <1>5
      <4> QED BY <4>1, <4>2, <2>1, <1>2, <1>3
    <3> QED BY <3>1, <3>2
  <2> QED BY <2>1, <2>2
<1>6. \A k \in 0..n : k \in S
  <2> HIDE DEF S
  <2> QED BY <1>1, <1>4, <1>5, Induction
<1>7. j \in S
  BY <1>6 DEF n
<1> QED BY <1>7 DEF b

\* Elements that share a subtype are equally far apart.
LEMMA BeginsEven ==
    ASSUME NEW t \in Datatypes, t.dtype \in ContainerTypes \ {"tuple"}, NEW i \in 0..Count(t)
    PROVE  Begins(t)[i] = i * calc_size[t.subtype[1]]
<1> DEFINE n == Count(t)
           size == calc_size[t.subtype[1]]
           sum == [k \in 0..n |-> k * size]
<1>1. n \in Nat
  BY DatatypeFields DEF Count
<1>2. t.subtype[1] \in Datatypes
  <2>1. Len(t.subtype) = 1 /\ t.subtype \in Seq(Datatypes)
    BY DatatypeFields DEF Arity
  <2> QED BY <2>1
<1>3. size \in Nat
  BY <1>2, SizeType
<1>4. \A k \in 1..n : calc_size[Element(t, k)] = size
  BY DEF Element, Index
<1>5. sum[0] = 0
  <2> HIDE DEF size
  <2> QED BY <1>1, <1>3
<1>6. ASSUME NEW k \in 1..n PROVE sum[k] = sum[k - 1] + calc_size[Element(t, k)]
  <2>1. k \in 0..n /\ k - 1 \in 0..n /\ k \in Nat
    BY <1>1
  <2> HIDE DEF size, n
  <2>2. k * size = (k - 1) * size + size
    BY <2>1, <1>3
  <2> QED BY <2>1, <2>2, <1>4
<1>7. n \in 0..Count(t)
  BY <1>1
<1> HIDE DEF sum
<1>8. sum[i] = Begins(t)[i]
  BY <1>5, <1>6, <1>7, BeginsAlone
<1> QED BY <1>8 DEF sum

\* The size of a container is where its elements end.
LEMMA SizeOfContainer ==
    ASSUME NEW t \in Datatypes, t.dtype \in ContainerTypes
    PROVE  calc_size[t] = Begins(t)[Count(t)]
<1> DEFINE n == Count(t)
           sizes == [i \in DOMAIN t.subtype |-> calc_size[t.subtype[i]]]
<1>1. n \in Nat /\ n \in 0..n
  BY DatatypeFields DEF Count
<1>2. t.subtype \in Seq(Datatypes) /\ Len(t.subtype) = Arity(t)
  BY DatatypeFields
<1>3. sizes \in Seq(Nat) /\ Len(sizes) = Len(t.subtype)
  <2>1. \A i \in 1..Len(t.subtype) : calc_size[t.subtype[i]] \in Nat
    BY <1>2, SizeType
  <2> QED BY <1>2, <2>1
<1>4. PICK sum : /\ SumOf(sum, sizes)
                 /\ SizeFrom(t, sizes) = CASE t.dtype \in ContainerTypes \ {"tuple"} -> Count(t) * sizes[1]
                                           [] t.dtype = "tuple" -> sum[Len(sizes)]
                                           [] OTHER -> t.num_bytes
  <2> HIDE DEF sizes
  <2> QED BY <1>3, SizeFromParts
<1>5. calc_size[t] = SizeFrom(t, sizes)
  BY SizeParts
<1>6. CASE t.dtype = "tuple"
  <2>1. Len(sizes) = n
    BY <1>2, <1>3, <1>6 DEF Arity
  <2>2. sum = [i \in 0..n |-> IF i = 0 THEN 0 ELSE sum[i - 1] + sizes[i]]
    <3> HIDE DEF sizes, n
    <3> QED BY <1>4, <2>1 DEF SumOf
  <2>3. ASSUME NEW i \in 1..n PROVE sizes[i] = calc_size[Element(t, i)]
    <3>1. i \in DOMAIN t.subtype
      BY <1>2, <1>3, <2>1, <1>6 DEF Arity
    <3> QED BY <3>1, <1>6 DEF Element, Index
  <2>4. sum[0] = 0 /\ \A i \in 1..n : sum[i] = sum[i - 1] + calc_size[Element(t, i)]
    <3>1. 0 \in 0..n /\ \A i \in 1..n : i \in 0..n /\ i # 0
      BY <1>1
    <3> HIDE DEF sizes, n
    <3> QED BY <2>2, <2>3, <3>1
  <2>5. sum[n] = Begins(t)[n]
    BY <1>1, <2>4, BeginsAlone
  <2>6. SizeFrom(t, sizes) = sum[n]
    <3> HIDE DEF sizes, n
    <3> QED BY <1>4, <1>6, <2>1
  <2> QED BY <1>5, <2>5, <2>6
<1>7. CASE t.dtype # "tuple"
  <2>1. SizeFrom(t, sizes) = n * sizes[1]
    <3> HIDE DEF sizes
    <3> QED BY <1>4, <1>7
  <2>2. sizes[1] = calc_size[t.subtype[1]]
    <3>1. 1 \in DOMAIN t.subtype
      BY <1>2, <1>7 DEF Arity
    <3> QED BY <3>1
  <2>3. Begins(t)[n] = n * calc_size[t.subtype[1]]
    BY <1>1, <1>7, BeginsEven
  <2> HIDE DEF sizes, n
  <2>4. calc_size[t] = Begins(t)[n]
    BY <1>5, <2>1, <2>2, <2>3
  <2> QED BY <2>4 DEF n
<1> QED BY <1>6, <1>7

\* adiak_get_subval of what may be at an address.
SubAt(t, v, i, at) ==
    LET sub == Element(t, i)
        cell == Load(at, sub.num_bytes)
    IN  IF ~t.is_reference THEN Sub(v, i)
        ELSE CASE sub.dtype \in ContainerTypes -> Reference(at)
               [] sub.dtype \in PointerTypes -> Pointer(cell, FALSE)
               [] OTHER -> Numeric(cell, SignExtended(sub, cell.bits))

SumsTo(sum, t, n) ==
    sum = [i \in 0..n |-> IF i = 0 THEN 0 ELSE sum[i - 1] + calc_size[t.subtype[i]]]

LEMMA SumsExist ==
    ASSUME NEW t \in Datatypes, NEW n \in 0..Len(t.subtype)
    PROVE  \E sum : SumsTo(sum, t, n)
<1> DEFINE sizes == [i \in 1..n |-> calc_size[t.subtype[i]]]
<1>1. t.subtype \in Seq(Datatypes) /\ Len(t.subtype) \in Nat
  BY DatatypeFields
<1>2. n \in Nat /\ \A i \in 1..n : calc_size[t.subtype[i]] \in Nat
  <2>1. n \in Nat /\ \A i \in 1..n : t.subtype[i] \in Datatypes
    BY <1>1
  <2> QED BY <2>1, SizeType
<1>3. sizes \in Seq(Nat) /\ Len(sizes) = n
  BY <1>2
<1>4. PICK sum : SumOf(sum, sizes)
  <2> HIDE DEF sizes
  <2> QED BY <1>3, SumSteps
<1>5. sum = [i \in 0..n |-> IF i = 0 THEN 0 ELSE sum[i - 1] + sizes[i]]
  <2> HIDE DEF sizes
  <2> QED BY <1>3, <1>4 DEF SumOf
<1>6. ASSUME NEW i \in 0..n
      PROVE  (IF i = 0 THEN 0 ELSE sum[i - 1] + sizes[i])
                 = (IF i = 0 THEN 0 ELSE sum[i - 1] + calc_size[t.subtype[i]])
  <2>1. i # 0 => i \in 1..n
    BY <1>2
  <2> QED BY <2>1
<1> HIDE DEF sizes
<1> QED BY <1>5, <1>6 DEF SumsTo

LEMMA SubvalPlace ==
    ASSUME NEW t \in Datatypes, t.dtype \in ContainerTypes, NEW v, NEW i \in 1..Count(t)
    PROVE  adiak_get_subval(t, v, i) = SubAt(t, v, i, v.at + Begins(t)[i - 1])
<1>1. Count(t) \in Nat /\ i \in Nat /\ i - 1 \in 0..Count(t)
  BY DatatypeFields DEF Count
<1>2. CASE t.dtype = "tuple"
  <2>1. Len(t.subtype) = Count(t) /\ i - 1 \in 0..Len(t.subtype)
    BY <1>1, <1>2, DatatypeFields DEF Arity
  <2>2. PICK f : SumsTo(f, t, i - 1)
    BY <2>1, SumsExist
  <2> DEFINE sum == CHOOSE sum : SumsTo(sum, t, i - 1)
  <2>3. SumsTo(sum, t, i - 1) /\ adiak_get_subval(t, v, i) = SubAt(t, v, i, v.at + sum[i - 1])
    <3>1. SumsTo(sum, t, i - 1)
      BY <2>2
    <3>2. sum = CHOOSE s : s = [k \in 0..(i - 1) |-> IF k = 0 THEN 0 ELSE s[k - 1] + calc_size[t.subtype[k]]]
      BY DEF SumsTo
    <3> HIDE DEF sum
    <3>3. adiak_get_subval(t, v, i) = SubAt(t, v, i, v.at + sum[i - 1])
      BY <1>2, <3>2 DEF adiak_get_subval, SubAt
    <3> QED BY <3>1, <3>3
  <2> HIDE DEF sum
  <2>4. sum[0] = 0 /\ \A k \in 1..(i - 1) : sum[k] = sum[k - 1] + calc_size[Element(t, k)]
    <3> DEFINE n == i - 1
    <3>1. 0 \in 0..n /\ \A k \in 1..n : k \in 0..n /\ k # 0
      BY <1>1
    <3>2. sum = [k \in 0..n |-> IF k = 0 THEN 0 ELSE sum[k - 1] + calc_size[t.subtype[k]]]
      BY <2>3 DEF SumsTo
    <3>3. \A k \in 1..n : Element(t, k) = t.subtype[k]
      BY <1>2 DEF Element, Index
    <3> HIDE DEF n
    <3>4. sum[0] = 0 /\ \A k \in 1..n : sum[k] = sum[k - 1] + calc_size[Element(t, k)]
      BY <3>1, <3>2, <3>3
    <3> QED BY <3>4 DEF n
  <2>5. sum[i - 1] = Begins(t)[i - 1]
    <3>1. i - 1 \in 0..(i - 1)
      BY <1>1
    <3> QED BY <1>1, <2>4, <3>1, BeginsAlone
  <2> QED BY <2>3, <2>5
<1>3. CASE t.dtype # "tuple"
  <2>1. Begins(t)[i - 1] = (i - 1) * calc_size[t.subtype[1]]
    BY <1>1, <1>3, BeginsEven
  <2>2. adiak_get_subval(t, v, i) = SubAt(t, v, i, v.at + (i - 1) * calc_size[t.subtype[1]])
    BY <1>3 DEF adiak_get_subval, SubAt
  <2> QED BY <2>1, <2>2
<1> QED BY <1>2, <1>3

-----------------------------------------------------------------------------
\* The memory of an object without gaps: the compiler lays it out as calc_size has it.
Tight == {t \in Meant : Gapless[t]}

LEMMA TightParts ==
    ASSUME NEW t \in Tight
    PROVE  /\ t \in Meant /\ t \in Datatypes
           /\ \A j \in DOMAIN t.subtype : t.subtype[j] \in Tight
<1>1. t \in Meant /\ t \in Datatypes /\ Gapless[t]
  BY MeantFields DEF Tight
<1> DEFINE gapless == [i \in DOMAIN t.subtype |-> Gapless[t.subtype[i]]]
<1>2. GaplessFrom(t, gapless)
  BY <1>1, GaplessParts
<1>3. \A j \in DOMAIN gapless : gapless[j]
  <2> HIDE DEF gapless
  <2> QED BY <1>2 DEF GaplessFrom
<1>4. \A j \in DOMAIN t.subtype : Gapless[t.subtype[j]]
  BY <1>3
<1> HIDE DEF gapless
<1> QED BY <1>1, <1>4, MeantFields DEF Tight

LEMMA TightElement ==
    ASSUME NEW t \in Tight, NEW i \in 1..Count(t)
    PROVE  /\ t.dtype \in ContainerTypes
           /\ Index(t, i) \in DOMAIN t.subtype /\ Element(t, i) \in Tight
<1>1. t \in Datatypes
  BY TightParts
<1>2. t.dtype \in ContainerTypes
  BY <1>1, DatatypeFields
<1>3. Index(t, i) \in DOMAIN t.subtype
  BY <1>1, <1>2, ElementSubtype
<1> QED BY <1>2, <1>3, TightParts DEF Element

LEMMA TightInduction ==
    ASSUME NEW S, \A t \in Tight : (\A i \in 1..Count(t) : Element(t, i) \in S) => t \in S
    PROVE  Tight \subseteq S
<1> DEFINE T == {t \in Meant : t \in Tight => t \in S}
<1>1. ASSUME NEW t \in Meant, \A j \in DOMAIN t.subtype : t.subtype[j] \in T PROVE t \in T
  <2>1. ASSUME t \in Tight PROVE t \in S
    <3>1. ASSUME NEW i \in 1..Count(t) PROVE Element(t, i) \in S
      <4>1. Index(t, i) \in DOMAIN t.subtype /\ Element(t, i) \in Tight
        BY <2>1, TightElement
      <4> QED BY <4>1, <1>1 DEF Element
    <3> QED BY <2>1, <3>1
  <2> QED BY <2>1
<1>2. Meant \subseteq T
  <2> HIDE DEF T
  <2> QED BY <1>1, MeantInduction
<1> QED BY <1>2 DEF Tight

LEMMA SizeOfScalar ==
    ASSUME NEW t \in Datatypes, t.dtype \notin ContainerTypes
    PROVE  calc_size[t] = t.num_bytes
<1> DEFINE sizes == [i \in DOMAIN t.subtype |-> calc_size[t.subtype[i]]]
<1>1. t.subtype \in Seq(Datatypes)
  BY DatatypeFields
<1>2. sizes \in Seq(Nat)
  <2>1. \A i \in 1..Len(t.subtype) : calc_size[t.subtype[i]] \in Nat
    BY <1>1, SizeType
  <2> QED BY <1>1, <2>1
<1>3. calc_size[t] = SizeFrom(t, sizes)
  BY SizeParts
<1>4. t.dtype # "tuple" /\ t.dtype \notin ContainerTypes \ {"tuple"}
  BY DEF ContainerTypes
<1> HIDE DEF sizes
<1>5. SizeFrom(t, sizes) = t.num_bytes
  BY <1>2, <1>4, SizeFromParts
<1> QED BY <1>3, <1>5

\* The compiler's sizes and offsets are those of calc_size.
LEMMA TightLayout ==
    ASSUME NEW t \in Tight
    PROVE  /\ CSize[t] = calc_size[t]
           /\ \A i \in 1..Count(t) : COffset(t, i) = Begins(t)[i - 1]
<1> DEFINE S == {u \in Tight : /\ CSize[u] = calc_size[u]
                               /\ \A i \in 1..Count(u) : COffset(u, i) = Begins(u)[i - 1]}
<1>1. ASSUME NEW u \in Tight, \A i \in 1..Count(u) : Element(u, i) \in S
      PROVE  u \in S
  <2> DEFINE sizes == [i \in DOMAIN u.subtype |-> CSize[u.subtype[i]]]
             gapless == [i \in DOMAIN u.subtype |-> Gapless[u.subtype[i]]]
             n == Count(u)
             sum == [i \in 0..n |-> COffset(u, i + 1)]
  <2>1. u \in Datatypes /\ u \in Meant /\ Gapless[u]
    BY MeantFields DEF Tight
  <2>2. n \in Nat /\ u.subtype \in Seq(Datatypes) /\ Len(u.subtype) = Arity(u)
    BY <2>1, DatatypeFields DEF Count
  <2>3. CSize[u] = CSizeFrom(u, sizes) /\ GaplessFrom(u, gapless)
    BY <2>1, CSizeParts, GaplessParts
  <2>4. \A i \in 1..n : CSize[Element(u, i)] = calc_size[Element(u, i)]
    BY <1>1
  <2>5. CASE u.subtype = << >>
    <3>1. CSize[u] = u.num_bytes
      <4> HIDE DEF sizes
      <4> QED BY <2>3, <2>5 DEF CSizeFrom
    <3>2. CASE u.dtype \notin ContainerTypes
      <4>1. n = 0
        BY <2>1, <3>2, DatatypeFields
      <4> QED BY <2>1, <3>1, <3>2, <4>1, SizeOfScalar
    <3>3. CASE u.dtype \in ContainerTypes
      <4>1. Len(u.subtype) = 0
        BY <2>5
      <4>2. n = 0
        BY <2>2, <3>3, <4>1 DEF Arity
      <4>3. u.num_bytes = 0
        BY <2>1, <3>3, MeantFields
      <4>4. calc_size[u] = Begins(u)[n]
        BY <2>1, <3>3, SizeOfContainer
      <4>5. Begins(u)[0] = 0
        BY <2>1, BeginsSteps
      <4> HIDE DEF n
      <4>6. CSize[u] = calc_size[u] /\ \A i \in 1..n : FALSE
        BY <3>1, <4>2, <4>3, <4>4, <4>5
      <4> QED BY <4>6 DEF n
    <3> QED BY <3>2, <3>3
  <2>6. CASE u.subtype # << >>
    <3>1. u.dtype \in ContainerTypes
      BY <2>1, <2>6, MeantFields
    <3>2. /\ \A i \in 1..n : COffset(u, i + 1) = COffset(u, i) + CSize[Element(u, i)]
          /\ COffset(u, 1) = 0 /\ CSize[u] = COffset(u, n + 1)
      <4> HIDE DEF gapless
      <4> QED BY <2>3, <2>6 DEF GaplessFrom
    <3>3. sum[0] = 0 /\ \A i \in 1..n : sum[i] = sum[i - 1] + calc_size[Element(u, i)]
      <4>1. sum[0] = COffset(u, 1)
        BY <2>2
      <4>2. ASSUME NEW i \in 1..n PROVE sum[i] = sum[i - 1] + calc_size[Element(u, i)]
        <5>1. i \in 0..n /\ i - 1 \in 0..n /\ (i - 1) + 1 = i
          BY <2>2
        <5>2. sum[i] = COffset(u, i + 1) /\ sum[i - 1] = COffset(u, i)
          BY <5>1
        <5> HIDE DEF sum, n
        <5> QED BY <5>2, <3>2, <2>4
      <4> HIDE DEF sum, n
      <4> QED BY <4>1, <4>2, <3>2
    <3>4. \A i \in 0..n : sum[i] = Begins(u)[i]
      <4>1. n \in 0..Count(u)
        BY <2>2
      <4> HIDE DEF sum
      <4> QED BY <2>1, <3>3, <4>1, BeginsAlone
    <3>5. ASSUME NEW i \in 1..n PROVE COffset(u, i) = Begins(u)[i - 1]
      <4>1. i - 1 \in 0..n /\ (i - 1) + 1 = i
        BY <2>2
      <4>2. sum[i - 1] = COffset(u, i)
        BY <4>1
      <4> HIDE DEF sum, n
      <4> QED BY <3>4, <4>1, <4>2
    <3>6. COffset(u, n + 1) = Begins(u)[n]
      <4>1. n \in 0..n
        BY <2>2
      <4>2. sum[n] = COffset(u, n + 1)
        BY <4>1
      <4> HIDE DEF sum, n
      <4> QED BY <3>4, <4>1, <4>2
    <3>7. calc_size[u] = Begins(u)[n]
      BY <2>1, <3>1, SizeOfContainer
    <3> QED BY <3>2, <3>5, <3>6, <3>7
  <2> QED BY <2>5, <2>6
<1>2. Tight \subseteq S
  <2> HIDE DEF S
  <2> QED BY <1>1, TightInduction
<1> QED BY <1>2

\* Cells of what is at a path in an object.
Moved(path, c) == [c EXCEPT !.path = path \o @]
Under(path, cells) == {Moved(path, c) : c \in cells}
AllCells == [at : Nat, size : Nat \ {0}, path : Seq(Nat), bits : Int]

LEMMA HalvesGrow ==
    /\ Half(1) = 128 /\ Half(2) = 32768 /\ \A bytes : Half(bytes) \in Int
    /\ 65536 <= Half(4) /\ Half(4) <= Half(8)
<1> DEFINE int == IntMax + 1
           long == LongMax + 1
<1>1. int \in Int /\ long \in Int /\ 65536 <= int /\ int <= long
  BY ValueAssumption
<1>2. Half(4) = int /\ Half(8) = long
  BY DEF Half
<1> HIDE DEF int, long
<1>3. \A bytes : Half(bytes) \in {128, 32768, int, long}
  BY DEF Half, int, long
<1>4. Half(1) = 128 /\ Half(2) = 32768
  BY DEF Half
<1> QED BY <1>1, <1>2, <1>3, <1>4

LEMMA NumbersType ==
    ASSUME NEW t \in Datatypes
    PROVE  Bits(t) \in Int /\ TypedNumber(t) \in Int /\ Field(t) \in Int
<1>1. ASSUME NEW number \in Int, NEW bytes PROVE Signed(number, bytes) \in Int
  <2>1. Half(bytes) \in Int
    BY HalvesGrow
  <2> QED BY <2>1 DEF Signed
<1>2. Bits(t) \in Int
  <2>1. Half(t.num_bytes) \in Int
    BY HalvesGrow
  <2> QED BY <2>1 DEF Bits
<1>3. TypedNumber(t) \in Int
  BY <1>1, <1>2 DEF TypedNumber
<1>4. Field(t) \in Int
  BY <1>1, <1>3 DEF Field
<1> QED BY <1>2, <1>3, <1>4

\* How long the integers of base types are.
LEMMA MeantWidths ==
    ASSUME NEW t \in Meant, t.dtype \in SignedTypes \cup UnsignedTypes
    PROVE  /\ t.dtype \in {"int", "uint"} => t.num_bytes \in {1, 2, 4}
           /\ t.dtype \notin {"int", "uint"} => t.num_bytes = 8
<1>1. PICK g \in AllTerms, r \in BOOLEAN : t = Meaning[g][r]
  BY DEF Meant
<1> DEFINE ref == r \/ g.ref
<1>2. t.dtype \notin ContainerTypes
  BY DEF SignedTypes, UnsignedTypes, ContainerTypes
<1>3. g.kind = "scalar"
  <2> SUFFICES ASSUME g.kind # "scalar" PROVE FALSE
    OBVIOUS
  <2> DEFINE subtypes == [i \in DOMAIN g.subs |-> Meaning[g.subs[i]][ref]]
  <2>1. t = ContainerType(g.kind, ref, g.n, subtypes)
    BY <1>1, MeaningOf
  <2>2. g.kind \in ContainerTypes
    BY <1>1, TermFields
  <2> HIDE DEF subtypes
  <2>3. t.dtype = g.kind
    BY <2>1 DEF ContainerType, Type
  <2> QED BY <1>2, <2>2, <2>3
<1>4. t = base_ref(g.spec, ref) /\ g.spec \in Specifiers
  BY <1>1, <1>3, MeaningOf, TermFields
<1>5. t.dtype = base[g.spec].dtype /\ t.num_bytes = base[g.spec].num_bytes
  <2> DEFINE name == base[g.spec].dtype
             bytes == base[g.spec].num_bytes
  <2>1. base[g.spec] = BaseType(name, bytes)
    BY <1>4, BaseFields
  <2> HIDE DEF name, bytes
  <2> DEFINE is == ref /\ name \in StringTypes
  <2>2. base_ref(g.spec, ref) = [BaseType(name, bytes) EXCEPT !.is_reference = is]
    BY <2>1 DEF base_ref, BaseType, Type
  <2> HIDE DEF is
  <2>3. t.dtype = name /\ t.num_bytes = bytes
    BY <1>4, <2>2 DEF BaseType, Type
  <2> QED BY <2>3 DEF name, bytes
<1>6. /\ base[g.spec].dtype \in {"int", "uint"} => base[g.spec].num_bytes \in {1, 2, 4}
      /\ base[g.spec].dtype \in {"long", "longlong", "date", "ulong", "ulonglong"} => base[g.spec].num_bytes = 8
  <2> DEFINE spec == g.spec
  <2>1. spec \in Specifiers
    BY <1>4
  <2> HIDE DEF spec
  <2>2. \/ base[spec] \in {BaseType("int", 1), BaseType("int", 2), BaseType("int", 4)}
        \/ base[spec] \in {BaseType("uint", 1), BaseType("uint", 2), BaseType("uint", 4)}
        \/ \E name \in {"long", "longlong", "date", "ulong", "ulonglong"} : base[spec] = BaseType(name, 8)
        \/ \E name \in PointerTypes \cup {"double"} : \E bytes : base[spec] = BaseType(name, bytes)
    BY <2>1, Zenon DEF base, Specifiers, PointerTypes, StringTypes
  <2>3. PICK name, bytes :
             /\ base[spec] = BaseType(name, bytes)
             /\ \/ name \in {"int", "uint"} /\ bytes \in {1, 2, 4}
                \/ name \in {"long", "longlong", "date", "ulong", "ulonglong"} /\ bytes = 8
                \/ name \in PointerTypes \cup {"double"}
    BY <2>2, Zenon
  <2>4. base[spec].dtype = name /\ base[spec].num_bytes = bytes
    BY <2>3 DEF BaseType, Type
  <2> QED BY <2>3, <2>4 DEF spec, PointerTypes, StringTypes
<1> QED BY <1>5, <1>6 DEF SignedTypes, UnsignedTypes

\* The numbers of leaves: what fits in how many bytes.
LEMMA BitsFit ==
    ASSUME NEW t \in Meant, t.dtype \in SignedTypes \cup UnsignedTypes
    PROVE  /\ 0 <= Bits(t) /\ Bits(t) < 2 * Half(t.num_bytes)
           /\ Bits(t) = 100 \/ Bits(t) = 2 * Half(t.num_bytes) - 56
           /\ 128 <= Half(t.num_bytes) /\ Half(t.num_bytes) <= Half(FieldBytes(t))
<1> DEFINE half == Half(t.num_bytes)
<1>1. half \in Int /\ 128 <= half /\ half <= Half(FieldBytes(t))
  <2>1. CASE t.dtype \in {"int", "uint"}
    BY <2>1, MeantWidths, HalvesGrow DEF FieldBytes
  <2>2. CASE t.dtype \notin {"int", "uint"}
    BY <2>2, MeantWidths, HalvesGrow DEF FieldBytes
  <2> QED BY <2>1, <2>2
<1>2. Bits(t) = 100 \/ Bits(t) = 2 * half - 56
  BY DEF Bits
<1> HIDE DEF half
<1> QED BY <1>1, <1>2 DEF half

LEMMA CellsOfScalar ==
    ASSUME NEW t \in Datatypes, t.dtype \notin ContainerTypes, NEW at \in Nat
    PROVE  CellsOf[t][at] = {Cell(at, t.num_bytes, << >>, Bits(t))}
<1> DEFINE cells == [i \in DOMAIN t.subtype |-> CellsOf[t.subtype[i]]]
<1>1. CellsOf[t] = CellsFrom(t, cells)
  BY CellsParts
<1> HIDE DEF cells
<1>2. CellsFrom(t, cells)[at] = {Cell(at, t.num_bytes, << >>, Bits(t))}
  BY DEF CellsFrom
<1> QED BY <1>1, <1>2

LEMMA CellsOfContainer ==
    ASSUME NEW t \in Tight, t.dtype \in ContainerTypes, NEW at \in Nat
    PROVE  CellsOf[t][at]
               = UNION {Under(<<i>>, CellsOf[Element(t, i)][at + Begins(t)[i - 1]]) : i \in 1..Count(t)}
<1> DEFINE cells == [i \in DOMAIN t.subtype |-> CellsOf[t.subtype[i]]]
           n == Count(t)
           Coded(i) == {[c EXCEPT !.path = <<i>> \o @] : c \in cells[Index(t, i)][at + COffset(t, i)]}
           Lying(i) == Under(<<i>>, CellsOf[Element(t, i)][at + Begins(t)[i - 1]])
<1>1. CellsOf[t] = CellsFrom(t, cells)
  BY CellsParts, TightParts
<1>2. CellsFrom(t, cells)[at] = UNION {Coded(i) : i \in 1..n}
  <2> HIDE DEF cells
  <2> QED BY DEF CellsFrom
<1>3. ASSUME NEW i \in 1..n PROVE Coded(i) = Lying(i)
  <2>1. Index(t, i) \in DOMAIN t.subtype
    BY TightElement
  <2>2. cells[Index(t, i)] = CellsOf[Element(t, i)]
    BY <2>1 DEF Element
  <2>3. COffset(t, i) = Begins(t)[i - 1]
    BY TightLayout
  <2> HIDE DEF cells
  <2> QED BY <2>2, <2>3 DEF Under, Moved
<1>4. UNION {Coded(i) : i \in 1..n} = UNION {Lying(i) : i \in 1..n}
  <2> HIDE DEF Coded, Lying
  <2> QED BY <1>3
<1> HIDE DEF cells, Coded, n
<1>5. CellsOf[t][at] = UNION {Lying(i) : i \in 1..n}
  BY <1>1, <1>2, <1>4
<1> QED BY <1>5 DEF n

\* A cell of an element is a cell of the container, with a longer path.
LEMMA UnderFields ==
    ASSUME NEW path \in Seq(Nat), NEW cells, cells \subseteq AllCells
    PROVE  /\ Under(path, cells) \subseteq AllCells
           /\ \A c \in Under(path, cells) : \E d \in cells :
                 /\ c = Moved(path, d)
                 /\ c.at = d.at /\ c.size = d.size /\ c.bits = d.bits /\ c.path = path \o d.path
<1>1. ASSUME NEW c \in Under(path, cells)
      PROVE  \E d \in cells :
                 /\ c = Moved(path, d)
                 /\ c.at = d.at /\ c.size = d.size /\ c.bits = d.bits /\ c.path = path \o d.path
  <2>1. PICK d \in cells : c = Moved(path, d)
    BY DEF Under
  <2>2. d \in AllCells
    OBVIOUS
  <2>3. c.at = d.at /\ c.size = d.size /\ c.bits = d.bits /\ c.path = path \o d.path
    BY <2>1, <2>2 DEF AllCells, Moved
  <2> QED BY <2>1, <2>3
<1>2. ASSUME NEW c \in Under(path, cells) PROVE c \in AllCells
  <2>1. PICK d \in cells : c = Moved(path, d)
    BY DEF Under
  <2>2. d \in AllCells
    OBVIOUS
  <2>3. path \o d.path \in Seq(Nat)
    BY <2>2 DEF AllCells
  <2> DEFINE longer == path \o d.path
  <2>4. c = [d EXCEPT !.path = longer] /\ longer \in Seq(Nat)
    BY <2>1, <2>2, <2>3 DEF AllCells, Moved
  <2> HIDE DEF longer
  <2> QED BY <2>2, <2>4 DEF AllCells
<1> QED BY <1>1, <1>2

\* The cells lie in the object, and no two at the same address.
Within(cells, from, to) ==
    \A c \in cells : c.at \in Nat /\ c.size \in Nat \ {0} /\ from <= c.at /\ c.at + c.size <= to
Apart(cells) == \A c, d \in cells : c.at = d.at => c = d
LaidOut(t, at) ==
    /\ CellsOf[t][at] \subseteq AllCells
    /\ Within(CellsOf[t][at], at, at + calc_size[t])
    /\ Apart(CellsOf[t][at])

LEMMA CellsLaidOut ==
    ASSUME NEW t \in Tight, NEW at \in Nat
    PROVE  LaidOut(t, at)
<1> DEFINE S == {u \in Tight : \A a \in Nat : LaidOut(u, a)}
<1>1. ASSUME NEW u \in Tight, \A i \in 1..Count(u) : Element(u, i) \in S, NEW a \in Nat
      PROVE  LaidOut(u, a)
  <2>1. u \in Datatypes /\ u \in Meant
    BY TightParts
  <2>2. CASE u.dtype \notin ContainerTypes
    <3>1. CellsOf[u][a] = {Cell(a, u.num_bytes, << >>, Bits(u))}
      BY <2>1, <2>2, CellsOfScalar
    <3>2. u.num_bytes \in 1..8 /\ calc_size[u] = u.num_bytes /\ Bits(u) \in Int
      BY <2>1, <2>2, MeantFields, SizeOfScalar, NumbersType
    <3> DEFINE c == Cell(a, u.num_bytes, << >>, Bits(u))
    <3>3. c \in AllCells /\ c.at = a /\ c.size = u.num_bytes
      <4>1. << >> \in Seq(Nat)
        OBVIOUS
      <4>2. u.num_bytes \in Nat \ {0}
        BY <3>2
      <4> QED BY <3>2, <4>1, <4>2 DEF Cell, AllCells
    <3> HIDE DEF c
    <3>4. CellsOf[u][a] = {c}
      BY <3>1 DEF c
    <3> QED BY <3>2, <3>3, <3>4 DEF LaidOut, Within, Apart
  <2>3. CASE u.dtype \in ContainerTypes
    <3> DEFINE n == Count(u)
               b == Begins(u)
               Part(i) == CellsOf[Element(u, i)][a + b[i - 1]]
               Lying(i) == Under(<<i>>, Part(i))
    <3>1. CellsOf[u][a] = UNION {Lying(i) : i \in 1..n}
      BY <2>3, CellsOfContainer
    <3>2. n \in Nat /\ (\A i \in 0..n : b[i] \in Nat)
          /\ \A i \in 1..n : b[i] = b[i - 1] + calc_size[Element(u, i)] /\ i \in Nat
      BY <2>1, BeginsSteps, DatatypeFields DEF Count
    <3>3. calc_size[u] = b[n]
      BY <2>1, <2>3, SizeOfContainer
    <3>4. \A j \in 0..n : \A i \in 0..j : b[i] <= b[j]
      BY <2>1, BeginsGrow
    <3>5. ASSUME NEW i \in 1..n
          PROVE  Part(i) \subseteq AllCells /\ Within(Part(i), a + b[i - 1], a + b[i]) /\ Apart(Part(i))
      <4>1. i - 1 \in 0..n
        BY <3>2
      <4>2. a + b[i - 1] \in Nat
        BY <3>2, <4>1
      <4>3. LaidOut(Element(u, i), a + b[i - 1])
        BY <4>2, <1>1
      <4>4. (a + b[i - 1]) + calc_size[Element(u, i)] = a + b[i]
        <5> DEFINE x == b[i - 1]
                   y == b[i]
                   z == calc_size[Element(u, i)]
        <5>1. x \in Nat /\ y = x + z /\ z \in Nat
          BY <3>2, <4>1, TightElement, TightParts, SizeType
        <5> HIDE DEF x, y, z
        <5>2. (a + x) + z = a + y
          BY <5>1
        <5> QED BY <5>2 DEF x, y, z
      <4> HIDE DEF b
      <4> QED BY <4>3, <4>4 DEF LaidOut
    <3> HIDE DEF n, b, Part
    <3>6. ASSUME NEW c \in CellsOf[u][a]
          PROVE  \E i \in 1..n : \E d \in Part(i) :
                    /\ c \in AllCells /\ c = Moved(<<i>>, d)
                    /\ c.at = d.at /\ c.size = d.size
      <4>1. PICK i \in 1..n : c \in Lying(i)
        BY <3>1
      <4>2. <<i>> \in Seq(Nat)
        BY <3>2
      <4>3. Lying(i) \subseteq AllCells
            /\ \E d \in Part(i) : /\ c = Moved(<<i>>, d)
                                  /\ c.at = d.at /\ c.size = d.size
        <5> DEFINE path == <<i>>
                   cells == Part(i)
        <5>1. path \in Seq(Nat) /\ cells \subseteq AllCells /\ c \in Under(path, cells)
          BY <4>1, <4>2, <3>5
        <5> HIDE DEF path, cells
        <5>2. Under(path, cells) \subseteq AllCells
              /\ \E d \in cells : /\ c = Moved(path, d)
                                  /\ c.at = d.at /\ c.size = d.size
          <6>1. /\ Under(path, cells) \subseteq AllCells
                /\ \A e \in Under(path, cells) : \E d \in cells :
                      /\ e = Moved(path, d)
                      /\ e.at = d.at /\ e.size = d.size /\ e.bits = d.bits /\ e.path = path \o d.path
            BY <5>1, UnderFields
          <6> QED BY <5>1, <6>1
        <5> QED BY <5>2 DEF path, cells
      <4> QED BY <4>1, <4>3
    <3>7. CellsOf[u][a] \subseteq AllCells
      <4> HIDE DEF Lying
      <4> QED BY <3>6
    <3>8. Within(CellsOf[u][a], a, a + calc_size[u])
      <4>1. ASSUME NEW c \in CellsOf[u][a]
            PROVE  c.at \in Nat /\ c.size \in Nat \ {0} /\ a <= c.at /\ c.at + c.size <= a + b[n]
        <5>1. PICK i \in 1..n : \E d \in Part(i) : c.at = d.at /\ c.size = d.size
          BY <3>6
        <5>2. PICK d \in Part(i) : c.at = d.at /\ c.size = d.size
          BY <5>1
        <5>3. d.at \in Nat /\ d.size \in Nat \ {0} /\ a + b[i - 1] <= d.at /\ d.at + d.size <= a + b[i]
          BY <3>5 DEF Within
        <5>4. i \in 0..n /\ i - 1 \in 0..n /\ n \in 0..n
          BY <3>2
        <5>5. b[i - 1] \in Nat /\ b[i] \in Nat /\ b[n] \in Nat /\ b[i] <= b[n]
          BY <3>2, <3>4, <5>4
        <5> DEFINE x == b[i - 1]
                   y == b[i]
                   z == b[n]
        <5>6. x \in Nat /\ y \in Nat /\ z \in Nat /\ y <= z /\ a + x <= d.at /\ d.at + d.size <= a + y
          BY <5>3, <5>5
        <5> HIDE DEF x, y, z
        <5>7. a <= d.at /\ d.at + d.size <= a + z
          BY <5>6, <5>3
        <5> QED BY <5>2, <5>3, <5>7 DEF z
      <4> QED BY <4>1, <3>3 DEF Within
    <3>9. Apart(CellsOf[u][a])
      <4>1. ASSUME NEW c \in CellsOf[u][a], NEW e \in CellsOf[u][a],
                   NEW i \in 1..n, NEW j \in 1..n, i < j,
                   NEW d \in Part(i), NEW f \in Part(j), c.at = d.at, e.at = f.at
            PROVE  c.at # e.at
        <5>1. d.at \in Nat /\ d.size \in Nat \ {0} /\ d.at + d.size <= a + b[i]
          BY <3>5 DEF Within
        <5>2. f.at \in Nat /\ a + b[j - 1] <= f.at
          BY <3>5 DEF Within
        <5>3. i \in 0..(j - 1) /\ j - 1 \in 0..n /\ i \in 0..n
          BY <3>2, <4>1
        <5>4. b[i] \in Nat /\ b[j - 1] \in Nat /\ b[i] <= b[j - 1]
          BY <3>2, <3>4, <5>3
        <5> DEFINE x == b[i]
                   y == b[j - 1]
        <5>5. x \in Nat /\ y \in Nat /\ x <= y /\ a + y <= f.at /\ d.at + d.size <= a + x
          BY <5>1, <5>2, <5>4
        <5> HIDE DEF x, y
        <5>6. d.at < f.at
          BY <5>1, <5>2, <5>5
        <5> QED BY <4>1, <5>1, <5>2, <5>6
      <4>2. ASSUME NEW c \in CellsOf[u][a], NEW e \in CellsOf[u][a], c.at = e.at
            PROVE  c = e
        <5>0. \A x \in CellsOf[u][a] : \E i \in 1..n : \E d \in Part(i) :
                 x = Moved(<<i>>, d) /\ x.at = d.at
          BY <3>6
        <5>10. PICK i \in 1..n : \E d \in Part(i) : c = Moved(<<i>>, d) /\ c.at = d.at
          BY <5>0
        <5>1. PICK d \in Part(i) : c = Moved(<<i>>, d) /\ c.at = d.at
          BY <5>10
        <5>20. PICK j \in 1..n : \E f \in Part(j) : e = Moved(<<j>>, f) /\ e.at = f.at
          BY <5>0
        <5>2. PICK f \in Part(j) : e = Moved(<<j>>, f) /\ e.at = f.at
          BY <5>20
        <5>3. ~(i < j) /\ ~(j < i)
          BY <4>1, <4>2, <5>1, <5>2
        <5>4. i = j
          BY <5>3, <3>2
        <5>5. d = f
          BY <5>1, <5>2, <5>4, <4>2, <3>5 DEF Apart
        <5> QED BY <5>1, <5>2, <5>4, <5>5
      <4> QED BY <4>2 DEF Apart
    <3> QED BY <3>7, <3>8, <3>9 DEF LaidOut
  <2> QED BY <2>2, <2>3
<1>2. Tight \subseteq S
  <2>1. ASSUME NEW u \in Tight, \A i \in 1..Count(u) : Element(u, i) \in S PROVE u \in S
    BY <1>1, <2>1
  <2> HIDE DEF S
  <2> QED BY <2>1, TightInduction
<1> QED BY <1>2

-----------------------------------------------------------------------------
\* What is copied is what the record keeps.
LEMMA KeptOf ==
    ASSUME NEW t \in Datatypes, NEW data \in AllData
    PROVE  /\ t.dtype \in PointerTypes =>
                 Kept[t][data] = Value(0, data.path, 0, ~t.is_reference, data.leads, << >>)
           /\ t.dtype \notin PointerTypes \cup ContainerTypes =>
                 Kept[t][data] = Value(Field(t), data.path, 0, FALSE, data.version, << >>)
           /\ t.dtype \in ContainerTypes /\ t.is_reference => Kept[t][data] = Reference(data.at)
           /\ t.dtype \in ContainerTypes /\ ~t.is_reference =>
                 Kept[t][data] = Array([i \in 1..t.num_elements |-> Kept[Element(t, i)][DataPart(t, data, i)]])
<1> DEFINE kept == [i \in DOMAIN t.subtype |-> Kept[t.subtype[i]]]
<1>1. Kept[t] = KeptFrom(t, kept)
  BY KeptParts
<1>2. t.dtype \in PointerTypes => t.dtype \notin ContainerTypes
  BY DEF PointerTypes, StringTypes, ContainerTypes
<1>3. /\ t.dtype \in PointerTypes =>
            KeptFrom(t, kept)[data] = Value(0, data.path, 0, ~t.is_reference, data.leads, << >>)
      /\ t.dtype \notin PointerTypes \cup ContainerTypes =>
            KeptFrom(t, kept)[data] = Value(Field(t), data.path, 0, FALSE, data.version, << >>)
      /\ t.dtype \in ContainerTypes /\ t.is_reference => KeptFrom(t, kept)[data] = Reference(data.at)
      /\ t.dtype \in ContainerTypes /\ ~t.is_reference =>
            KeptFrom(t, kept)[data] = Array([i \in 1..t.num_elements |-> kept[Index(t, i)][DataPart(t, data, i)]])
  <2> HIDE DEF kept
  <2> QED BY <1>2 DEF KeptFrom
<1>4. ASSUME t.dtype \in ContainerTypes, ~t.is_reference
      PROVE  Kept[t][data] = Array([i \in 1..t.num_elements |-> Kept[Element(t, i)][DataPart(t, data, i)]])
  <2> DEFINE n == t.num_elements
             A(i) == kept[Index(t, i)][DataPart(t, data, i)]
             B(i) == Kept[Element(t, i)][DataPart(t, data, i)]
  <2>1. ASSUME NEW i \in 1..n PROVE A(i) = B(i)
    <3>1. i \in 1..Count(t)
      BY DatatypeFields DEF Count
    <3>2. Index(t, i) \in DOMAIN t.subtype
      BY <1>4, <3>1, ElementSubtype
    <3> QED BY <3>2 DEF Element
  <2>2. [i \in 1..n |-> A(i)] = [i \in 1..n |-> B(i)]
    <3> HIDE DEF A, B
    <3> QED BY <2>1
  <2>3. Kept[t][data] = Array([i \in 1..n |-> A(i)])
    <3> HIDE DEF kept
    <3> QED BY <1>1, <1>3, <1>4
  <2> HIDE DEF A, B
  <2>4. Kept[t][data] = Array([i \in 1..n |-> B(i)])
    BY <2>2, <2>3
  <2> QED BY <2>4 DEF B
<1> HIDE DEF kept
<1> QED BY <1>1, <1>3, <1>4

LEMMA DataParts ==
    ASSUME NEW t \in Datatypes, NEW data \in AllData, NEW i \in 1..Count(t)
    PROVE  /\ DataPart(t, data, i) \in AllData
           /\ DataPart(t, data, i).at = data.at + Begins(t)[i - 1]
           /\ DataPart(t, data, i).path = Append(data.path, i)
           /\ DataPart(t, data, i).version = data.version /\ DataPart(t, data, i).leads = data.leads
<1>1. Count(t) \in Nat
  BY DatatypeFields DEF Count
<1>2. i - 1 \in 0..Count(t) /\ i \in Nat
  BY <1>1
<1>3. Begins(t)[i - 1] \in Nat
  BY <1>2, BeginsSteps
<1> DEFINE at == data.at + Begins(t)[i - 1]
           path == Append(data.path, i)
<1>4. at \in Nat /\ path \in Seq(Nat)
  BY <1>2, <1>3 DEF AllData
<1>5. DataPart(t, data, i) = Data(at, path, data.version, data.leads)
  BY DEF DataPart
<1>6. data.version \in Nat /\ data.leads \in Nat
  BY DEF AllData
<1> HIDE DEF at, path
<1>7. /\ DataPart(t, data, i) \in AllData
      /\ DataPart(t, data, i).at = at /\ DataPart(t, data, i).path = path
      /\ DataPart(t, data, i).version = data.version /\ DataPart(t, data, i).leads = data.leads
  BY <1>4, <1>5, <1>6 DEF Data, AllData
<1> QED BY <1>7 DEF at, path

\* The application has an object of type t with the data in its memory.
Held(t, data) == Under(data.path, CellsOf[t][data.at]) \subseteq Memory
MemoryOK == Memory \subseteq AllCells /\ Apart(Memory)

LEMMA MovedTwice ==
    ASSUME NEW path \in Seq(Nat), NEW i \in Nat, NEW c \in AllCells
    PROVE  Moved(Append(path, i), c) = Moved(path, Moved(<<i>>, c))
<1>1. c.path \in Seq(Nat)
  BY DEF AllCells
<1>2. Append(path, i) \o c.path = path \o (<<i>> \o c.path)
  <2>1. Append(path, i) = path \o <<i>>
    BY AppendIsConcat
  <2> DEFINE one == <<i>>
             rest == c.path
  <2>2. one \in Seq(Nat) /\ rest \in Seq(Nat)
    BY <1>1
  <2> HIDE DEF one, rest
  <2>3. (path \o one) \o rest = path \o (one \o rest)
    BY <2>2, ConcatAssociative
  <2> QED BY <2>1, <2>3 DEF one, rest
<1> DEFINE p == <<i>> \o c.path
           q == Append(path, i) \o c.path
<1>3. Moved(<<i>>, c) = [c EXCEPT !.path = p]
  BY DEF Moved, AllCells
<1>4. Moved(Append(path, i), c) = [c EXCEPT !.path = q]
  BY DEF Moved, AllCells
<1>5. q = path \o p
  BY <1>2
<1> HIDE DEF p, q
<1> QED BY <1>3, <1>4, <1>5 DEF Moved, AllCells

LEMMA HeldElement ==
    ASSUME NEW t \in Tight, NEW data \in AllData, Held(t, data), NEW i \in 1..Count(t)
    PROVE  Held(Element(t, i), DataPart(t, data, i))
<1>1. t \in Datatypes /\ t.dtype \in ContainerTypes /\ Element(t, i) \in Tight
  BY TightParts, TightElement
<1>2. data.at \in Nat /\ data.path \in Seq(Nat)
  BY DEF AllData
<1> DEFINE at == data.at + Begins(t)[i - 1]
           cells == CellsOf[Element(t, i)][at]
<1>3. DataPart(t, data, i).at = at /\ DataPart(t, data, i).path = Append(data.path, i) /\ at \in Nat
  <2> DEFINE part == DataPart(t, data, i)
  <2>1. part \in AllData /\ part.at = at /\ part.path = Append(data.path, i)
    BY <1>1, DataParts
  <2> HIDE DEF part, at
  <2>2. part.at \in Nat
    BY <2>1 DEF AllData
  <2> QED BY <2>1, <2>2 DEF part
<1>4. cells \subseteq AllCells
  <2> HIDE DEF at
  <2> QED BY <1>1, <1>3, CellsLaidOut DEF LaidOut
<1>5. Under(<<i>>, cells) \subseteq CellsOf[t][data.at]
  BY <1>1, <1>2, CellsOfContainer
<1>6. i \in Nat
  BY <1>1, DatatypeFields DEF Count
<1> HIDE DEF cells
<1>7. ASSUME NEW c \in Under(Append(data.path, i), cells) PROVE c \in Memory
  <2>1. PICK d \in cells : c = Moved(Append(data.path, i), d)
    BY DEF Under
  <2>2. d \in AllCells
    BY <1>4
  <2>3. c = Moved(data.path, Moved(<<i>>, d))
    BY <1>2, <1>6, <2>1, <2>2, MovedTwice
  <2>4. Moved(<<i>>, d) \in CellsOf[t][data.at]
    BY <1>5 DEF Under
  <2>5. c \in Under(data.path, CellsOf[t][data.at])
    BY <2>3, <2>4 DEF Under
  <2> QED BY <2>5 DEF Held
<1>8. Held(Element(t, i), DataPart(t, data, i)) <=> Under(Append(data.path, i), cells) \subseteq Memory
  BY <1>3 DEF Held, cells
<1> QED BY <1>7, <1>8

\* What is loaded from the address of a scalar is its cell.
LEMMA ScalarLoaded ==
    ASSUME MemoryOK, NEW t \in Meant, t.dtype \notin ContainerTypes, NEW data \in AllData, Held(t, data)
    PROVE  Load(data.at, t.num_bytes) = Cell(data.at, t.num_bytes, data.path, Bits(t))
<1>1. t \in Datatypes /\ data.at \in Nat /\ data.path \in Seq(Nat)
  BY MeantFields DEF AllData
<1> DEFINE cell == Cell(data.at, t.num_bytes, << >>, Bits(t))
           c == Cell(data.at, t.num_bytes, data.path, Bits(t))
<1>2. CellsOf[t][data.at] = {cell}
  BY <1>1, CellsOfScalar
<1>3. Moved(data.path, cell) = c
  <2>1. data.path \o << >> = data.path
    BY <1>1
  <2> QED BY <2>1 DEF Moved, Cell
<1>4. c \in Memory
  <2> HIDE DEF cell, c
  <2> QED BY <1>2, <1>3 DEF Held, Under
<1>5. c.at = data.at /\ c.size = t.num_bytes
  BY DEF Cell
<1> HIDE DEF c
<1>6. \A d \in Memory : d.at = data.at => d = c
  BY <1>4, <1>5 DEF MemoryOK, Apart
<1> DEFINE found == {d \in Memory : d.at = data.at /\ d.size = t.num_bytes}
<1>7. found = {c}
  BY <1>4, <1>5, <1>6
<1>8. Load(data.at, t.num_bytes) = IF found = {} THEN Garbage(data.at) ELSE CHOOSE d \in found : TRUE
  BY DEF Load
<1> HIDE DEF found
<1>9. Load(data.at, t.num_bytes) = c
  BY <1>7, <1>8
<1> QED BY <1>9 DEF c

\* Small unsigned integers do not have their top bit set (section 5 of README.md says what
\* is read where they do).
NarrowLow == UnsignedHigh \cap {1, 2} = {}

\* Integers in memory are read with their sign, so they are what a scalar is as an
\* argument unless they are small and have their top bit set.
LEMMA SignRead ==
    ASSUME NarrowLow, NEW t \in Meant, t.dtype \notin ContainerTypes
    PROVE  SignExtended(t, Bits(t)) = Field(t)
<1> DEFINE half == Half(t.num_bytes)
           field == Half(FieldBytes(t))
           bits == Bits(t)
<1>1. half \in Int /\ field \in Int
  BY HalvesGrow
<1>2. CASE t.dtype \in SignedTypes
  <2>1. /\ bits = 100 \/ bits = 2 * half - 56
        /\ 128 <= half /\ half <= field
    BY <1>2, BitsFit
  <2> DEFINE number == Signed(bits, t.num_bytes)
  <2>2. number = IF bits >= half THEN bits - 2 * half ELSE bits
    BY DEF Signed
  <2>3. number < field /\ number \in Int
    <3> HIDE DEF half, field, bits, number
    <3> QED BY <1>1, <2>1, <2>2
  <2>4. Signed(number, FieldBytes(t)) = number
    <3>1. Signed(number, FieldBytes(t)) = IF number >= field THEN number - 2 * field ELSE number
      BY DEF Signed
    <3> HIDE DEF half, field, bits, number
    <3> QED BY <1>1, <2>3, <3>1
  <2>5. SignExtended(t, Bits(t)) = number /\ Field(t) = Signed(number, FieldBytes(t))
    BY <1>2 DEF SignExtended, Field, TypedNumber
  <2> QED BY <2>4, <2>5
<1>3. CASE t.dtype \in UnsignedTypes
  <2>1. t.dtype \notin SignedTypes
    BY <1>3 DEF SignedTypes, UnsignedTypes
  <2>2. SignExtended(t, Bits(t)) = Signed(bits, t.num_bytes) /\ Field(t) = Signed(bits, FieldBytes(t))
    BY <1>3, <2>1 DEF SignExtended, Field, TypedNumber
  <2>3. CASE t.num_bytes \in {1, 2}
    <3>1. bits = 100
      <4>1. t.num_bytes \notin UnsignedHigh
        BY <2>3 DEF NarrowLow
      <4>2. t.dtype # "int"
        BY <1>3 DEF UnsignedTypes
      <4> QED BY <4>1, <4>2 DEF Bits
    <3>2. 128 <= half /\ half <= field
      BY <1>3, BitsFit
    <3>3. /\ Signed(bits, t.num_bytes) = IF bits >= half THEN bits - 2 * half ELSE bits
          /\ Signed(bits, FieldBytes(t)) = IF bits >= field THEN bits - 2 * field ELSE bits
      BY DEF Signed
    <3> HIDE DEF half, field, bits
    <3> QED BY <1>1, <2>2, <3>1, <3>2, <3>3
  <2>4. CASE t.num_bytes \notin {1, 2}
    <3>1. t.num_bytes = FieldBytes(t)
      BY <1>3, <2>4, MeantWidths DEF FieldBytes
    <3> QED BY <2>2, <3>1
  <2> QED BY <2>3, <2>4
<1>4. CASE t.dtype \notin SignedTypes \cup UnsignedTypes
  BY <1>4 DEF SignExtended, Field, TypedNumber
<1> QED BY <1>2, <1>3, <1>4

\* Cast as adiak.h says, what an argument was taken into is the number it was.
LEMMA FieldRead ==
    ASSUME NEW t \in Meant, t.dtype \notin ContainerTypes
    PROVE  DocumentedNumber(t, Field(t)) = TypedNumber(t)
<1>1. CASE t.dtype \in UnsignedTypes
  <2> DEFINE half == Half(FieldBytes(t))
             bits == Bits(t)
             number == Signed(bits, FieldBytes(t))
  <2>1. t.dtype \notin SignedTypes
    BY <1>1 DEF SignedTypes, UnsignedTypes
  <2>2. Field(t) = number /\ TypedNumber(t) = bits
    BY <1>1, <2>1 DEF Field, TypedNumber
  <2>3. 0 <= bits /\ bits < 2 * half /\ bits \in Int /\ half \in Int
    <3>1. Half(t.num_bytes) \in Int /\ half \in Int
      BY HalvesGrow
    <3>2. /\ 0 <= bits /\ bits < 2 * Half(t.num_bytes) /\ Half(t.num_bytes) <= half
          /\ bits = 100 \/ bits = 2 * Half(t.num_bytes) - 56
      BY <1>1, BitsFit
    <3> DEFINE narrow == Half(t.num_bytes)
    <3> HIDE DEF half, bits, narrow
    <3> QED BY <3>1, <3>2 DEF narrow
  <2>4. number = IF bits >= half THEN bits - 2 * half ELSE bits
    BY DEF Signed
  <2>5. Unsigned(number, FieldBytes(t)) = IF number < 0 THEN number + 2 * half ELSE number
    BY DEF Unsigned
  <2>6. Unsigned(number, FieldBytes(t)) = bits
    <3> HIDE DEF half, bits, number
    <3> QED BY <2>3, <2>4, <2>5
  <2> QED BY <1>1, <2>2, <2>6 DEF DocumentedNumber
<1>2. CASE t.dtype \notin UnsignedTypes
  <2>1. DocumentedNumber(t, Field(t)) = Field(t)
    BY <1>2 DEF DocumentedNumber
  <2>2. CASE t.dtype \in SignedTypes
    <3> DEFINE half == Half(t.num_bytes)
               field == Half(FieldBytes(t))
               bits == Bits(t)
               number == Signed(bits, t.num_bytes)
    <3>1. half \in Int /\ field \in Int
      BY HalvesGrow
    <3>2. /\ bits = 100 \/ bits = 2 * half - 56
          /\ 128 <= half /\ half <= field
      BY <2>2, BitsFit
    <3>3. number = IF bits >= half THEN bits - 2 * half ELSE bits
      BY DEF Signed
    <3>4. TypedNumber(t) = number /\ Field(t) = Signed(number, FieldBytes(t))
      BY <2>2 DEF TypedNumber, Field
    <3>5. Signed(number, FieldBytes(t)) = IF number >= field THEN number - 2 * field ELSE number
      BY DEF Signed
    <3> HIDE DEF half, field, bits, number
    <3>6. number \in Int /\ number < field
      BY <3>1, <3>2, <3>3
    <3> QED BY <2>1, <3>1, <3>4, <3>5, <3>6
  <2>3. CASE t.dtype \notin SignedTypes
    BY <1>2, <2>1, <2>3 DEF Field, TypedNumber
  <2> QED BY <2>2, <2>3
<1> QED BY <1>1, <1>2

LEMMA PointerRead ==
    ASSUME NEW t, t.dtype \in PointerTypes, NEW number
    PROVE  DocumentedNumber(t, number) = number
BY DEF DocumentedNumber, PointerTypes, StringTypes, UnsignedTypes

LEMMA CopyOfOther ==
    ASSUME NEW t \in Datatypes, NEW at \in Nat, t.dtype \notin ContainerTypes \/ t.is_reference
    PROVE  /\ t.dtype \in PointerTypes =>
                 /\ copy_value[t][at].value = Pointer(Load(at, t.num_bytes), ~t.is_reference)
                 /\ copy_value[t][at].bytes = 8
           /\ t.dtype \in ContainerTypes =>
                 /\ copy_value[t][at].value = Reference(at)
                 /\ copy_value[t][at].bytes = calc_size[t]
           /\ t.dtype \notin PointerTypes \cup ContainerTypes =>
                 /\ copy_value[t][at].value
                        = Numeric(Load(at, t.num_bytes), SignExtended(t, Load(at, t.num_bytes).bits))
                 /\ copy_value[t][at].bytes = t.num_bytes
<1> DEFINE copies == [i \in DOMAIN t.subtype |-> copy_value[t.subtype[i]]]
           copied == CopyFrom(t, copies)[at]
<1>1. copy_value[t] = CopyFrom(t, copies)
  BY CopyParts
<1>2. t.dtype \in PointerTypes => t.dtype \notin ContainerTypes
  BY DEF PointerTypes, StringTypes, ContainerTypes
<1>3. ASSUME t.dtype \in PointerTypes
      PROVE  copied = Copied(Pointer(Load(at, t.num_bytes), ~t.is_reference), 8,
                             IF t.is_reference THEN {} ELSE {<< >>})
  <2>1. t.dtype \notin ContainerTypes
    BY <1>2, <1>3
  <2> HIDE DEF copies
  <2>2. \E cell : /\ cell = Load(at, t.num_bytes)
                  /\ CopyFrom(t, copies)[at] = Copied(Pointer(cell, ~t.is_reference), 8,
                                                      IF t.is_reference THEN {} ELSE {<< >>})
    BY <2>1, <1>3 DEF CopyFrom
  <2> QED BY <2>2
<1>4. ASSUME t.dtype \in ContainerTypes
      PROVE  copied = Copied(Reference(at), calc_size[t], {})
  <2>1. t.is_reference /\ t.dtype \notin PointerTypes
    BY <1>2, <1>4
  <2> HIDE DEF copies
  <2>2. CopyFrom(t, copies)[at] = Copied(Reference(at), calc_size[t], {})
    BY <2>1, <1>4 DEF CopyFrom
  <2> QED BY <2>2
<1>5. ASSUME t.dtype \notin PointerTypes \cup ContainerTypes
      PROVE  copied = Copied(Numeric(Load(at, t.num_bytes), SignExtended(t, Load(at, t.num_bytes).bits)),
                             t.num_bytes, {})
  <2> HIDE DEF copies
  <2>1. \E cell : /\ cell = Load(at, t.num_bytes)
                  /\ CopyFrom(t, copies)[at]
                         = Copied(Numeric(cell, SignExtended(t, cell.bits)), t.num_bytes, {})
    BY <1>5 DEF CopyFrom
  <2> QED BY <2>1
<1>6. copy_value[t][at] = copied
  BY <1>1
<1>7. \A x, y, z : Copied(x, y, z).value = x /\ Copied(x, y, z).bytes = y
  BY DEF Copied
<1> HIDE DEF copied
<1> QED BY <1>3, <1>4, <1>5, <1>6, <1>7

\* Data that the application has now.
Now(data) == data.version = object /\ data.leads = targets

CopiedAsKept(t, data) ==
    copy_value[t][data.at].value = Kept[t][data] /\ copy_value[t][data.at].bytes = calc_size[t]

LEMMA ScalarKept ==
    ASSUME MemoryOK, NarrowLow, NEW t \in Meant, t.dtype \notin ContainerTypes,
           NEW data \in AllData, Held(t, data), Now(data)
    PROVE  CopiedAsKept(t, data)
<1>1. t \in Datatypes /\ data.at \in Nat /\ calc_size[t] = t.num_bytes
  BY MeantFields, SizeOfScalar DEF AllData
<1> DEFINE cell == Cell(data.at, t.num_bytes, data.path, Bits(t))
<1>2. Load(data.at, t.num_bytes) = cell
  BY ScalarLoaded
<1>3. cell.path = data.path /\ cell.bits = Bits(t)
  BY DEF Cell
<1> HIDE DEF cell
<1>4. CASE t.dtype \in PointerTypes
  <2>1. copy_value[t][data.at].value = Pointer(cell, ~t.is_reference) /\ copy_value[t][data.at].bytes = 8
    BY <1>1, <1>2, <1>4, CopyOfOther
  <2>2. t.num_bytes = 8
    BY <1>4, MeantFields
  <2>3. Pointer(cell, ~t.is_reference) = Value(0, data.path, 0, ~t.is_reference, data.leads, << >>)
    BY <1>3 DEF Pointer, Now
  <2>4. Kept[t][data] = Value(0, data.path, 0, ~t.is_reference, data.leads, << >>)
    BY <1>1, <1>4, KeptOf
  <2> QED BY <1>1, <2>1, <2>2, <2>3, <2>4 DEF CopiedAsKept
<1>5. CASE t.dtype \notin PointerTypes
  <2>1. copy_value[t][data.at].value = Numeric(cell, SignExtended(t, Bits(t)))
        /\ copy_value[t][data.at].bytes = t.num_bytes
    BY <1>1, <1>2, <1>3, <1>5, CopyOfOther
  <2>2. SignExtended(t, Bits(t)) = Field(t)
    BY SignRead
  <2>3. Numeric(cell, Field(t)) = Value(Field(t), data.path, 0, FALSE, data.version, << >>)
    BY <1>3 DEF Numeric, Now
  <2>4. Kept[t][data] = Value(Field(t), data.path, 0, FALSE, data.version, << >>)
    BY <1>1, <1>5, KeptOf
  <2> QED BY <1>1, <2>1, <2>2, <2>3, <2>4 DEF CopiedAsKept
<1> QED BY <1>4, <1>5

\* One step of copying a container.
LEMMA CopyStep ==
    ASSUME NEW t, NEW at, NEW upTo, CopiesUpTo(upTo, t, at), NEW i \in 0..t.num_elements, i # 0
    PROVE  upTo[i] = [subs |-> Append(upTo[i - 1].subs, copy_value[Element(t, i)][at + upTo[i - 1].bytes].value),
                      bytes |-> upTo[i - 1].bytes + copy_value[Element(t, i)][at + upTo[i - 1].bytes].bytes,
                      blocks |-> upTo[i - 1].blocks
                                     \cup Inside(i, copy_value[Element(t, i)][at + upTo[i - 1].bytes].blocks)]
BY DEF CopiesUpTo

\* The elements of a container that is copied.
LEMMA ElementsKept ==
    ASSUME NEW t \in Datatypes, t.dtype \in ContainerTypes, NEW data \in AllData,
           NEW upTo, CopiesUpTo(upTo, t, data.at), Count(t) = t.num_elements,
           \A i \in 1..t.num_elements : CopiedAsKept(Element(t, i), DataPart(t, data, i))
    PROVE  /\ upTo[t.num_elements].bytes = calc_size[t]
           /\ upTo[t.num_elements].subs
                  = [i \in 1..t.num_elements |-> Kept[Element(t, i)][DataPart(t, data, i)]]
<1> DEFINE n == t.num_elements
           b == Begins(t)
           One(i) == Kept[Element(t, i)][DataPart(t, data, i)]
           Good(i) == /\ upTo[i].bytes = b[i] /\ Len(upTo[i].subs) = i
                      /\ \E V : upTo[i].subs \in Seq(V)
                      /\ \A j \in 1..i : upTo[i].subs[j] = One(j)
           S == {i \in 0..n : Good(i)}
<1>1. n \in Nat /\ n = Count(t)
  BY DatatypeFields
<1>2. Good(0)
  <2>1. upTo[0] = [subs |-> << >>, bytes |-> 0, blocks |-> {<< >>}]
    BY <1>1 DEF CopiesUpTo
  <2>2. b[0] = 0
    BY BeginsSteps
  <2>3. << >> \in Seq({}) /\ Len(<< >>) = 0
    OBVIOUS
  <2> HIDE DEF One, b
  <2> QED BY <2>1, <2>2, <2>3
<1>3. ASSUME NEW i \in 1..n, Good(i - 1) PROVE Good(i)
  <2>1. i \in 0..n /\ i # 0 /\ i - 1 \in 0..n /\ i \in 1..Count(t)
    BY <1>1
  <2> DEFINE before == upTo[i - 1]
             at == data.at
             one == copy_value[Element(t, i)][at + before.bytes]
  <2>2. upTo[i] = [subs |-> Append(before.subs, one.value), bytes |-> before.bytes + one.bytes,
                   blocks |-> before.blocks \cup Inside(i, one.blocks)]
    <3>1. CopiesUpTo(upTo, t, at) /\ i \in 0..t.num_elements /\ i # 0
      BY <2>1
    <3> HIDE DEF at
    <3>2. upTo[i] = [subs |-> Append(upTo[i - 1].subs, copy_value[Element(t, i)][at + upTo[i - 1].bytes].value),
                     bytes |-> upTo[i - 1].bytes + copy_value[Element(t, i)][at + upTo[i - 1].bytes].bytes,
                     blocks |-> upTo[i - 1].blocks
                                    \cup Inside(i, copy_value[Element(t, i)][at + upTo[i - 1].bytes].blocks)]
      BY <3>1, CopyStep
    <3> QED BY <3>2
  <2>3. before.bytes = b[i - 1] /\ Len(before.subs) = i - 1
        /\ (\E V : before.subs \in Seq(V)) /\ \A j \in 1..(i - 1) : before.subs[j] = One(j)
    BY <1>3
  <2>4. CopiedAsKept(Element(t, i), DataPart(t, data, i))
    OBVIOUS
  <2>5. DataPart(t, data, i).at = data.at + b[i - 1]
    BY <2>1, DataParts
  <2>6. one.value = One(i) /\ one.bytes = calc_size[Element(t, i)]
    BY <2>3, <2>4, <2>5 DEF CopiedAsKept
  <2>7. b[i] = b[i - 1] + calc_size[Element(t, i)]
    BY <2>1, BeginsSteps
  <2> HIDE DEF before, one, b, One
  <2>8. upTo[i].bytes = b[i] /\ upTo[i].subs = Append(before.subs, one.value)
    BY <2>2, <2>3, <2>6, <2>7
  <2>9. PICK V : before.subs \in Seq(V)
    BY <2>3
  <2> DEFINE x == one.value
             s == before.subs
  <2>10. s \in Seq(V \cup {x}) /\ Len(s) = i - 1 /\ x = One(i)
    <3>1. s \in Seq(V)
      BY <2>9
    <3>2. s \in Seq(V \cup {x})
      <4> HIDE DEF s, x
      <4> QED BY <3>1
    <3> QED BY <2>3, <2>6, <3>2
  <2>11. upTo[i].subs = Append(s, x) /\ \A j \in 1..(i - 1) : s[j] = One(j)
    BY <2>3, <2>8
  <2> HIDE DEF s, x
  <2>12. Append(s, x) \in Seq(V \cup {x}) /\ Len(Append(s, x)) = i
    BY <2>1, <2>10
  <2>13. ASSUME NEW j \in 1..i PROVE Append(s, x)[j] = One(j)
    <3>1. CASE j = i
      BY <3>1, <2>1, <2>10
    <3>2. CASE j # i
      <4>1. j \in 1..(i - 1) /\ j \in 1..Len(s)
        BY <3>2, <2>1, <2>10
      <4>2. Append(s, x)[j] = s[j]
        BY <4>1, <2>10
      <4> QED BY <4>1, <4>2, <2>11
    <3> QED BY <3>1, <3>2
  <2> QED BY <2>8, <2>11, <2>12, <2>13
<1>4. \A i \in 0..n : Good(i)
  <2>1. S \subseteq 0..n /\ 0 \in 0..n
    BY <1>1
  <2>2. 0 \in S /\ \A i \in 1..n : i - 1 \in S => i \in S
    <3> HIDE DEF Good
    <3> QED BY <1>1, <1>2, <1>3, <2>1
  <2>3. \A i \in 0..n : i \in S
    <3> HIDE DEF S, n
    <3> QED BY <1>1, <2>1, <2>2, Induction
  <2> HIDE DEF Good
  <2> QED BY <2>3
<1>5. Good(n)
  <2>1. n \in 0..n
    BY <1>1
  <2> HIDE DEF Good, n
  <2> QED BY <1>4, <2>1
<1>6. upTo[n].bytes = calc_size[t]
  <2>1. calc_size[t] = b[n]
    BY <1>1, SizeOfContainer
  <2> QED BY <1>5, <2>1
<1>7. upTo[n].subs = [i \in 1..n |-> One(i)]
  <2> DEFINE s == upTo[n].subs
  <2>1. Len(s) = n /\ (\E V : s \in Seq(V)) /\ \A j \in 1..n : s[j] = One(j)
    BY <1>5
  <2> HIDE DEF s, One, n
  <2>2. s = [i \in 1..n |-> s[i]]
    BY <2>1
  <2>3. [i \in 1..n |-> s[i]] = [i \in 1..n |-> One(i)]
    BY <2>1
  <2> QED BY <2>2, <2>3 DEF s
<1> QED BY <1>6, <1>7

\* copy_value leaves what the record keeps, and has read as much as calc_size says.
LEMMA CopyIsKept ==
    ASSUME MemoryOK, NarrowLow, NEW t \in Tight, NEW data \in AllData, Held(t, data), Now(data)
    PROVE  CopiedAsKept(t, data)
<1> DEFINE S == {u \in Tight : \A d \in AllData : Held(u, d) /\ Now(d) => CopiedAsKept(u, d)}
<1>1. ASSUME NEW u \in Tight, \A i \in 1..Count(u) : Element(u, i) \in S,
             NEW d \in AllData, Held(u, d), Now(d)
      PROVE  CopiedAsKept(u, d)
  <2>1. u \in Datatypes /\ u \in Meant /\ d.at \in Nat
    BY TightParts DEF AllData
  <2>2. CASE u.dtype \notin ContainerTypes
    BY <1>1, <2>1, <2>2, ScalarKept
  <2>3. CASE u.dtype \in ContainerTypes /\ u.is_reference
    <3>1. copy_value[u][d.at].value = Reference(d.at) /\ copy_value[u][d.at].bytes = calc_size[u]
      BY <2>1, <2>3, CopyOfOther
    <3>2. Kept[u][d] = Reference(d.at)
      BY <2>1, <2>3, KeptOf
    <3> QED BY <3>1, <3>2 DEF CopiedAsKept
  <2>4. CASE u.dtype \in ContainerTypes /\ ~u.is_reference
    <3> DEFINE n == u.num_elements
    <3>1. Count(u) = n
      BY <2>1, <2>4, MeantFields
    <3>2. ASSUME NEW i \in 1..n PROVE CopiedAsKept(Element(u, i), DataPart(u, d, i))
      <4>1. i \in 1..Count(u)
        BY <3>1
      <4>2. DataPart(u, d, i) \in AllData /\ Now(DataPart(u, d, i))
        BY <2>1, <4>1, <1>1, DataParts DEF Now
      <4>3. Held(Element(u, i), DataPart(u, d, i))
        BY <4>1, <1>1, HeldElement
      <4> QED BY <4>1, <4>2, <4>3, <1>1
    <3>3. \A i \in 1..n : \A a \in Nat : copy_value[Element(u, i)][a].bytes \in Nat
      <4>1. \A i \in 1..n : Element(u, i) \in Datatypes
        BY <3>1, TightElement, TightParts
      <4> QED BY <4>1, CopiesAreFreed DEF CopiedAsFreed
    <3>4. PICK upTo : /\ CopiesUpTo(upTo, u, d.at)
                      /\ copy_value[u][d.at] = Copied(Array(upTo[n].subs), upTo[n].bytes, upTo[n].blocks)
      BY <2>1, <2>4, <3>3, CopyOfContainer
    <3>5. upTo[n].bytes = calc_size[u]
          /\ upTo[n].subs = [i \in 1..n |-> Kept[Element(u, i)][DataPart(u, d, i)]]
      BY <2>1, <2>4, <3>1, <3>2, <3>4, ElementsKept
    <3>6. Kept[u][d] = Array([i \in 1..n |-> Kept[Element(u, i)][DataPart(u, d, i)]])
      BY <2>1, <2>4, KeptOf
    <3> HIDE DEF n
    <3> QED BY <3>4, <3>5, <3>6 DEF CopiedAsKept, Copied
  <2> QED BY <2>2, <2>3, <2>4
<1>2. Tight \subseteq S
  <2>1. ASSUME NEW u \in Tight, \A i \in 1..Count(u) : Element(u, i) \in S PROVE u \in S
    BY <1>1, <2>1
  <2> HIDE DEF S
  <2> QED BY <2>1, TightInduction
<1> QED BY <1>2

-----------------------------------------------------------------------------
\* What is kept is a value.
Subvalues(v) == v.subs
NestedValues == INSTANCE Nesting WITH
    MaxDepth <- MaxLength, Over <- ValuesOver, Parts <- Subvalues, Step <- Nothing

LEMMA ValueLevels ==
    /\ \A d \in 0..MaxLength : ValuesUpTo[d] = ValuesOver(IF d = 0 THEN {} ELSE ValuesUpTo[d - 1])
    /\ Values \subseteq ValuesOver(Values)
<1>1. ASSUME NEW S, NEW T, S \subseteq T PROVE ValuesOver(S) \subseteq ValuesOver(T)
  <2> SUFFICES ASSUME NEW v \in ValuesOver(S) PROVE v \in ValuesOver(T)
    OBVIOUS
  <2>1. v.subs \in Seq(T)
    BY <1>1 DEF ValuesOver
  <2> QED BY <2>1 DEF ValuesOver
<1>2. ASSUME NEW S, NEW v \in ValuesOver(S), NEW i \in DOMAIN Subvalues(v) PROVE Subvalues(v)[i] \in S
  BY DEF ValuesOver, Subvalues
<1>3. NestedValues!Nested
  BY <1>1, <1>2, LengthAssumption DEF NestedValues!Nested
<1>4. NestedValues!All = Values /\ NestedValues!UpTo = ValuesUpTo
  BY DEF NestedValues!All, NestedValues!UpTo, Values, ValuesUpTo
<1>5. Values \subseteq ValuesOver(Values)
  BY <1>3, <1>4, NestedValues!StructuresOverAll
<1>6. NestedValues!Levels(ValuesUpTo, MaxLength)
  BY <1>4, NestedValues!LevelsExist, LengthAssumption
<1> QED BY <1>5, <1>6 DEF NestedValues!Levels

LEMMA ValueFields ==
    ASSUME NEW v \in Values
    PROVE  /\ v.number \in Int /\ v.path \in Seq(Int) /\ v.at \in Int /\ v.own \in BOOLEAN
           /\ v.version \in Nat /\ v.subs \in Seq(Values)
BY ValueLevels DEF ValuesOver

\* Values without elements.
LEMMA LeafValue ==
    ASSUME NEW S, NEW number \in Int, NEW path \in Seq(Int), NEW at \in Int, NEW own \in BOOLEAN,
           NEW version \in Nat
    PROVE  Value(number, path, at, own, version, << >>) \in ValuesOver(S)
<1>1. << >> \in Seq(S)
  OBVIOUS
<1> QED BY <1>1 DEF Value, ValuesOver

LEMMA ReferenceValue ==
    ASSUME NEW at \in Int
    PROVE  Reference(at) \in Values /\ Reference(at).at = at /\ Reference(at).subs = << >>
<1>1. MaxLength \in 0..MaxLength
  BY LengthAssumption
<1>2. Values = ValuesOver(IF MaxLength = 0 THEN {} ELSE ValuesUpTo[MaxLength - 1])
  BY <1>1, ValueLevels DEF Values
<1>3. << >> \in Seq(Int) /\ 0 \in Int /\ 0 \in Nat
  OBVIOUS
<1> DEFINE none == << >>
           zero == 0
           no == FALSE
           S == IF MaxLength = 0 THEN {} ELSE ValuesUpTo[MaxLength - 1]
<1>4. none \in Seq(Int) /\ zero \in Int /\ zero \in Nat /\ no \in BOOLEAN
  BY <1>3
<1>5. Reference(at) = Value(zero, none, at, no, zero, << >>)
  BY DEF Reference
<1>6. Values = ValuesOver(S)
  BY <1>2
<1> HIDE DEF none, zero, no, S
<1>7. Reference(at) \in ValuesOver(S)
  BY <1>4, <1>5, LeafValue
<1>8. Reference(at).at = at /\ Reference(at).subs = << >>
  BY DEF Reference, Value
<1> QED BY <1>6, <1>7, <1>8

LEMMA SubIsValue ==
    ASSUME NEW v \in Values, NEW i
    PROVE  Sub(v, i) \in Values
<1>1. CASE i \in DOMAIN v.subs
  BY <1>1, ValueFields DEF Sub
<1>2. CASE i \notin DOMAIN v.subs
  BY <1>2, ReferenceValue DEF Sub
<1> QED BY <1>1, <1>2

LEMMA KeptAtLevel ==
    ASSUME NEW d \in 0..MaxLength,
           d # 0 => \A t \in TypesUpTo[d - 1] : \A data \in AllData : Kept[t][data] \in ValuesUpTo[d - 1],
           NEW t \in TypesUpTo[d], NEW data \in AllData
    PROVE  Kept[t][data] \in ValuesUpTo[d]
<1> DEFINE types == IF d = 0 THEN {} ELSE TypesUpTo[d - 1]
           S == IF d = 0 THEN {} ELSE ValuesUpTo[d - 1]
<1>1. t \in Datatypes /\ t \in TypesOver(types)
  BY TypesWithin, TypesLevel
<1>2. ValuesUpTo[d] = ValuesOver(S)
  BY ValueLevels
<1>3. \A u \in types : \A e \in AllData : Kept[u][e] \in S
  OBVIOUS
<1> HIDE DEF types, S
<1>4. /\ data.at \in Nat /\ data.path \in Seq(Nat) /\ data.version \in Nat /\ data.leads \in Nat
      /\ t.is_reference \in BOOLEAN /\ Field(t) \in Int /\ t.num_elements \in Nat
  BY <1>1, DatatypeFields, NumbersType DEF AllData
<1> DEFINE none == << >>
           zero == 0
           no == FALSE
           path == data.path
           own == ~t.is_reference
           number == Field(t)
           at == data.at
           version == data.version
           leads == data.leads
<1>5. /\ none \in Seq(Int) /\ zero \in Int /\ zero \in Nat /\ no \in BOOLEAN /\ path \in Seq(Int)
      /\ own \in BOOLEAN /\ number \in Int /\ at \in Int /\ version \in Nat /\ leads \in Nat
  <2>1. data.path \in Seq(Int)
    BY <1>4
  <2> QED BY <1>4, <2>1
<1>6. CASE t.dtype \in PointerTypes
  <2>1. Kept[t][data] = Value(zero, path, zero, own, leads, << >>)
    BY <1>1, <1>6, KeptOf
  <2> HIDE DEF zero, path, own, leads
  <2> QED BY <1>2, <1>5, <2>1, LeafValue
<1>7. CASE t.dtype \notin PointerTypes \cup ContainerTypes
  <2>1. Kept[t][data] = Value(number, path, zero, no, version, << >>)
    BY <1>1, <1>7, KeptOf
  <2> HIDE DEF zero, path, number, no, version
  <2> QED BY <1>2, <1>5, <2>1, LeafValue
<1>8. CASE t.dtype \in ContainerTypes /\ t.is_reference
  <2>1. Kept[t][data] = Value(zero, none, at, no, zero, << >>)
    BY <1>1, <1>8, KeptOf DEF Reference
  <2> HIDE DEF zero, none, at, no
  <2> QED BY <1>2, <1>5, <2>1, LeafValue
<1>9. CASE t.dtype \in ContainerTypes /\ ~t.is_reference
  <2> DEFINE n == t.num_elements
             subs == [i \in 1..n |-> Kept[Element(t, i)][DataPart(t, data, i)]]
  <2>1. Kept[t][data] = Array(subs)
    BY <1>1, <1>9, KeptOf
  <2>2. ASSUME NEW i \in 1..n PROVE Kept[Element(t, i)][DataPart(t, data, i)] \in S
    <3>1. i \in 1..Count(t)
      BY <1>1, DatatypeFields DEF Count
    <3>2. Index(t, i) \in DOMAIN t.subtype
      BY <1>1, <1>9, <3>1, ElementSubtype
    <3>3. Element(t, i) \in types
      BY <1>1, <3>2 DEF TypesOver, Element
    <3>4. DataPart(t, data, i) \in AllData
      BY <1>1, <3>1, DataParts
    <3> QED BY <1>3, <3>3, <3>4
  <2>3. subs \in Seq(S)
    <3>1. n \in Nat
      BY <1>4
    <3> HIDE DEF n
    <3> QED BY <2>2, <3>1
  <2> HIDE DEF subs
  <2>4. Array(subs) \in ValuesOver(S)
    BY <2>3 DEF Array, Value, ValuesOver
  <2> QED BY <1>2, <2>1, <2>4
<1> QED BY <1>6, <1>7, <1>8, <1>9

LEMMA KeptType ==
    ASSUME NEW t \in Datatypes, NEW data \in AllData
    PROVE  Kept[t][data] \in Values
<1> DEFINE S == {d \in 0..MaxLength : \A u \in TypesUpTo[d] : \A e \in AllData : Kept[u][e] \in ValuesUpTo[d]}
<1>0. MaxLength \in Nat
  BY LengthAssumption
<1>1. ASSUME NEW d \in 0..MaxLength, d # 0 => d - 1 \in S PROVE d \in S
  <2>1. d # 0 => \A u \in TypesUpTo[d - 1] : \A e \in AllData : Kept[u][e] \in ValuesUpTo[d - 1]
    BY <1>1
  <2> QED BY <2>1, KeptAtLevel
<1>2. MaxLength \in S
  <2>1. S \subseteq 0..MaxLength
    OBVIOUS
  <2> HIDE DEF S
  <2>2. 0 \in S /\ \A d \in 1..MaxLength : d - 1 \in S => d \in S
    BY <1>0, <1>1
  <2>3. \A d \in 0..MaxLength : d \in S
    BY <1>0, <2>1, <2>2, Induction
  <2> QED BY <2>3, <1>0
<1> QED BY <1>2 DEF Datatypes, Values

-----------------------------------------------------------------------------
\* Leaves by their place in the value and their path in the object.
PathIn(path, leaf) == [leaf EXCEPT !.path = path \o @]
Prefixed(path, leaves) == {PathIn(path, leaf) : leaf \in leaves}
InElement(i, leaf) == [leaf EXCEPT !.place = <<i>> \o @, !.path = <<i>> \o @]
InElements(i, leaves) == {InElement(i, leaf) : leaf \in leaves}
AtPlace(i, leaf) == [leaf EXCEPT !.place = <<i>> \o @]

IsLeaf(leaf) ==
    \E place \in Seq(Nat) : \E path \in Seq(Nat) : \E number, version :
        leaf = Leaf(place, path, number, version)
AreLeaves(leaves) == \A leaf \in leaves : IsLeaf(leaf)

LEMMA PlaceOfLeaves == \A i, leaves : LeavesInside(i, leaves) = {AtPlace(i, leaf) : leaf \in leaves}
BY DEF LeavesInside, AtPlace

LEMMA PathOfLeaf ==
    ASSUME NEW place, NEW rest, NEW number, NEW version, NEW path
    PROVE  PathIn(path, Leaf(place, rest, number, version)) = Leaf(place, path \o rest, number, version)
<1> DEFINE leaf == Leaf(place, rest, number, version)
           end == path \o leaf.path
<1>1. PathIn(path, leaf) = [leaf EXCEPT !.path = end]
  BY DEF PathIn
<1>2. leaf.path = rest
  BY DEF Leaf
<1> HIDE DEF end
<1>3. [leaf EXCEPT !.path = end] = Leaf(place, end, number, version)
  BY DEF Leaf
<1> QED BY <1>1, <1>2, <1>3 DEF end

LEMMA PlaceOfLeaf ==
    ASSUME NEW place, NEW rest, NEW number, NEW version, NEW i
    PROVE  AtPlace(i, Leaf(place, rest, number, version)) = Leaf(<<i>> \o place, rest, number, version)
<1> DEFINE leaf == Leaf(place, rest, number, version)
           deeper == <<i>> \o leaf.place
<1>1. AtPlace(i, leaf) = [leaf EXCEPT !.place = deeper]
  BY DEF AtPlace
<1>2. leaf.place = place
  BY DEF Leaf
<1> HIDE DEF deeper
<1>3. [leaf EXCEPT !.place = deeper] = Leaf(deeper, rest, number, version)
  BY DEF Leaf
<1> QED BY <1>1, <1>2, <1>3 DEF deeper

LEMMA LeafInElement ==
    ASSUME NEW place, NEW rest, NEW number, NEW version, NEW i
    PROVE  InElement(i, Leaf(place, rest, number, version))
               = Leaf(<<i>> \o place, <<i>> \o rest, number, version)
<1> DEFINE leaf == Leaf(place, rest, number, version)
           longer == <<i>> \o leaf.path
           deeper == <<i>> \o leaf.place
<1>1. InElement(i, leaf) = [leaf EXCEPT !.place = deeper, !.path = longer]
  BY DEF InElement
<1>2. leaf.path = rest /\ leaf.place = place
  BY DEF Leaf
<1> HIDE DEF longer, deeper
<1>3. [leaf EXCEPT !.place = deeper] = Leaf(deeper, rest, number, version)
  BY DEF Leaf
<1> DEFINE lower == Leaf(deeper, rest, number, version)
<1>4. [lower EXCEPT !.path = longer] = Leaf(deeper, longer, number, version)
  BY DEF Leaf
<1> HIDE DEF leaf, lower
<1>5. [leaf EXCEPT !.place = deeper, !.path = longer] = [lower EXCEPT !.path = longer]
  BY <1>3 DEF lower
<1> QED BY <1>1, <1>2, <1>4, <1>5 DEF longer, deeper, leaf

\* The path of an element's leaves, and then their place in the container.
LEMMA LeafMoved ==
    ASSUME NEW path \in Seq(Nat), NEW i \in Nat, NEW leaf, IsLeaf(leaf)
    PROVE  /\ AtPlace(i, PathIn(Append(path, i), leaf)) = PathIn(path, InElement(i, leaf))
           /\ IsLeaf(InElement(i, leaf))
<1>1. PICK place \in Seq(Nat) : \E rest \in Seq(Nat) : \E number, version :
               leaf = Leaf(place, rest, number, version)
  BY DEF IsLeaf
<1>2. PICK rest \in Seq(Nat) : \E number, version : leaf = Leaf(place, rest, number, version)
  BY <1>1
<1>3. PICK number, version : leaf = Leaf(place, rest, number, version)
  BY <1>2
<1> DEFINE one == <<i>>
           longer == one \o rest
           deeper == one \o place
<1>4. one \in Seq(Nat) /\ longer \in Seq(Nat) /\ deeper \in Seq(Nat)
  BY <1>1, <1>2
<1>5. Append(path, i) \o rest = path \o longer
  <2>1. Append(path, i) = path \o one
    BY AppendIsConcat
  <2> HIDE DEF one
  <2>2. (path \o one) \o rest = path \o (one \o rest)
    BY <1>2, <1>4, ConcatAssociative
  <2> QED BY <2>1, <2>2
<1> DEFINE end == Append(path, i) \o rest
<1>6. PathIn(Append(path, i), leaf) = Leaf(place, end, number, version)
  BY <1>3, PathOfLeaf
<1>7. InElement(i, leaf) = Leaf(deeper, longer, number, version)
  BY <1>3, LeafInElement
<1>8. end = path \o longer
  BY <1>5
<1> HIDE DEF longer, end
<1>9. AtPlace(i, Leaf(place, end, number, version)) = Leaf(deeper, end, number, version)
  BY PlaceOfLeaf
<1> HIDE DEF deeper, one
<1>10. PathIn(path, Leaf(deeper, longer, number, version)) = Leaf(deeper, end, number, version)
  BY <1>8, PathOfLeaf
<1>11. IsLeaf(InElement(i, leaf))
  BY <1>4, <1>7 DEF IsLeaf
<1> QED BY <1>6, <1>7, <1>9, <1>10, <1>11

LEMMA ElementLeaves ==
    ASSUME NEW path \in Seq(Nat), NEW i \in Nat, NEW leaves, AreLeaves(leaves)
    PROVE  /\ LeavesInside(i, Prefixed(Append(path, i), leaves)) = Prefixed(path, InElements(i, leaves))
           /\ AreLeaves(InElements(i, leaves))
<1>1. LeavesInside(i, Prefixed(Append(path, i), leaves))
          = {AtPlace(i, leaf) : leaf \in Prefixed(Append(path, i), leaves)}
  BY PlaceOfLeaves
<1>2. \A leaf \in leaves : /\ AtPlace(i, PathIn(Append(path, i), leaf)) = PathIn(path, InElement(i, leaf))
                           /\ IsLeaf(InElement(i, leaf))
  BY LeafMoved DEF AreLeaves
<1>3. {AtPlace(i, leaf) : leaf \in Prefixed(Append(path, i), leaves)}
          = {AtPlace(i, PathIn(Append(path, i), leaf)) : leaf \in leaves}
  BY DEF Prefixed
<1>4. {AtPlace(i, PathIn(Append(path, i), leaf)) : leaf \in leaves}
          = {PathIn(path, InElement(i, leaf)) : leaf \in leaves}
  BY <1>2
<1>5. {PathIn(path, InElement(i, leaf)) : leaf \in leaves} = Prefixed(path, InElements(i, leaves))
  BY DEF Prefixed, InElements
<1>6. AreLeaves(InElements(i, leaves))
  BY <1>2 DEF AreLeaves, InElements
<1> QED BY <1>1, <1>3, <1>4, <1>5, <1>6

\* The leaf of a scalar.
Here(number, version) == {Leaf(<< >>, << >>, number, version)}
Alone(path, number, version) == {Leaf(<< >>, path, number, version)}

LEMMA ScalarLeaf ==
    ASSUME NEW path \in Seq(Nat), NEW number, NEW version
    PROVE  Prefixed(path, Here(number, version)) = Alone(path, number, version)
<1> DEFINE none == << >>
<1>1. path \o none = path /\ none \in Seq(Nat)
  OBVIOUS
<1> HIDE DEF none
<1>2. PathIn(path, Leaf(none, none, number, version)) = Leaf(none, path, number, version)
  <2>1. PathIn(path, Leaf(none, none, number, version)) = Leaf(none, path \o none, number, version)
    BY PathOfLeaf
  <2>2. Leaf(none, path \o none, number, version) = Leaf(none, path, number, version)
    BY <1>1, Zenon
  <2> QED BY <2>1, <2>2, Zenon
<1>3. Prefixed(path, {Leaf(none, none, number, version)}) = {Leaf(none, path, number, version)}
  BY <1>2 DEF Prefixed
<1> QED BY <1>3 DEF none, Here, Alone

LEMMA ScalarIsLeaf ==
    ASSUME NEW number, NEW version
    PROVE  AreLeaves(Here(number, version))
<1> DEFINE none == << >>
<1>1. none \in Seq(Nat)
  OBVIOUS
<1> HIDE DEF none
<1>2. IsLeaf(Leaf(none, none, number, version))
  BY <1>1 DEF IsLeaf
<1>3. AreLeaves({Leaf(none, none, number, version)})
  BY <1>2 DEF AreLeaves
<1> QED BY <1>3 DEF none, Here

-----------------------------------------------------------------------------
\* What is promised of a datatype, and what is seen of a value.
LEMMA PromisedOf ==
    ASSUME NEW t \in Datatypes, NEW r \in BOOLEAN
    PROVE  /\ t.dtype \in ContainerTypes =>
                 Promised[t][r] = UNION {InElements(i, Promised[Element(t, i)][r \/ t.is_reference]) :
                                         i \in 1..Count(t)}
           /\ t.dtype \in PointerTypes =>
                 Promised[t][r] = {Leaf(<< >>, << >>, 0, IF r \/ t.is_reference THEN targets ELSE since[2])}
           /\ t.dtype \notin PointerTypes \cup ContainerTypes =>
                 Promised[t][r] = {Leaf(<< >>, << >>, TypedNumber(t),
                                        IF r \/ t.is_reference THEN object ELSE since[1])}
<1> DEFINE promised == [i \in DOMAIN t.subtype |-> Promised[t.subtype[i]]]
           n == Count(t)
           A(i) == {[leaf EXCEPT !.place = <<i>> \o @, !.path = <<i>> \o @] :
                        leaf \in promised[Index(t, i)][r \/ t.is_reference]}
           B(i) == InElements(i, Promised[Element(t, i)][r \/ t.is_reference])
<1>1. Promised[t][r] = PromisedFrom(t, promised)[r]
  BY PromisedParts
<1>2. t.dtype \in PointerTypes => t.dtype \notin ContainerTypes
  BY DEF PointerTypes, StringTypes, ContainerTypes
<1>3. ASSUME t.dtype \in ContainerTypes PROVE Promised[t][r] = UNION {B(i) : i \in 1..n}
  <2>1. PromisedFrom(t, promised)[r] = UNION {A(i) : i \in 1..n}
    <3> HIDE DEF promised
    <3> QED BY <1>3 DEF PromisedFrom
  <2>2. ASSUME NEW i \in 1..n PROVE A(i) = B(i)
    <3>1. Index(t, i) \in DOMAIN t.subtype
      BY <1>3, ElementSubtype
    <3>2. promised[Index(t, i)] = Promised[Element(t, i)]
      BY <3>1 DEF Element
    <3> HIDE DEF promised
    <3> QED BY <3>2 DEF InElements, InElement
  <2> HIDE DEF A, B, promised
  <2> QED BY <1>1, <2>1, <2>2
<1>4. /\ t.dtype \in PointerTypes =>
            PromisedFrom(t, promised)[r] = {Leaf(<< >>, << >>, 0, IF r \/ t.is_reference THEN targets ELSE since[2])}
      /\ t.dtype \notin PointerTypes \cup ContainerTypes =>
            PromisedFrom(t, promised)[r] = {Leaf(<< >>, << >>, TypedNumber(t),
                                                 IF r \/ t.is_reference THEN object ELSE since[1])}
  <2> HIDE DEF promised
  <2> QED BY <1>2 DEF PromisedFrom
<1> HIDE DEF promised
<1> QED BY <1>1, <1>3, <1>4

LEMMA SeenOf ==
    ASSUME NEW t \in Datatypes, NEW v \in Values
    PROVE  /\ t.dtype \in ContainerTypes =>
                 Seen[t][v] = UNION {LeavesInside(i, Seen[Element(t, i)][adiak_get_subval(t, v, i)]) :
                                     i \in 1..Count(t)}
           /\ t.dtype \notin ContainerTypes =>
                 Seen[t][v] = {Leaf(<< >>, v.path, DocumentedNumber(t, v.number),
                                    IF t.dtype \in PointerTypes /\ ~v.own THEN targets ELSE v.version)}
<1> DEFINE seen == [i \in DOMAIN t.subtype |-> Seen[t.subtype[i]]]
           n == Count(t)
           A(i) == LeavesInside(i, seen[Index(t, i)][adiak_get_subval(t, v, i)])
           B(i) == LeavesInside(i, Seen[Element(t, i)][adiak_get_subval(t, v, i)])
<1>1. Seen[t][v] = SeenFrom(t, seen)[v]
  BY SeenParts
<1>2. ASSUME t.dtype \in ContainerTypes PROVE Seen[t][v] = UNION {B(i) : i \in 1..n}
  <2>1. SeenFrom(t, seen)[v] = UNION {A(i) : i \in 1..n}
    <3> HIDE DEF seen
    <3> QED BY <1>2 DEF SeenFrom
  <2>2. ASSUME NEW i \in 1..n PROVE A(i) = B(i)
    <3>1. Index(t, i) \in DOMAIN t.subtype
      BY <1>2, ElementSubtype
    <3> QED BY <3>1 DEF Element
  <2> HIDE DEF A, B, seen
  <2> QED BY <1>1, <2>1, <2>2
<1>3. t.dtype \notin ContainerTypes =>
         SeenFrom(t, seen)[v] = {Leaf(<< >>, v.path, DocumentedNumber(t, v.number),
                                      IF t.dtype \in PointerTypes /\ ~v.own THEN targets ELSE v.version)}
  <2> HIDE DEF seen
  <2> QED BY DEF SeenFrom, LeafOf
<1> HIDE DEF seen
<1> QED BY <1>1, <1>2, <1>3

LEMMA PromisedLeaves ==
    ASSUME NEW t \in Tight, NEW r \in BOOLEAN
    PROVE  AreLeaves(Promised[t][r])
<1> DEFINE S == {u \in Tight : \A q \in BOOLEAN : AreLeaves(Promised[u][q])}
<1>1. ASSUME NEW u \in Tight, \A i \in 1..Count(u) : Element(u, i) \in S, NEW q \in BOOLEAN
      PROVE  AreLeaves(Promised[u][q])
  <2>1. u \in Datatypes /\ u.is_reference \in BOOLEAN
    BY TightParts, DatatypeFields
  <2>2. << >> \in Seq(Nat)
    OBVIOUS
  <2>3. CASE u.dtype \in ContainerTypes
    <3> DEFINE inner == q \/ u.is_reference
               n == Count(u)
               F(i) == InElements(i, Promised[Element(u, i)][inner])
    <3>1. Promised[u][q] = UNION {F(i) : i \in 1..n}
      BY <2>1, <2>3, PromisedOf
    <3>2. ASSUME NEW i \in 1..n PROVE AreLeaves(F(i))
      <4>1. i \in Nat
        BY <2>1, DatatypeFields DEF Count
      <4>2. inner \in BOOLEAN
        OBVIOUS
      <4> DEFINE leaves == Promised[Element(u, i)][inner]
                 none == << >>
      <4>3. AreLeaves(leaves) /\ none \in Seq(Nat)
        BY <1>1, <2>2, <4>2
      <4> HIDE DEF leaves, none
      <4>4. AreLeaves(InElements(i, leaves))
        BY <4>1, <4>3, ElementLeaves
      <4> QED BY <4>4 DEF leaves
    <3> HIDE DEF F
    <3> QED BY <3>1, <3>2 DEF AreLeaves
  <2>4. CASE u.dtype \in PointerTypes
    <3> DEFINE number == 0
               version == IF q \/ u.is_reference THEN targets ELSE since[2]
    <3>1. Promised[u][q] = {Leaf(<< >>, << >>, number, version)}
      BY <2>1, <2>4, PromisedOf
    <3> HIDE DEF number, version
    <3>2. AreLeaves(Here(number, version))
      BY ScalarIsLeaf
    <3> QED BY <3>1, <3>2 DEF Here
  <2>5. CASE u.dtype \notin PointerTypes \cup ContainerTypes
    <3> DEFINE number == TypedNumber(u)
               version == IF q \/ u.is_reference THEN object ELSE since[1]
    <3>1. Promised[u][q] = {Leaf(<< >>, << >>, number, version)}
      BY <2>1, <2>5, PromisedOf
    <3> HIDE DEF number, version
    <3>2. AreLeaves(Here(number, version))
      BY ScalarIsLeaf
    <3> QED BY <3>1, <3>2 DEF Here
  <2> QED BY <2>3, <2>4, <2>5
<1>2. Tight \subseteq S
  <2>1. ASSUME NEW u \in Tight, \A i \in 1..Count(u) : Element(u, i) \in S PROVE u \in S
    BY <1>1, <2>1
  <2> HIDE DEF S
  <2> QED BY <2>1, TightInduction
<1> QED BY <1>2

\* If every element shows what is promised of it, the container does.
LEMMA ContainerSeen ==
    ASSUME NEW t \in Tight, t.dtype \in ContainerTypes, NEW v \in Values, NEW data \in AllData,
           NEW r \in BOOLEAN,
           \A i \in 1..Count(t) :
               Seen[Element(t, i)][adiak_get_subval(t, v, i)]
                   = Prefixed(DataPart(t, data, i).path, Promised[Element(t, i)][r \/ t.is_reference])
    PROVE  Seen[t][v] = Prefixed(data.path, Promised[t][r])
<1> DEFINE n == Count(t)
           q == r \/ t.is_reference
           path == data.path
           A(i) == LeavesInside(i, Seen[Element(t, i)][adiak_get_subval(t, v, i)])
           B(i) == InElements(i, Promised[Element(t, i)][q])
<1>1. t \in Datatypes /\ t.is_reference \in BOOLEAN /\ path \in Seq(Nat) /\ q \in BOOLEAN
  BY TightParts, DatatypeFields DEF AllData
<1>2. Seen[t][v] = UNION {A(i) : i \in 1..n}
  BY <1>1, SeenOf
<1>3. Promised[t][r] = UNION {B(i) : i \in 1..n}
  BY <1>1, PromisedOf
<1>4. ASSUME NEW i \in 1..n PROVE A(i) = Prefixed(path, B(i))
  <2>1. i \in Nat
    BY <1>1, DatatypeFields DEF Count
  <2> DEFINE leaves == Promised[Element(t, i)][q]
  <2>2. AreLeaves(leaves)
    <3> HIDE DEF q
    <3> QED BY <1>1, TightElement, PromisedLeaves
  <2>3. A(i) = LeavesInside(i, Prefixed(Append(path, i), leaves))
    BY <1>1, DataParts
  <2> HIDE DEF leaves, path, A
  <2>4. LeavesInside(i, Prefixed(Append(path, i), leaves)) = Prefixed(path, InElements(i, leaves))
    BY <1>1, <2>1, <2>2, ElementLeaves
  <2> QED BY <2>3, <2>4 DEF leaves
<1> HIDE DEF A, B, n, path
<1>5. Prefixed(path, UNION {B(i) : i \in 1..n}) = UNION {Prefixed(path, B(i)) : i \in 1..n}
  <2> DEFINE all == UNION {B(i) : i \in 1..n}
             each == UNION {Prefixed(path, B(i)) : i \in 1..n}
  <2>1. ASSUME NEW x \in Prefixed(path, all) PROVE x \in each
    <3>1. PICK leaf \in all : x = PathIn(path, leaf)
      BY DEF Prefixed
    <3>2. PICK i \in 1..n : leaf \in B(i)
      OBVIOUS
    <3>3. x \in Prefixed(path, B(i))
      BY <3>1, <3>2 DEF Prefixed
    <3> QED BY <3>3
  <2>2. ASSUME NEW x \in each PROVE x \in Prefixed(path, all)
    <3>1. PICK i \in 1..n : x \in Prefixed(path, B(i))
      OBVIOUS
    <3>2. PICK leaf \in B(i) : x = PathIn(path, leaf)
      BY <3>1 DEF Prefixed
    <3>3. leaf \in all
      BY <3>2
    <3> QED BY <3>2, <3>3 DEF Prefixed
  <2> QED BY <2>1, <2>2
<1>6. Seen[t][v] = Prefixed(path, Promised[t][r])
  BY <1>2, <1>3, <1>4, <1>5
<1> QED BY <1>6 DEF path

-----------------------------------------------------------------------------
\* What a tool sees of data that are in the application's memory: the data as they are
\* now.
CanRead == MemoryOK /\ NarrowLow /\ object \in Nat /\ targets \in Nat

LEMMA LoadedSeen ==
    ASSUME CanRead, NEW t \in Tight, t.dtype \notin ContainerTypes, NEW data \in AllData, Held(t, data),
           NEW cell, cell = Load(data.at, t.num_bytes), NEW r \in BOOLEAN, r
    PROVE  /\ t.dtype \in PointerTypes =>
                 Seen[t][Pointer(cell, FALSE)] = Prefixed(data.path, Promised[t][r])
           /\ t.dtype \notin PointerTypes =>
                 Seen[t][Numeric(cell, SignExtended(t, cell.bits))] = Prefixed(data.path, Promised[t][r])
<1>1. t \in Datatypes /\ t \in Meant /\ data.path \in Seq(Nat)
  BY TightParts DEF AllData
<1>2. cell = Cell(data.at, t.num_bytes, data.path, Bits(t))
  BY <1>1, ScalarLoaded DEF CanRead
<1>3. cell.path = data.path /\ cell.bits = Bits(t)
  BY <1>2 DEF Cell
<1>4. SignExtended(t, cell.bits) = Field(t) /\ Field(t) \in Int
  BY <1>1, <1>3, SignRead, NumbersType DEF CanRead
<1>5. << >> \in Seq(Values) /\ data.path \in Seq(Int)
  BY <1>1
<1> DEFINE path == data.path
           zero == 0
           no == FALSE
<1>6. path \in Seq(Nat) /\ path \in Seq(Int) /\ zero \in Int /\ zero \in Nat /\ no \in BOOLEAN
      /\ object \in Nat /\ targets \in Nat
  BY <1>1, <1>5 DEF CanRead
<1>7. \E S : Values = ValuesOver(S)
  <2>1. MaxLength \in 0..MaxLength
    BY LengthAssumption
  <2> QED BY <2>1, ValueLevels DEF Values
<1>8. ASSUME t.dtype \in PointerTypes
      PROVE  Seen[t][Pointer(cell, FALSE)] = Prefixed(path, Promised[t][r])
  <2> DEFINE v == Pointer(cell, FALSE)
  <2>1. v = Value(zero, path, zero, no, targets, << >>)
    BY <1>3 DEF Pointer
  <2>2. v \in Values
    <3> HIDE DEF v, zero, path, no
    <3> QED BY <1>6, <1>7, <2>1, LeafValue
  <2>3. v.path = path /\ DocumentedNumber(t, v.number) = zero /\ ~v.own
    <3>1. v.path = path /\ v.number = zero /\ ~v.own
      <4> HIDE DEF path, v
      <4> QED BY <2>1 DEF Value
    <3> QED BY <1>8, <3>1, PointerRead
  <2>4. Seen[t][v] = {Leaf(<< >>, path, zero, targets)}
    <3> HIDE DEF v, path, zero
    <3> QED BY <1>1, <1>8, <2>2, <2>3, SeenOf
  <2>5. Promised[t][r] = {Leaf(<< >>, << >>, zero, targets)}
    BY <1>1, <1>8, PromisedOf
  <2> HIDE DEF v, path, zero
  <2>6. Prefixed(path, Here(zero, targets)) = Alone(path, zero, targets)
    BY <1>6, ScalarLeaf
  <2>7. Seen[t][v] = Prefixed(path, Promised[t][r])
    BY <2>4, <2>5, <2>6 DEF Here, Alone
  <2> QED BY <2>7 DEF v
<1>9. ASSUME t.dtype \notin PointerTypes
      PROVE  Seen[t][Numeric(cell, SignExtended(t, cell.bits))] = Prefixed(path, Promised[t][r])
  <2> DEFINE number == TypedNumber(t)
             field == Field(t)
             v == Numeric(cell, SignExtended(t, cell.bits))
  <2>1. v = Value(field, path, zero, no, object, << >>)
    BY <1>3, <1>4 DEF Numeric
  <2>2. v \in Values
    <3>1. field \in Int
      BY <1>4
    <3> HIDE DEF v, zero, path, no, field
    <3> QED BY <1>6, <1>7, <2>1, <3>1, LeafValue
  <2>3. v.path = path /\ DocumentedNumber(t, v.number) = number /\ v.version = object
    <3>1. v.path = path /\ v.number = field /\ v.version = object
      <4> HIDE DEF path, v, field
      <4> QED BY <2>1 DEF Value
    <3> QED BY <1>1, <3>1, FieldRead
  <2>4. Seen[t][v] = {Leaf(<< >>, path, number, object)}
    <3> HIDE DEF v, path, number
    <3> QED BY <1>1, <1>9, <2>2, <2>3, SeenOf
  <2>5. Promised[t][r] = {Leaf(<< >>, << >>, number, object)}
    BY <1>1, <1>9, PromisedOf
  <2> HIDE DEF v, path, number
  <2>6. Prefixed(path, Here(number, object)) = Alone(path, number, object)
    BY <1>6, ScalarLeaf
  <2>7. Seen[t][v] = Prefixed(path, Promised[t][r])
    BY <2>4, <2>5, <2>6 DEF Here, Alone
  <2> QED BY <2>7 DEF v
<1> QED BY <1>8, <1>9

\* Of a container that is kept as a reference.
LEMMA ReferenceSeen ==
    ASSUME CanRead, NEW t \in Tight, t.dtype \in ContainerTypes, t.is_reference,
           NEW data \in AllData, Held(t, data), NEW r \in BOOLEAN
    PROVE  Seen[t][Reference(data.at)] = Prefixed(data.path, Promised[t][r])
<1> DEFINE S == {u \in Tight : u.dtype \in ContainerTypes /\ u.is_reference =>
                    \A d \in AllData : Held(u, d) =>
                        \A q \in BOOLEAN : Seen[u][Reference(d.at)] = Prefixed(d.path, Promised[u][q])}
<1>1. ASSUME NEW u \in Tight, \A i \in 1..Count(u) : Element(u, i) \in S,
             u.dtype \in ContainerTypes, u.is_reference,
             NEW d \in AllData, Held(u, d), NEW q \in BOOLEAN
      PROVE  Seen[u][Reference(d.at)] = Prefixed(d.path, Promised[u][q])
  <2> DEFINE v == Reference(d.at)
             inner == q \/ u.is_reference
  <2>1. u \in Datatypes /\ u \in Meant /\ d.at \in Int
    BY TightParts DEF AllData
  <2>2. v \in Values /\ v.at = d.at
    <3> DEFINE at == d.at
    <3>1. at \in Int
      BY <2>1
    <3> HIDE DEF at
    <3>2. Reference(at) \in Values /\ Reference(at).at = at
      BY <3>1, ReferenceValue
    <3> QED BY <3>2 DEF at
  <2>3. inner /\ inner \in BOOLEAN
    BY <1>1
  <2> HIDE DEF v
  <2>4. ASSUME NEW i \in 1..Count(u)
        PROVE  Seen[Element(u, i)][adiak_get_subval(u, v, i)]
                   = Prefixed(DataPart(u, d, i).path, Promised[Element(u, i)][q \/ u.is_reference])
    <3> DEFINE e == Element(u, i)
               part == DataPart(u, d, i)
               sub == adiak_get_subval(u, v, i)
               cell == Load(part.at, e.num_bytes)
    <3>1. e \in Tight /\ part \in AllData /\ Held(e, part) /\ part.at = d.at + Begins(u)[i - 1]
      BY <1>1, <2>1, TightElement, DataParts, HeldElement
    <3>2. sub = SubAt(u, v, i, part.at)
      BY <1>1, <2>1, <2>2, <3>1, SubvalPlace
    <3>3. e.dtype \in ContainerTypes => e.is_reference
      <4>1. Index(u, i) \in DOMAIN u.subtype
        BY TightElement
      <4> QED BY <1>1, <2>1, <4>1, MeantFields DEF Element
    <3>4. CASE e.dtype \in ContainerTypes
      <4>1. sub = Reference(part.at)
        <5>1. e.dtype \notin PointerTypes
          BY <3>4 DEF PointerTypes, StringTypes, ContainerTypes
        <5>2. SubAt(u, v, i, part.at) = Reference(part.at)
          BY <1>1, <3>4, <5>1 DEF SubAt
        <5> QED BY <3>2, <5>2
      <4>2. e \in S
        BY <1>1
      <4> HIDE DEF inner, sub, part, e
      <4>3. Seen[e][Reference(part.at)] = Prefixed(part.path, Promised[e][inner])
        BY <2>3, <3>1, <3>3, <3>4, <4>2
      <4>4. Seen[e][sub] = Prefixed(part.path, Promised[e][inner])
        BY <4>1, <4>3
      <4> QED BY <4>4 DEF inner, sub, part, e
    <3>5. CASE e.dtype \notin ContainerTypes
      <4>1. /\ e.dtype \in PointerTypes => sub = Pointer(cell, FALSE)
            /\ e.dtype \notin PointerTypes => sub = Numeric(cell, SignExtended(e, cell.bits))
        <5>1. \E c : /\ c = Load(part.at, e.num_bytes)
                     /\ e.dtype \in PointerTypes => SubAt(u, v, i, part.at) = Pointer(c, FALSE)
                     /\ e.dtype \notin PointerTypes => SubAt(u, v, i, part.at) = Numeric(c, SignExtended(e, c.bits))
          BY <1>1, <3>5 DEF SubAt
        <5> QED BY <3>2, <5>1
      <4> HIDE DEF inner, sub, part, e, cell
      <4>2. /\ e.dtype \in PointerTypes =>
                  Seen[e][Pointer(cell, FALSE)] = Prefixed(part.path, Promised[e][inner])
            /\ e.dtype \notin PointerTypes =>
                  Seen[e][Numeric(cell, SignExtended(e, cell.bits))] = Prefixed(part.path, Promised[e][inner])
        BY <1>1, <2>3, <3>1, <3>5, LoadedSeen DEF cell
      <4>3. Seen[e][sub] = Prefixed(part.path, Promised[e][inner])
        BY <4>1, <4>2
      <4> QED BY <4>3 DEF inner, sub, part, e
    <3> QED BY <3>4, <3>5
  <2>5. Seen[u][v] = Prefixed(d.path, Promised[u][q])
    BY <1>1, <2>2, <2>4, ContainerSeen
  <2> QED BY <2>5 DEF v
<1>2. Tight \subseteq S
  <2>1. ASSUME NEW u \in Tight, \A i \in 1..Count(u) : Element(u, i) \in S PROVE u \in S
    BY <1>1, <2>1
  <2> HIDE DEF S
  <2> QED BY <2>1, TightInduction
<1> QED BY <1>2

-----------------------------------------------------------------------------
\* What a tool sees of what a record keeps: copies as old as the registration.
LEMMA ReferencesInside ==
    ASSUME NEW t \in Datatypes, NEW dtypes
    PROVE  /\ t.is_reference /\ t.dtype \in dtypes => HasReference(t, dtypes)
           /\ \A j \in DOMAIN t.subtype : HasReference(t.subtype[j], dtypes) => HasReference(t, dtypes)
<1> DEFINE references == [i \in DOMAIN t.subtype |-> References[t.subtype[i]]]
<1>1. References[t] = ReferencesFrom(t, references)
  BY ReferencesParts
<1>2. t.is_reference => t.dtype \in References[t]
  <2> HIDE DEF references
  <2> QED BY <1>1 DEF ReferencesFrom
<1>3. ASSUME NEW j \in DOMAIN t.subtype PROVE References[t.subtype[j]] \subseteq References[t]
  <2>1. references[j] = References[t.subtype[j]] /\ j \in DOMAIN references
    OBVIOUS
  <2>2. references[j] \in Range(references)
    <3> HIDE DEF references
    <3> QED BY <2>1 DEF Range
  <2> HIDE DEF references
  <2> QED BY <1>1, <2>1, <2>2 DEF ReferencesFrom
<1> QED BY <1>2, <1>3 DEF HasReference

\* What has references to the application's data is where it was.
Retained(t, data) == HasReference(t, ContainerTypes) => CanRead /\ Held(t, data)
Registered(data) == data.version = since[1] /\ data.leads = since[2]

LEMMA KeptSeen ==
    ASSUME NEW t \in Tight, NEW data \in AllData, Registered(data), Retained(t, data), NEW r \in BOOLEAN, ~r
    PROVE  Seen[t][Kept[t][data]] = Prefixed(data.path, Promised[t][r])
<1> DEFINE S == {u \in Tight : \A d \in AllData : Registered(d) /\ Retained(u, d) =>
                    Seen[u][Kept[u][d]] = Prefixed(d.path, Promised[u][r])}
<1>1. ASSUME NEW u \in Tight, \A i \in 1..Count(u) : Element(u, i) \in S,
             NEW d \in AllData, Registered(d), Retained(u, d)
      PROVE  Seen[u][Kept[u][d]] = Prefixed(d.path, Promised[u][r])
  <2> DEFINE v == Kept[u][d]
             path == d.path
  <2>1. u \in Datatypes /\ u \in Meant /\ path \in Seq(Nat) /\ u.is_reference \in BOOLEAN
    BY TightParts, DatatypeFields DEF AllData
  <2>2. v \in Values
    BY <2>1, KeptType
  <2>3. CASE u.dtype \in PointerTypes
    <3> DEFINE zero == 0
               version == IF u.is_reference THEN targets ELSE since[2]
    <3>1. u.dtype \notin ContainerTypes
      BY <2>3 DEF PointerTypes, StringTypes, ContainerTypes
    <3>2. v = Value(zero, path, zero, ~u.is_reference, since[2], << >>)
      BY <1>1, <2>1, <2>3, KeptOf DEF Registered
    <3>3. v.path = path /\ DocumentedNumber(u, v.number) = zero /\ v.own = ~u.is_reference /\ v.version = since[2]
      <4>1. v.path = path /\ v.number = zero /\ v.own = ~u.is_reference /\ v.version = since[2]
        <5> HIDE DEF v, path
        <5> QED BY <3>2 DEF Value
      <4> QED BY <2>3, <4>1, PointerRead
    <3>4. Seen[u][v] = {Leaf(<< >>, path, zero, version)}
      <4> HIDE DEF v, path, zero
      <4>1. Seen[u][v] = {Leaf(<< >>, v.path, DocumentedNumber(u, v.number),
                               IF u.dtype \in PointerTypes /\ ~v.own THEN targets ELSE v.version)}
        BY <2>1, <2>2, <3>1, SeenOf
      <4> QED BY <2>1, <2>3, <3>3, <4>1
    <3>5. Promised[u][r] = {Leaf(<< >>, << >>, zero, version)}
      BY <2>1, <2>3, PromisedOf
    <3> HIDE DEF v, path, zero, version
    <3>6. Prefixed(path, Here(zero, version)) = Alone(path, zero, version)
      BY <2>1, ScalarLeaf
    <3>7. Seen[u][v] = Prefixed(path, Promised[u][r])
      BY <3>4, <3>5, <3>6 DEF Here, Alone
    <3> QED BY <3>7 DEF v, path
  <2>4. CASE u.dtype \notin PointerTypes \cup ContainerTypes
    <3> DEFINE number == TypedNumber(u)
               version == since[1]
    <3>1. ~u.is_reference
      BY <2>1, <2>4, MeantFields
    <3> DEFINE field == Field(u)
    <3>2. v = Value(field, path, 0, FALSE, version, << >>)
      BY <1>1, <2>1, <2>4, KeptOf DEF Registered
    <3>3. v.path = path /\ DocumentedNumber(u, v.number) = number /\ v.version = version
      <4>1. v.path = path /\ v.number = field /\ v.version = version
        <5> HIDE DEF v, path, field, version
        <5> QED BY <3>2 DEF Value
      <4> QED BY <2>1, <2>4, <4>1, FieldRead
    <3>4. Seen[u][v] = {Leaf(<< >>, path, number, version)}
      <4> HIDE DEF v, path, number, version
      <4>1. Seen[u][v] = {Leaf(<< >>, v.path, DocumentedNumber(u, v.number),
                               IF u.dtype \in PointerTypes /\ ~v.own THEN targets ELSE v.version)}
        BY <2>1, <2>2, <2>4, SeenOf
      <4> QED BY <2>4, <3>3, <4>1
    <3>5. Promised[u][r] = {Leaf(<< >>, << >>, number, version)}
      BY <2>1, <2>4, <3>1, PromisedOf
    <3> HIDE DEF v, path, number, version
    <3>6. Prefixed(path, Here(number, version)) = Alone(path, number, version)
      BY <2>1, ScalarLeaf
    <3>7. Seen[u][v] = Prefixed(path, Promised[u][r])
      BY <3>4, <3>5, <3>6 DEF Here, Alone
    <3> QED BY <3>7 DEF v, path
  <2>5. CASE u.dtype \in ContainerTypes /\ u.is_reference
    <3>1. v = Reference(d.at)
      BY <2>1, <2>5, KeptOf
    <3>2. CanRead /\ Held(u, d)
      <4> DEFINE containers == ContainerTypes
      <4>1. HasReference(u, containers)
        <5> HIDE DEF containers
        <5>1. u.dtype \in containers
          BY <2>5 DEF containers
        <5> QED BY <2>1, <2>5, <5>1, ReferencesInside
      <4> QED BY <1>1, <4>1 DEF Retained
    <3> QED BY <2>5, <3>1, <3>2, ReferenceSeen
  <2>6. CASE u.dtype \in ContainerTypes /\ ~u.is_reference
    <3> DEFINE n == u.num_elements
               kept == [i \in 1..n |-> Kept[Element(u, i)][DataPart(u, d, i)]]
    <3>1. Count(u) = n
      BY <2>1, <2>6, MeantFields
    <3>2. v = Array(kept)
      BY <2>1, <2>6, KeptOf
    <3>3. ASSUME NEW i \in 1..Count(u)
          PROVE  Seen[Element(u, i)][adiak_get_subval(u, v, i)]
                     = Prefixed(DataPart(u, d, i).path, Promised[Element(u, i)][r \/ u.is_reference])
      <4> DEFINE e == Element(u, i)
                 part == DataPart(u, d, i)
                 inner == r \/ u.is_reference
      <4>1. e \in Tight /\ part \in AllData /\ Registered(part)
        BY <1>1, <2>1, TightElement, DataParts DEF Registered
      <4>2. Retained(e, part)
        <5> DEFINE containers == ContainerTypes
        <5>1. HasReference(e, containers) => HasReference(u, containers)
          <6>1. Index(u, i) \in DOMAIN u.subtype
            BY TightElement
          <6> HIDE DEF containers
          <6> QED BY <2>1, <6>1, ReferencesInside DEF Element
        <5>2. Held(u, d) => Held(e, part)
          BY HeldElement
        <5> HIDE DEF e, part
        <5> QED BY <1>1, <5>1, <5>2 DEF Retained
      <4>3. adiak_get_subval(u, v, i) = Kept[e][part]
        <5>1. i \in 1..n /\ kept[i] = Kept[e][part] /\ DOMAIN kept = 1..n
          BY <3>1
        <5> HIDE DEF kept
        <5>2. v.subs = kept
          BY <3>2 DEF Array, Value
        <5>3. Sub(v, i) = kept[i]
          <6> HIDE DEF v
          <6> QED BY <5>1, <5>2 DEF Sub
        <5>4. adiak_get_subval(u, v, i) = Sub(v, i)
          <6> HIDE DEF v
          <6> QED BY <2>1, <2>6, SubvalPlace DEF SubAt
        <5> QED BY <5>1, <5>3, <5>4
      <4>4. inner = r
        BY <2>6
      <4>5. e \in S
        BY <1>1
      <4> HIDE DEF e, part, v
      <4>6. Seen[e][Kept[e][part]] = Prefixed(part.path, Promised[e][r])
        BY <4>1, <4>2, <4>5
      <4>7. Seen[e][adiak_get_subval(u, v, i)] = Prefixed(part.path, Promised[e][inner])
        BY <4>3, <4>4, <4>6
      <4> QED BY <4>7 DEF e, part
    <3> HIDE DEF v
    <3> QED BY <2>2, <2>6, <3>3, ContainerSeen DEF v
  <2> QED BY <2>3, <2>4, <2>5, <2>6
<1>2. Tight \subseteq S
  <2>1. ASSUME NEW u \in Tight, \A i \in 1..Count(u) : Element(u, i) \in S PROVE u \in S
    BY <1>1, <2>1
  <2> HIDE DEF S
  <2> QED BY <2>1, TightInduction
<1> QED BY <1>2

-----------------------------------------------------------------------------
\* The object that the application has registered.
NoPath == << >>
Start == 0
ObjectData(version, leads) == Data(Start, NoPath, version, leads)

LEMMA ObjectDataType ==
    ASSUME NEW version \in Nat, NEW leads \in Nat
    PROVE  /\ ObjectData(version, leads) \in AllData
           /\ ObjectData(version, leads).at = Start /\ ObjectData(version, leads).path = NoPath
           /\ ObjectData(version, leads).version = version /\ ObjectData(version, leads).leads = leads
           /\ Start \in Nat /\ NoPath \in Seq(Nat)
<1>1. Start \in Nat /\ NoPath \in Seq(Nat)
  BY DEF Start, NoPath
<1> QED BY <1>1 DEF ObjectData, Data, AllData

LEMMA ObjectHeld ==
    ASSUME NEW t \in Tight, Memory = CellsOf[t][Start], NEW version \in Nat, NEW leads \in Nat
    PROVE  MemoryOK /\ Held(t, ObjectData(version, leads))
<1>1. Start \in Nat
  BY ObjectDataType
<1>2. LaidOut(t, Start)
  BY <1>1, CellsLaidOut
<1>3. MemoryOK
  BY <1>2 DEF LaidOut, MemoryOK
<1>4. ASSUME NEW c \in AllCells PROVE Moved(NoPath, c) = c
  <2>1. c.path \in Seq(Nat)
    BY DEF AllCells
  <2>2. NoPath \o c.path = c.path
    BY <2>1 DEF NoPath
  <2> DEFINE path == NoPath \o c.path
  <2>3. Moved(NoPath, c) = [c EXCEPT !.path = path]
    BY DEF Moved, AllCells
  <2>4. path = c.path
    BY <2>2
  <2> HIDE DEF path
  <2> QED BY <2>3, <2>4 DEF AllCells
<1>5. Under(NoPath, CellsOf[t][Start]) \subseteq Memory
  BY <1>3, <1>4 DEF Under, MemoryOK
<1>6. Held(t, ObjectData(version, leads))
  BY <1>5, ObjectDataType DEF Held
<1> QED BY <1>3, <1>6

\* adiak_namevalue keeps the data of the object.
LEMMA NewValueKept ==
    ASSUME object \in Nat, targets \in Nat, NarrowLow,
           NEW t \in Tight, Memory = CellsOf[t][Start]
    PROVE  NewValue(t).value = Kept[t][ObjectData(object, targets)]
<1> DEFINE data == ObjectData(object, targets)
<1>1. t \in Datatypes /\ t \in Meant
  BY TightParts
<1>2. data \in AllData /\ data.at = Start /\ data.path = NoPath /\ Now(data)
  BY ObjectDataType DEF Now
<1>3. data.version = object /\ data.leads = targets
  BY <1>2 DEF Now
<1>4. MemoryOK /\ Held(t, data)
  BY ObjectHeld
<1> HIDE DEF data
<1>5. CASE t.dtype \in ContainerTypes
  <2>1. NewValue(t) = copy_value[t][0]
    <3>1. t.dtype \notin PointerTypes
      BY <1>5 DEF ContainerTypes, PointerTypes, StringTypes
    <3> QED BY <1>5, <3>1 DEF NewValue
  <2>2. CopiedAsKept(t, data)
    BY <1>2, <1>4, CopyIsKept
  <2> QED BY <1>2, <2>1, <2>2 DEF CopiedAsKept, Start, data
<1>6. CASE t.dtype \in PointerTypes
  <2>1. t.dtype \notin ContainerTypes /\ t.num_bytes = 8
    BY <1>1, <1>6, MeantFields DEF ContainerTypes, PointerTypes, StringTypes
  <2> DEFINE cell == Load(data.at, t.num_bytes)
  <2>2. NewValue(t) = Copied(Pointer(cell, ~t.is_reference), 8, IF t.is_reference THEN {} ELSE {<< >>})
    BY <1>2, <1>6, <2>1 DEF NewValue, Start
  <2>3. cell = Cell(data.at, t.num_bytes, data.path, Bits(t))
    BY <1>1, <1>2, <1>4, <2>1, ScalarLoaded
  <2>4. cell.path = data.path
    BY <2>3 DEF Cell
  <2> HIDE DEF cell
  <2>5. NewValue(t).value = Value(0, data.path, 0, ~t.is_reference, data.leads, << >>)
    BY <1>3, <2>2, <2>4 DEF Copied, Pointer
  <2> QED BY <1>1, <1>2, <1>6, <2>5, KeptOf DEF data
<1>7. CASE t.dtype \notin PointerTypes \cup ContainerTypes
  <2>1. NewValue(t) = Copied(Value(Field(t), << >>, 0, FALSE, object, << >>), t.num_bytes, {})
    BY <1>7 DEF NewValue
  <2>2. NewValue(t).value = Value(Field(t), data.path, 0, FALSE, data.version, << >>)
    BY <1>2, <1>3, <2>1 DEF Copied, NoPath
  <2> QED BY <1>1, <1>2, <1>7, <2>2, KeptOf DEF data
<1> QED BY <1>5, <1>6, <1>7

\* A record keeps the data of the object registered, and while it has references to
\* the object, that is where it was.
ObjectKept == HasReference(dtype, ContainerTypes) => object # 0 /\ term = of
ValueKept ==
    dtype # NullType =>
        /\ since[1] \in Nat /\ since[2] \in Nat
        /\ value = Kept[dtype][ObjectData(since[1], since[2])]
        /\ ObjectKept
KeptInv == ParsedInv /\ ValueKept

\* The compiler leaves no gaps in the objects of the application (ValuesPadded shows
\* what is read where it does).
AllGapless == \A g \in Terms : Gapless[Meaning[g][FALSE]]

LEMMA TermTight ==
    ASSUME AllGapless, NEW g \in Terms
    PROVE  Meaning[g][FALSE] \in Tight
<1>1. g \in AllTerms
  BY ValueAssumption
<1> DEFINE r == FALSE
<1>2. r \in BOOLEAN /\ Gapless[Meaning[g][r]]
  BY DEF AllGapless
<1> HIDE DEF r
<1>3. Meaning[g][r] \in Tight
  BY <1>1, <1>2 DEF Tight, Meant
<1> QED BY <1>3 DEF r

LEMMA KeptInvNext ==
    AllTuplesLast /\ AllGapless /\ NarrowLow /\ KeptInv /\ [Next]_vars => KeptInv'
<1> SUFFICES ASSUME AllTuplesLast, AllGapless, NarrowLow, KeptInv, [Next]_vars PROVE KeptInv'
  OBVIOUS
<1>1. ParsedInv /\ ValueKept /\ ParsedInv'
  BY ParsedInvNext DEF KeptInv
<1>2. object \in Nat /\ targets \in Nat /\ (object # 0 => term \in Terms)
  BY <1>1, ValueAssumption DEF ParsedInv, ValueInv, TypeOK, DataOfTerm
<1>3. dtype # NullType => dtype = Meaning[of][FALSE]
  BY <1>1 DEF ParsedInv, ParsesAsWritten
<1>4. ASSUME NEW stray \in 0..1, adiak_namevalue(stray) PROVE ValueKept'
  <2> DEFINE t == parse_typestr(Written[term], Dimensions[term], stray)
  <2>1. /\ object # 0 /\ dtype' = t /\ value' = NewValue(t).value
        /\ of' = term /\ since' = <<object, targets>> /\ term' = term /\ object' = object
    BY <1>4 DEF adiak_namevalue, appVars
  <2> HIDE DEF t
  <2>2. term \in Terms
    BY <1>2, <2>1
  <2>3. t # NullType /\ t = Meaning[term][FALSE]
    <3>1. t # NullType
      BY <1>4 DEF adiak_namevalue, t
    <3>2. ParsesAsWritten'
      BY <1>1 DEF ParsedInv
    <3> QED BY <2>1, <3>1, <3>2 DEF ParsesAsWritten
  <2>4. t \in Tight
    BY <2>2, <2>3, TermTight
  <2>5. Memory = CellsOf[t][Start]
    BY <2>3 DEF Memory, Start
  <2>6. NewValue(t).value = Kept[t][ObjectData(object, targets)]
    BY <1>2, <2>4, <2>5, NewValueKept
  <2>7. since'[1] = object /\ since'[2] = targets
    BY <2>1
  <2>8. value' = Kept[dtype'][ObjectData(since'[1], since'[2])]
    BY <2>1, <2>6, <2>7
  <2> QED BY <1>2, <2>1, <2>7, <2>8 DEF ValueKept, ObjectKept
<1>5. ASSUME adiak_clean PROVE ValueKept'
  BY <1>5 DEF adiak_clean, ValueKept
<1>6. ASSUME UNCHANGED recordVars,
             dtype # NullType /\ HasReference(dtype, ContainerTypes) /\ object # 0 => object' # 0 /\ term' = term
      PROVE  ValueKept'
  <2>1. dtype' = dtype /\ value' = value /\ since' = since /\ of' = of
    BY <1>6 DEF recordVars
  <2>2. ASSUME dtype # NullType
        PROVE  since[1] \in Nat /\ since[2] \in Nat /\ value = Kept[dtype][ObjectData(since[1], since[2])] /\ ObjectKept
    BY <1>1, <2>2 DEF ValueKept
  <2>3. dtype # NullType => ObjectKept'
    BY <1>6, <2>1, <2>2 DEF ObjectKept
  <2> QED BY <2>1, <2>2, <2>3 DEF ValueKept
<1>7. ASSUME NEW g \in Terms, PrepareData(g) PROVE ValueKept'
  BY <1>6, <1>7 DEF PrepareData
<1>8. ASSUME ChangeData PROVE ValueKept'
  <2>1. UNCHANGED recordVars /\ term' = term /\ (object # 0 => object' # 0)
    BY <1>2, <1>8 DEF ChangeData
  <2> QED BY <1>6, <2>1
<1>9. ASSUME FreeData PROVE ValueKept'
  <2>1. UNCHANGED recordVars /\ term' = term /\ (ObjectRetained => object' = object)
    BY <1>9 DEF FreeData
  <2>2. dtype # NullType /\ HasReference(dtype, ContainerTypes) => ObjectRetained
    BY <1>3 DEF ObjectRetained
  <2> QED BY <1>6, <2>1, <2>2
<1>10. ASSUME UNCHANGED vars PROVE ValueKept'
  <2>1. UNCHANGED recordVars /\ term' = term /\ object' = object
    BY <1>10 DEF vars, appVars
  <2> QED BY <1>6, <2>1
<1> QED BY <1>1, <1>4, <1>5, <1>7, <1>8, <1>9, <1>10 DEF Next, KeptInv

\* What is kept reads as the documentation promises.
LEMMA KeptReadsBack == AllGapless /\ NarrowLow /\ KeptInv => ReadBack
<1> SUFFICES ASSUME AllGapless, NarrowLow, KeptInv, dtype # NullType
             PROVE  Seen[dtype][value] = Promised[Meaning[of][FALSE]][FALSE]
  BY DEF ReadBack
<1> DEFINE t == dtype
           data == ObjectData(since[1], since[2])
           r == FALSE
<1>1. ParsedInv /\ since[1] \in Nat /\ since[2] \in Nat /\ value = Kept[t][data] /\ ObjectKept
  BY DEF KeptInv, ValueKept
<1>2. t = Meaning[of][FALSE] /\ of \in Terms
  BY <1>1 DEF ParsedInv, ParsesAsWritten, ValueInv, RecordOK
<1>3. t \in Tight
  BY <1>2, TermTight
<1>4. data \in AllData /\ Registered(data) /\ data.path = NoPath
  BY <1>1, ObjectDataType DEF Registered
<1>5. object \in Nat /\ targets \in Nat
  BY <1>1, ValueAssumption DEF ParsedInv, ValueInv, TypeOK
<1>6. Retained(t, data)
  <2>1. ASSUME HasReference(t, ContainerTypes) PROVE CanRead /\ Held(t, data)
    <3>1. Memory = CellsOf[t][Start]
      BY <1>1, <1>2, <2>1 DEF ObjectKept, Memory, Start
    <3>2. MemoryOK /\ Held(t, data)
      <4> HIDE DEF t
      <4> QED BY <1>1, <1>3, <3>1, ObjectHeld
    <3> QED BY <1>5, <3>2 DEF CanRead
  <2> QED BY <2>1 DEF Retained
<1>7. r \in BOOLEAN /\ ~r
  OBVIOUS
<1> HIDE DEF t, data, r
<1>8. Seen[t][Kept[t][data]] = Prefixed(data.path, Promised[t][r])
  BY <1>3, <1>4, <1>6, <1>7, KeptSeen
<1>9. Prefixed(NoPath, Promised[t][r]) = Promised[t][r]
  <2>1. AreLeaves(Promised[t][r])
    BY <1>3, <1>7, PromisedLeaves
  <2>2. ASSUME NEW leaf \in Promised[t][r] PROVE PathIn(NoPath, leaf) = leaf
    <3>1. IsLeaf(leaf)
      BY <2>1 DEF AreLeaves
    <3>2. PICK place \in Seq(Nat) : \E rest \in Seq(Nat) : \E number, version :
                  leaf = Leaf(place, rest, number, version)
      BY <3>1 DEF IsLeaf
    <3>3. PICK rest \in Seq(Nat) : \E number, version : leaf = Leaf(place, rest, number, version)
      BY <3>2
    <3>4. PICK number, version : leaf = Leaf(place, rest, number, version)
      BY <3>3
    <3>5. NoPath \o rest = rest
      BY <3>3 DEF NoPath
    <3>6. PathIn(NoPath, Leaf(place, rest, number, version)) = Leaf(place, NoPath \o rest, number, version)
      BY PathOfLeaf
    <3> QED BY <3>4, <3>5, <3>6, Zenon
  <2> QED BY <2>2 DEF Prefixed
<1> QED BY <1>1, <1>2, <1>4, <1>8, <1>9 DEF t, r

\* What tools find in a value is what the documentation promises, for any terms the
\* compiler lays out without gaps: every element in its place, copies as old as the
\* registration, references as new as the data that the application must retain.
THEOREM ValuesReadBack ==
    ASSUME AllTuplesLast, AllGapless, NarrowLow
    PROVE  Spec => []ReadBack
<1>1. Init => KeptInv
  BY ParsedInvInit DEF Init, KeptInv, ValueKept
<1>2. KeptInv /\ [Next]_vars => KeptInv'
  BY KeptInvNext
<1>3. KeptInv => ReadBack
  BY KeptReadsBack
<1> QED BY <1>1, <1>2, <1>3, PTL DEF Spec

================================================================================
