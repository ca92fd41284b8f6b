------------------------------ MODULE TypeProofs ------------------------------
(***************************************************************************)
(* Proofs about datatypes and the parser of TypeString.                    *)
(***************************************************************************)
EXTENDS TypeGrammar, LeastNumber

\* The tokens of type strings; "other" stands for anything else.
Tokens ==
    Specifiers \cup DOMAIN BadLengths \cup DOMAIN Opening \cup {"]", "}", ">", ")"}
        \cup Separators \cup {"&", "other"}

Subtypes(t) == t.subtype

\* Nothing is computed.
Nothing(t, f) == f

Types == INSTANCE Nesting WITH
    MaxDepth <- MaxLength, Over <- TypesOver, Parts <- Subtypes, Step <- Nothing

LEMMA TypesNested == Types!Nested
<1>1. \A S, T : S \subseteq T => TypesOver(S) \subseteq TypesOver(T)
  <2> SUFFICES ASSUME NEW S, NEW T, S \subseteq T, NEW t \in TypesOver(S) PROVE t \in TypesOver(T)
    OBVIOUS
  <2>1. t.subtype \in Seq(T)
    BY DEF TypesOver
  <2> QED BY <2>1 DEF TypesOver
<1>2. \A S : \A t \in TypesOver(S) : \A i \in DOMAIN Subtypes(t) : Subtypes(t)[i] \in S
  BY DEF TypesOver, Subtypes
<1> QED BY <1>1, <1>2, LengthAssumption DEF Types!Nested

LEMMA TypesAll == Types!All = Datatypes /\ Types!UpTo = TypesUpTo
BY DEF Types!All, Types!UpTo, Datatypes, TypesUpTo

\* The fields of a datatype.
LEMMA DatatypeFields ==
    ASSUME NEW t \in Datatypes
    PROVE  /\ t \in TypesOver(Datatypes)
           /\ t.dtype \in NumberTypes \cup PointerTypes \cup ContainerTypes
           /\ t.num_bytes \in Nat /\ t.is_reference \in BOOLEAN
           /\ t.num_elements \in Nat /\ t.num_ref_elements \in Nat
           /\ t.subtype \in Seq(Datatypes) /\ Len(t.subtype) = Arity(t)
           /\ t.dtype \notin ContainerTypes => Count(t) = 0
<1>1. t \in TypesOver(Datatypes)
  BY TypesNested, TypesAll, Types!StructuresOverAll
<1> QED BY <1>1 DEF TypesOver

\* A less deeply nested datatype is among the more deeply nested ones.
LEMMA TypesGrow ==
    ASSUME NEW d \in 0..MaxLength, NEW e \in d..MaxLength
    PROVE  TypesUpTo[d] \subseteq TypesUpTo[e]
<1> DEFINE S == {k \in 0..(e - d) : TypesUpTo[d] \subseteq TypesUpTo[d + k]}
<1>1. MaxLength \in Nat /\ e - d \in Nat
  BY LengthAssumption
<1>2. 0 \in S
  BY <1>1
<1>3. ASSUME NEW k \in 1..(e - d), k - 1 \in S PROVE k \in S
  <2>1. d + k \in 1..MaxLength /\ (d + k) - 1 = d + (k - 1) /\ k \in 0..(e - d)
    BY <1>1
  <2>2. TypesUpTo[(d + k) - 1] \subseteq TypesUpTo[d + k]
    BY <2>1, TypesNested, TypesAll, Types!LevelsGrow
  <2> QED BY <2>1, <2>2, <1>3
<1>4. \A k \in 0..(e - d) : k \in S
  <2>1. S \subseteq 0..(e - d)
    OBVIOUS
  <2> HIDE DEF S
  <2> QED BY <1>1, <1>2, <1>3, <2>1, Induction
<1>5. e - d \in S
  BY <1>1, <1>4
<1> QED BY <1>1, <1>5

LEMMA TypesWithin ==
    ASSUME NEW d \in 0..MaxLength
    PROVE  TypesUpTo[d] \subseteq Datatypes
BY TypesGrow, LengthAssumption DEF Datatypes

\* One level.
LEMMA TypesLevel ==
    ASSUME NEW d \in 0..MaxLength
    PROVE  TypesUpTo[d] = TypesOver(IF d = 0 THEN {} ELSE TypesUpTo[d - 1])
<1>1. Types!Levels(TypesUpTo, MaxLength)
  BY TypesAll, Types!LevelsExist, LengthAssumption
<1> QED BY <1>1 DEF Types!Levels

-----------------------------------------------------------------------------
\* The first token that is not skipped, from a position up to the end of the string.
LEMMA FirstFound ==
    ASSUME NEW typestr \in Seq(Tokens), NEW start \in 1..(Len(typestr) + 1),
           NEW skipped, "NUL" \notin skipped
    PROVE  LET i == FirstFrom(typestr, start, skipped)
           IN  /\ i \in start..(Len(typestr) + 1) /\ i \in 1..(Len(typestr) + 1)
               /\ At(typestr, i) \notin skipped
               /\ \A j \in start..(i - 1) : typestr[j] \in skipped
<1> DEFINE S == {i \in start..(Len(typestr) + 1) : At(typestr, i) \notin skipped}
<1>1. Len(typestr) \in Nat
  OBVIOUS
<1>2. Len(typestr) + 1 \in S
  BY <1>1 DEF At
<1>3. PICK m \in S : \A q \in S : m <= q
  <2>1. S \subseteq Nat /\ S # {}
    BY <1>1, <1>2
  <2> HIDE DEF S
  <2> QED BY <2>1, LeastExists
<1>4. ASSUME NEW j \in start..(m - 1) PROVE typestr[j] \in skipped
  <2>1. j \in start..(Len(typestr) + 1) /\ j \notin S /\ j <= Len(typestr)
    BY <1>1, <1>3
  <2> QED BY <2>1 DEF At
<1>5. m \in start..(Len(typestr) + 1) /\ At(typestr, m) \notin skipped
  OBVIOUS
<1> HIDE DEF S
<1>6. \E i \in start..(Len(typestr) + 1) :
          /\ At(typestr, i) \notin skipped
          /\ \A j \in start..(i - 1) : typestr[j] \in skipped
  BY <1>4, <1>5
<1> QED BY <1>1, <1>6 DEF FirstFrom

\* A bracket that closes lies between the one at start and the end.
LEMMA BraceWithin ==
    ASSUME NEW typestr, NEW endchar, NEW start \in Nat, NEW end \in Nat,
           find_end_brace(typestr, endchar, start, end) # NoBrace
    PROVE  find_end_brace(typestr, endchar, start, end) \in start..(end - 1)
<1> DEFINE closes(i) == typestr[i] = endchar /\ Depths(typestr, start)[i] = 0
           S == {i \in start..(end - 1) : closes(i)}
<1>1. find_end_brace(typestr, endchar, start, end) =
          IF \E i \in start..(end - 1) : closes(i)
          THEN CHOOSE i \in start..(end - 1) : closes(i) /\ \A j \in start..(i - 1) : ~closes(j)
          ELSE NoBrace
  BY DEF find_end_brace
<1>2. \E i \in start..(end - 1) : closes(i)
  BY <1>1
<1>3. S \subseteq Nat /\ S # {}
  BY <1>2
<1>4. PICK m \in S : \A q \in S : m <= q
  <2> HIDE DEF S
  <2> QED BY <1>3, LeastExists
<1>5. \A j \in start..(m - 1) : ~closes(j)
  BY <1>4
<1>6. m \in start..(end - 1) /\ closes(m)
  OBVIOUS
<1> HIDE DEF closes, S
<1>7. \E i \in start..(end - 1) : closes(i) /\ \A j \in start..(i - 1) : ~closes(j)
  BY <1>5, <1>6
<1> QED BY <1>1, <1>2, <1>7

-----------------------------------------------------------------------------
\* What a call that parses up to end may leave.
Results(typestr, end) ==
    [t : TypesUpTo[end - 1] \cup {NullType}, cur : 1..(Len(typestr) + 1), ap : Nat]

\* The calls that parse up to end do as they should.
Typed(parse, typestr, end) == parse \in [Calls(typestr) -> Results(typestr, end)]

\* What the elements parsed so far have left.
ElementsLeft(typestr, end) ==
    [ts : Seq(TypesUpTo[end - 1] \cup {NullType}), cur : 1..(Len(typestr) + 1), ap : Nat]

\* The elements of a tuple are parsed one after the other: the partial results.
Elementwise(upTo, parse, start, is_reference, ap, n) ==
    upTo = [i \in 0..n |->
              IF i = 0 THEN [ts |-> << >>, cur |-> start, ap |-> ap]
              ELSE LET before == upTo[i - 1]
                       one == parse[Call(before.cur, is_reference, before.ap)]
                   IN  [ts |-> Append(before.ts, one.t), cur |-> one.cur, ap |-> one.ap]]

LEMMA ElementsParsed ==
    ASSUME NEW typestr \in Seq(Tokens), NEW end \in Nat, NEW parse, Typed(parse, typestr, end),
           NEW start, NEW is_reference, NEW ap, Call(start, is_reference, ap) \in Calls(typestr),
           NEW n \in Nat
    PROVE  \E upTo :
              /\ Elementwise(upTo, parse, start, is_reference, ap, n)
              /\ ParseElements(parse, start, is_reference, ap, n) = upTo[n]
              /\ \A i \in 0..n : upTo[i] \in ElementsLeft(typestr, end) /\ Len(upTo[i].ts) = i
<1> DEFINE D == ElementsLeft(typestr, end)
           first == [ts |-> << >>, cur |-> start, ap |-> ap]
           Next(before) ==
               LET one == parse[Call(before.cur, is_reference, before.ap)]
               IN  [ts |-> Append(before.ts, one.t), cur |-> one.cur, ap |-> one.ap]
           then == [i \in 1..n |-> [before \in D |-> Next(before)]]
<1>0. start \in 1..(Len(typestr) + 1) /\ is_reference \in BOOLEAN /\ ap \in Nat
  BY DEF Call, Calls
<1>1. first \in D
  BY <1>0 DEF ElementsLeft
<1>2. ASSUME NEW before \in D PROVE Next(before) \in D
  <2>1. Call(before.cur, is_reference, before.ap) \in Calls(typestr)
    BY <1>0 DEF ElementsLeft, Call, Calls
  <2>2. parse[Call(before.cur, is_reference, before.ap)] \in Results(typestr, end)
    BY <2>1 DEF Typed
  <2> DEFINE one == parse[Call(before.cur, is_reference, before.ap)]
  <2>3. one.t \in TypesUpTo[end - 1] \cup {NullType} /\ one.cur \in 1..(Len(typestr) + 1) /\ one.ap \in Nat
    BY <2>2 DEF Results
  <2> HIDE DEF one
  <2>4. Append(before.ts, one.t) \in Seq(TypesUpTo[end - 1] \cup {NullType})
    BY <2>3 DEF ElementsLeft
  <2>5. [ts |-> Append(before.ts, one.t), cur |-> one.cur, ap |-> one.ap] \in D
    BY <2>3, <2>4 DEF ElementsLeft
  <2> QED BY <2>5 DEF one
<1>3. then \in Steps(n, D)
  <2> HIDE DEF D, Next
  <2> QED BY <1>2 DEF Steps
<1>14. \E f \in [0..n -> D] : Iterates(f, n, first, then)
  <2> HIDE DEF D, first, then
  <2> QED BY <1>1, <1>3, Iteration
<1>4. PICK f \in [0..n -> D] : Iterates(f, n, first, then)
  <2> HIDE DEF D, first, then
  <2> QED BY <1>14
<1>5. ASSUME NEW i \in 1..n PROVE then[i][f[i - 1]] = Next(f[i - 1])
  <2>1. f[i - 1] \in D
    OBVIOUS
  <2> HIDE DEF D, Next
  <2> QED BY <2>1
<1>6. f = [i \in 0..n |-> IF i = 0 THEN first ELSE Next(f[i - 1])]
  <2> HIDE DEF then, Next, first, D
  <2>1. ASSUME NEW i \in 0..n PROVE f[i] = IF i = 0 THEN first ELSE Next(f[i - 1])
    <3>1. CASE i = 0
      BY <3>1, <1>4 DEF Iterates
    <3>2. CASE i # 0
      <4>1. i \in 1..n
        BY <3>2
      <4> QED BY <3>2, <4>1, <1>4, <1>5 DEF Iterates
    <3> QED BY <3>1, <3>2
  <2> QED BY <2>1
<1>7. Elementwise(f, parse, start, is_reference, ap, n)
  BY <1>6 DEF Elementwise
<1>8. PICK g : Elementwise(g, parse, start, is_reference, ap, n)
               /\ ParseElements(parse, start, is_reference, ap, n) = g[n]
  <2> HIDE DEF then, Next, first, D
  <2> QED BY <1>7 DEF Elementwise, ParseElements
<1>9. ASSUME NEW g1, Elementwise(g1, parse, start, is_reference, ap, n), NEW k \in 0..n PROVE g1[k] = f[k] /\ Len(f[k].ts) = k
  <2> DEFINE S == {i \in 0..n : g1[i] = f[i] /\ Len(f[i].ts) = i}
  <2>1. 0 \in S
    <3>1. g1[0] = first /\ f[0] = first
      BY <1>6, <1>9 DEF Elementwise
    <3> QED BY <3>1
  <2>2. ASSUME NEW i \in 1..n, i - 1 \in S PROVE i \in S
    <3>1. g1[i] = Next(g1[i - 1]) /\ f[i] = Next(f[i - 1]) /\ i \in 0..n
      <4>1. i \in 0..n /\ i # 0
        OBVIOUS
      <4>2. f[i] = Next(f[i - 1])
        <5> HIDE DEF Next, first
        <5> QED BY <4>1, <1>6
      <4>3. g1[i] = Next(g1[i - 1])
        BY <4>1, <1>9 DEF Elementwise
      <4> QED BY <4>1, <4>2, <4>3
    <3>2. g1[i] = f[i]
      <4> HIDE DEF Next
      <4> QED BY <3>1, <2>2
    <3>3. Len(f[i].ts) = i
      <4>1. i - 1 \in 0..n /\ f[i - 1] \in D /\ Len(f[i - 1].ts) = i - 1
        BY <2>2
      <4>2. f[i].ts = Append(f[i - 1].ts, parse[Call(f[i - 1].cur, is_reference, f[i - 1].ap)].t)
        BY <3>1
      <4>3. f[i - 1].ts \in Seq(TypesUpTo[end - 1] \cup {NullType})
        BY <4>1 DEF ElementsLeft
      <4> QED BY <4>1, <4>2, <4>3
    <3> QED BY <3>1, <3>2, <3>3
  <2>3. \A i \in 0..n : i \in S
    <3>1. S \subseteq 0..n
      OBVIOUS
    <3> HIDE DEF S
    <3> QED BY <2>1, <2>2, <3>1, Induction
  <2> QED BY <2>3
<1>10. \A i \in 0..n : g[i] \in ElementsLeft(typestr, end) /\ Len(g[i].ts) = i
  <2>1. \A i \in 0..n : f[i] \in ElementsLeft(typestr, end)
    OBVIOUS
  <2> QED BY <2>1, <1>8, <1>9
<1> QED BY <1>8, <1>10
LEMMA ElementsTyped ==
    ASSUME NEW typestr \in Seq(Tokens), NEW end \in Nat, NEW parse, Typed(parse, typestr, end),
           NEW start, NEW is_reference, NEW ap, Call(start, is_reference, ap) \in Calls(typestr),
           NEW n \in Nat
    PROVE  /\ ParseElements(parse, start, is_reference, ap, n) \in ElementsLeft(typestr, end)
           /\ Len(ParseElements(parse, start, is_reference, ap, n).ts) = n
<1>1. PICK upTo :
          /\ Elementwise(upTo, parse, start, is_reference, ap, n)
          /\ ParseElements(parse, start, is_reference, ap, n) = upTo[n]
          /\ \A i \in 0..n : upTo[i] \in ElementsLeft(typestr, end) /\ Len(upTo[i].ts) = i
  BY ElementsParsed
<1>2. n \in 0..n
  OBVIOUS
<1> QED BY <1>1, <1>2
-----------------------------------------------------------------------------
\* The base types are datatypes, nested in nothing.
LEMMA BaseFields ==
    ASSUME NEW spec \in Specifiers
    PROVE  /\ base[spec] = BaseType(base[spec].dtype, base[spec].num_bytes)
           /\ base[spec].dtype \in NumberTypes \cup PointerTypes
           /\ base[spec].num_bytes \in 1..8
<1>1. \E dtype, num_bytes : base[spec] = BaseType(dtype, num_bytes)
  BY Zenon DEF base, Specifiers
<1>2. base[spec].num_bytes \in 1..8
  BY SMTT(30) DEF base, Specifiers, BaseType, Type
<1>3. base[spec].dtype \in NumberTypes \cup PointerTypes
  BY SMTT(30) DEF base, Specifiers, BaseType, Type, NumberTypes, PointerTypes, StringTypes
<1>4. base[spec] = BaseType(base[spec].dtype, base[spec].num_bytes)
  BY <1>1 DEF BaseType, Type
<1> QED BY <1>2, <1>3, <1>4

LEMMA BaseRefType ==
    ASSUME NEW spec \in Specifiers, NEW is_reference \in BOOLEAN, NEW d \in 0..MaxLength
    PROVE  base_ref(spec, is_reference) \in TypesUpTo[d]
<1> DEFINE dtype == base[spec].dtype
           num_bytes == base[spec].num_bytes
<1>1. dtype \in NumberTypes \cup PointerTypes /\ num_bytes \in 1..8
  BY BaseFields
<1>2. base[spec] = BaseType(dtype, num_bytes)
  BY BaseFields
<1> HIDE DEF dtype, num_bytes
<1>3. base_ref(spec, is_reference) =
          Type(dtype, num_bytes, is_reference /\ dtype \in StringTypes, 0, 0, << >>)
  BY <1>2 DEF base_ref, BaseType, Type
<1>4. dtype \notin ContainerTypes
  BY <1>1 DEF NumberTypes, PointerTypes, StringTypes, ContainerTypes
<1>5. base_ref(spec, is_reference) \in TypesOver({})
  BY <1>1, <1>3, <1>4 DEF Type, TypesOver, Arity, Count
<1>6. 0 \in 0..MaxLength
  BY LengthAssumption
<1>7. TypesUpTo[0] = TypesOver({})
  BY <1>6, TypesLevel
<1>8. TypesUpTo[0] \subseteq TypesUpTo[d]
  BY <1>6, TypesGrow
<1> QED BY <1>5, <1>7, <1>8

LEMMA UnsetTypeType ==
    ASSUME NEW d \in 0..MaxLength
    PROVE  UnsetType \in TypesUpTo[d]
<1>1. UnsetType \in TypesOver({})
  BY DEF UnsetType, BaseType, Type, TypesOver, Arity, Count, NumberTypes, ContainerTypes
<1>2. 0 \in 0..MaxLength
  BY LengthAssumption
<1>3. TypesUpTo[0] = TypesOver({})
  BY <1>2, TypesLevel
<1>4. TypesUpTo[0] \subseteq TypesUpTo[d]
  BY <1>2, TypesGrow
<1> QED BY <1>1, <1>3, <1>4

LEMMA ContainerTypeOver ==
    ASSUME NEW S, NEW dtype \in ContainerTypes, NEW is_reference \in BOOLEAN,
           NEW n \in Nat, NEW subtype \in Seq(S),
           Len(subtype) = IF dtype = "tuple" THEN n ELSE 1
    PROVE  ContainerType(dtype, is_reference, n, subtype) \in TypesOver(S)
<1> DEFINE t == ContainerType(dtype, is_reference, n, subtype)
<1>1. t.num_elements + t.num_ref_elements = n
  BY DEF ContainerType, Type
<1>2. Arity(t) = IF dtype = "tuple" THEN n ELSE 1
  BY <1>1 DEF Arity, Count, ContainerType, Type, ContainerTypes
<1> QED BY <1>2 DEF TypesOver, ContainerType, Type, ContainerTypes

LEMMA ContainerTypeType ==
    ASSUME NEW d \in 1..MaxLength, NEW dtype \in ContainerTypes, NEW is_reference \in BOOLEAN,
           NEW n \in Nat, NEW subtype \in Seq(TypesUpTo[d - 1]),
           Len(subtype) = IF dtype = "tuple" THEN n ELSE 1
    PROVE  ContainerType(dtype, is_reference, n, subtype) \in TypesUpTo[d]
<1>1. ContainerType(dtype, is_reference, n, subtype) \in TypesOver(TypesUpTo[d - 1])
  BY ContainerTypeOver
<1>2. d \in 0..MaxLength /\ d # 0
  BY LengthAssumption
<1>3. TypesUpTo[d] = TypesOver(TypesUpTo[d - 1])
  BY <1>2, TypesLevel
<1> QED BY <1>1, <1>3

\* NullType is no datatype.
LEMMA NullIsNone == NullType \notin Datatypes
<1> SUFFICES ASSUME NullType \in Datatypes PROVE FALSE
  OBVIOUS
<1>1. NullType.dtype \in NumberTypes \cup PointerTypes \cup ContainerTypes
  BY DatatypeFields
<1>2. NullType.dtype = "NULL"
  BY DEF NullType, BaseType, Type
<1> QED BY <1>1, <1>2 DEF NumberTypes, PointerTypes, StringTypes, ContainerTypes

-----------------------------------------------------------------------------
\* What a call of parse_typestr_helper does, if the calls for the parts do as they should.
LEMMA HelperTyped ==
    ASSUME NEW typestr \in Seq(Tokens), Len(typestr) <= MaxLength,
           NEW args \in Seq(Nat), NEW stray \in Nat,
           NEW end \in 1..(Len(typestr) + 1), NEW parse,
           \A e \in 1..(end - 1) : Typed(parse[e], typestr, e)
    PROVE  Typed(parse_typestr_helper(typestr, args, stray, end, parse), typestr, end)
<1> DEFINE first(call) == FirstFrom(typestr, call.start, Separators)
           is_reference(call) == call.is_reference \/ At(typestr, first(call)) = "&"
           cur(call) == IF At(typestr, first(call)) = "&" THEN first(call) + 1 ELSE first(call)
           token(call) == At(typestr, cur(call))
           end_brace(call) == find_end_brace(typestr, Closing[token(call)], cur(call), end)
           num_elements(call) == IF token(call) = "<" THEN 2 ELSE NextInt(args, call.ap, stray)
           ap(call) == IF token(call) = "<" THEN call.ap ELSE AfterNext(call.ap)
           elements(call) ==
               ParseElements(parse[end_brace(call)], cur(call) + 1, is_reference(call), ap(call),
                             IF token(call) = "(" THEN num_elements(call) ELSE 1)
           result(call) ==
              CASE call.start # end /\ token(call) \in DOMAIN base ->
                    Parsed(base_ref(token(call), is_reference(call)), cur(call) + 1, call.ap)
              [] call.start # end /\ token(call) = "NUL" -> Parsed(UnsetType, call.start, call.ap)
              [] /\ call.start # end /\ token(call) \in DOMAIN Opening /\ end_brace(call) # NoBrace
                 /\ \A i \in DOMAIN elements(call).ts : elements(call).ts[i] # NullType ->
                    Parsed(ContainerType(Opening[token(call)], is_reference(call), num_elements(call), elements(call).ts),
                           IF token(call) = "(" THEN call.start ELSE end_brace(call) + 1, elements(call).ap)
              [] OTHER -> Parsed(NullType, call.start, call.ap)
<1>1. parse_typestr_helper(typestr, args, stray, end, parse) = [call \in Calls(typestr) |-> result(call)]
  BY DEF parse_typestr_helper
<1>2. ASSUME NEW call \in Calls(typestr) PROVE result(call) \in Results(typestr, end)
  <2>1. call.start \in 1..(Len(typestr) + 1) /\ call.is_reference \in BOOLEAN /\ call.ap \in Nat
    BY DEF Calls
  <2>2. Len(typestr) \in Nat /\ end - 1 \in 0..MaxLength
    BY LengthAssumption
  <2>3. first(call) \in 1..(Len(typestr) + 1)
    <3>1. "NUL" \notin Separators
      BY DEF Separators
    <3> QED BY <2>1, <3>1, FirstFound
  <2>4. cur(call) \in 1..(Len(typestr) + 1) /\ is_reference(call) \in BOOLEAN
    <3> HIDE DEF first
    <3> QED BY <2>1, <2>2, <2>3 DEF At
  <2> HIDE DEF first, is_reference, cur
  <2>5. token(call) # "NUL" => cur(call) <= Len(typestr)
    BY <2>2, <2>4 DEF At
  <2> HIDE DEF token
  <2>6. CASE call.start # end /\ token(call) \in DOMAIN base
    <3>1. token(call) \in Specifiers
      BY <2>6 DEF base
    <3>2. cur(call) + 1 \in 1..(Len(typestr) + 1)
      BY <3>1, <2>2, <2>4, <2>5 DEF Specifiers
    <3>3. base_ref(token(call), is_reference(call)) \in TypesUpTo[end - 1]
      BY <3>1, <2>2, <2>4, BaseRefType
    <3>4. result(call) = Parsed(base_ref(token(call), is_reference(call)), cur(call) + 1, call.ap)
      BY <2>6, <3>1 DEF Specifiers, Opening
    <3> HIDE DEF result
    <3> QED BY <2>1, <3>2, <3>3, <3>4 DEF Parsed, Results
  <2>7. CASE call.start # end /\ token(call) = "NUL"
    <3>1. UnsetType \in TypesUpTo[end - 1]
      BY <2>2, UnsetTypeType
    <3>2. result(call) = Parsed(UnsetType, call.start, call.ap)
      BY <2>7 DEF base, Specifiers, Opening
    <3> HIDE DEF result
    <3> QED BY <2>1, <3>1, <3>2 DEF Parsed, Results
  <2>8. CASE /\ call.start # end /\ token(call) \in DOMAIN Opening /\ end_brace(call) # NoBrace
             /\ \A i \in DOMAIN elements(call).ts : elements(call).ts[i] # NullType
    <3>1. token(call) \in {"[", "{", "<", "("}
      BY <2>8 DEF Opening
    <3>19. token(call) # "NUL"
      BY <3>1
    <3>2. cur(call) \in Nat /\ cur(call) <= Len(typestr) /\ cur(call) + 1 \in 1..(Len(typestr) + 1)
      BY <3>19, <2>2, <2>4, <2>5
    <3>3. end_brace(call) \in cur(call)..(end - 1)
      BY <3>2, <2>2, <2>8, BraceWithin
    <3>4. end_brace(call) \in 1..(end - 1)
      BY <3>2, <3>3, <2>4
    <3>5. num_elements(call) \in Nat /\ ap(call) \in Nat
      BY <2>1 DEF NextInt, AfterNext
    <3> DEFINE n == IF token(call) = "(" THEN num_elements(call) ELSE 1
    <3>6. n \in Nat
      BY <3>5
    <3>7. Typed(parse[end_brace(call)], typestr, end_brace(call))
      BY <3>4
    <3>8. elements(call) = ParseElements(parse[end_brace(call)], cur(call) + 1, is_reference(call), ap(call), n)
      OBVIOUS
    <3>9. end_brace(call) \in Nat
      BY <3>4
    <3> HIDE DEF end_brace, num_elements, ap, n, elements
    <3>10. Call(cur(call) + 1, is_reference(call), ap(call)) \in Calls(typestr)
      BY <2>4, <3>2, <3>5 DEF Call, Calls
    <3>11. elements(call) \in ElementsLeft(typestr, end_brace(call)) /\ Len(elements(call).ts) = n
      BY <3>6, <3>7, <3>8, <3>9, <3>10, ElementsTyped
    <3>12. elements(call).ts \in Seq(TypesUpTo[end_brace(call) - 1]) /\ elements(call).ap \in Nat
      BY <2>8, <3>11 DEF ElementsLeft
    <3>18. end_brace(call) \in 1..MaxLength
      BY <3>4, <2>2, LengthAssumption
    <3>13. /\ Opening[token(call)] \in ContainerTypes
           /\ Opening[token(call)] = "tuple" <=> token(call) = "("
      BY <3>1 DEF Opening, ContainerTypes
    <3> DEFINE t == ContainerType(Opening[token(call)], is_reference(call), num_elements(call), elements(call).ts)
    <3>14. t \in TypesUpTo[end_brace(call)]
      BY <2>4, <3>5, <3>11, <3>12, <3>13, <3>18, ContainerTypeType DEF n
    <3>15. t \in TypesUpTo[end - 1]
      <4>1. end_brace(call) \in 0..MaxLength /\ end - 1 \in end_brace(call)..MaxLength
        BY <2>2, <3>4, <3>18
      <4> HIDE DEF t
      <4> QED BY <3>14, <4>1, TypesGrow
    <3>16. (IF token(call) = "(" THEN call.start ELSE end_brace(call) + 1) \in 1..(Len(typestr) + 1)
      BY <2>1, <2>2, <3>4
    <3>17. result(call) = Parsed(t, IF token(call) = "(" THEN call.start ELSE end_brace(call) + 1, elements(call).ap)
      BY <2>8, <3>1 DEF base, Specifiers
    <3> HIDE DEF result, t
    <3> QED BY <3>12, <3>15, <3>16, <3>17 DEF Parsed, Results
  <2>9. CASE /\ ~(call.start # end /\ token(call) \in DOMAIN base)
             /\ ~(call.start # end /\ token(call) = "NUL")
             /\ ~(/\ call.start # end /\ token(call) \in DOMAIN Opening /\ end_brace(call) # NoBrace
                  /\ \A i \in DOMAIN elements(call).ts : elements(call).ts[i] # NullType)
    <3>1. result(call) = Parsed(NullType, call.start, call.ap)
      <4> HIDE DEF elements, end_brace
      <4> QED BY <2>9
    <3> HIDE DEF result
    <3> QED BY <2>1, <3>1 DEF Parsed, Results
  <2> QED BY <2>6, <2>7, <2>8, <2>9
<1> QED
  <2> HIDE DEF result
  <2> QED BY <1>1, <1>2 DEF Typed

-----------------------------------------------------------------------------
\* parse_typestr: the results of the calls that parse up to each position as far as n.
ParsedUpTo(parse, n, typestr, args, stray) ==
    parse = [end \in 1..n |->
                parse_typestr_helper(typestr, args, stray, end, [e \in 1..(end - 1) |-> parse[e]])]

LEMMA CallsParsed ==
    ASSUME NEW typestr \in Seq(Tokens), NEW args, NEW stray
    PROVE  \E parse : /\ ParsedUpTo(parse, Len(typestr) + 1, typestr, args, stray)
                      /\ parse_typestr(typestr, args, stray)
                            = parse[Len(typestr) + 1][Call(1, FALSE, 0)].t
<1> DEFINE last == Len(typestr) + 1
           Helper(end, parse) == parse_typestr_helper(typestr, args, stray, end, parse)
           UpTo(f, n) == f = [end \in 1..n |-> Helper(end, [e \in 1..(end - 1) |-> f[e]])]
           S == {n \in 0..last : \E f : UpTo(f, n)}
<1>0. last \in Nat
  OBVIOUS
<1>1. 0 \in S
  <2> HIDE DEF Helper, last
  <2>1. UpTo([end \in 1..0 |-> 0], 0)
    OBVIOUS
  <2> HIDE DEF UpTo
  <2> QED BY <2>1, <1>0
<1>2. ASSUME NEW n \in 1..last, n - 1 \in S PROVE n \in S
  <2> HIDE DEF Helper, last
  <2>1. PICK f : UpTo(f, n - 1)
    BY <1>2
  <2> DEFINE g == [end \in 1..n |-> Helper(end, [e \in 1..(end - 1) |-> f[e]])]
  <2>2. ASSUME NEW end \in 1..(n - 1) PROVE g[end] = f[end]
    <3>1. end \in 1..n
      BY <1>0
    <3>2. g[end] = Helper(end, [e \in 1..(end - 1) |-> f[e]])
      BY <3>1
    <3>3. f[end] = Helper(end, [e \in 1..(end - 1) |-> f[e]])
      BY <2>1
    <3> QED BY <3>2, <3>3
  <2>3. ASSUME NEW end \in 1..n
        PROVE  Helper(end, [e \in 1..(end - 1) |-> f[e]]) = Helper(end, [e \in 1..(end - 1) |-> g[e]])
    <3>1. [e \in 1..(end - 1) |-> f[e]] = [e \in 1..(end - 1) |-> g[e]]
      <4>1. \A e \in 1..(end - 1) : e \in 1..(n - 1)
        BY <1>0
      <4> HIDE DEF g
      <4> QED BY <4>1, <2>2
    <3> QED BY <3>1
  <2>4. UpTo(g, n)
    BY <2>3
  <2> HIDE DEF UpTo, g
  <2> QED BY <2>4, <1>0
<1>3. last \in S
  <2>1. S \subseteq 0..last
    OBVIOUS
  <2> HIDE DEF S, last
  <2>2. \A n \in 0..last : n \in S
    BY <1>0, <1>1, <1>2, <2>1, Induction
  <2> QED BY <2>2, <1>0
<1>4. PICK f : UpTo(f, last)
  BY <1>3
<1>5. ParsedUpTo(f, last, typestr, args, stray)
  BY <1>4 DEF ParsedUpTo
<1> HIDE DEF UpTo
<1> QED BY <1>5 DEF ParsedUpTo, parse_typestr

LEMMA ParseTyped ==
    ASSUME NEW typestr \in Seq(Tokens), Len(typestr) <= MaxLength,
           NEW args \in Seq(Nat), NEW stray \in Nat
    PROVE  parse_typestr(typestr, args, stray) \in Datatypes \cup {NullType}
<1> DEFINE last == Len(typestr) + 1
<1>0. last \in Nat /\ last >= 1
  OBVIOUS
<1>1. PICK parse : /\ ParsedUpTo(parse, last, typestr, args, stray)
                   /\ parse_typestr(typestr, args, stray) = parse[last][Call(1, FALSE, 0)].t
  BY CallsParsed
<1> DEFINE S == {n \in 0..last : \A e \in 1..n : Typed(parse[e], typestr, e)}
<1>2. 0 \in S
  BY <1>0
<1>3. ASSUME NEW n \in 1..last, n - 1 \in S PROVE n \in S
  <2> DEFINE before == [e \in 1..(n - 1) |-> parse[e]]
  <2>1. \A e \in 1..(n - 1) : Typed(before[e], typestr, e)
    BY <1>3
  <2>2. parse[n] = parse_typestr_helper(typestr, args, stray, n, before)
    BY <1>1 DEF ParsedUpTo
  <2> HIDE DEF before
  <2>3. Typed(parse[n], typestr, n)
    BY <2>1, <2>2, HelperTyped
  <2>4. \A e \in 1..n : e = n \/ e \in 1..(n - 1)
    BY <1>0
  <2>5. \A e \in 1..(n - 1) : Typed(parse[e], typestr, e)
    BY <1>3
  <2> HIDE DEF last
  <2> QED BY <2>3, <2>4, <2>5, <1>0
<1>4. last \in S
  <2>1. S \subseteq 0..last
    OBVIOUS
  <2> HIDE DEF S, last
  <2>2. \A n \in 0..last : n \in S
    BY <1>0, <1>2, <1>3, <2>1, Induction
  <2> QED BY <2>2, <1>0
<1>5. Typed(parse[last], typestr, last)
  BY <1>4, <1>0
<1>6. Call(1, FALSE, 0) \in Calls(typestr)
  BY DEF Call, Calls
<1>7. parse[last][Call(1, FALSE, 0)] \in Results(typestr, last)
  BY <1>5, <1>6 DEF Typed
<1>8. parse[last][Call(1, FALSE, 0)].t \in TypesUpTo[last - 1] \cup {NullType}
  BY <1>7 DEF Results
<1>9. last - 1 \in 0..MaxLength
  BY LengthAssumption
<1>10. TypesUpTo[last - 1] \subseteq Datatypes
  BY <1>9, TypesWithin
<1> QED BY <1>1, <1>8, <1>10

-----------------------------------------------------------------------------
\* FlattenSeq goes through the sequences one after the other: the partial results.
Flattens(flat, seqs) ==
    flat = [i \in 1..Len(seqs) |-> IF i = 1 THEN seqs[i] ELSE flat[i - 1] \o seqs[i]]

LEMMA FlattenSteps ==
    ASSUME NEW S, NEW seqs \in Seq(Seq(S)), Len(seqs) # 0
    PROVE  \E flat : /\ Flattens(flat, seqs) /\ FlattenSeq(seqs) = flat[Len(seqs)]
                     /\ \A i \in 1..Len(seqs) : flat[i] \in Seq(S)
<1> DEFINE n == Len(seqs) - 1
           D == Seq(S)
           then == [i \in 1..n |-> [before \in D |-> before \o seqs[i + 1]]]
<1>1. n \in Nat /\ n + 1 = Len(seqs) /\ seqs[1] \in D
  OBVIOUS
<1>2. then \in Steps(n, D)
  <2>1. ASSUME NEW i \in 1..n, NEW before \in D PROVE before \o seqs[i + 1] \in D
    <3>1. i + 1 \in 1..Len(seqs)
      BY <1>1
    <3> QED BY <3>1
  <2> HIDE DEF D, n
  <2> QED BY <2>1 DEF Steps
<1>3. \E f \in [0..n -> D] : Iterates(f, n, seqs[1], then)
  <2> HIDE DEF D, n, then
  <2> QED BY <1>1, <1>2, Iteration
<1>4. PICK f \in [0..n -> D] : Iterates(f, n, seqs[1], then)
  <2> HIDE DEF D, n, then
  <2> QED BY <1>3
<1> DEFINE g == [i \in 1..Len(seqs) |-> f[i - 1]]
<1>5. ASSUME NEW i \in 1..Len(seqs)
      PROVE  g[i] = IF i = 1 THEN seqs[i] ELSE g[i - 1] \o seqs[i]
  <2>1. CASE i = 1
    BY <2>1, <1>1, <1>4 DEF Iterates
  <2>2. CASE i # 1
    <3>1. i - 1 \in 1..n /\ (i - 1) - 1 \in 0..n /\ i - 1 \in 1..Len(seqs) /\ (i - 1) + 1 = i
      BY <2>2, <1>1
    <3>2. f[i - 1] = then[i - 1][f[(i - 1) - 1]] /\ f[(i - 1) - 1] \in D
      <4> HIDE DEF n, D, then
      <4> QED BY <3>1, <1>4 DEF Iterates
    <3>3. then[i - 1][f[(i - 1) - 1]] = f[(i - 1) - 1] \o seqs[i]
      <4> HIDE DEF n, D
      <4> QED BY <3>1, <3>2
    <3> QED BY <2>2, <3>1, <3>2, <3>3
  <2> QED BY <2>1, <2>2
<1>6. Flattens(g, seqs)
  <2>1. g = [i \in 1..Len(seqs) |-> g[i]]
    OBVIOUS
  <2> HIDE DEF g
  <2> QED BY <2>1, <1>5 DEF Flattens
<1>7. PICK flat : Flattens(flat, seqs) /\ FlattenSeq(seqs) = flat[Len(seqs)]
  <2> HIDE DEF g
  <2> QED BY <1>6 DEF Flattens, FlattenSeq
<1> DEFINE T == {k \in 0..Len(seqs) : k = 0 \/ flat[k] \in Seq(S)}
<1>8. ASSUME NEW k \in 1..Len(seqs), k - 1 \in T PROVE k \in T
  <2>1. k \in 0..Len(seqs) /\ seqs[k] \in Seq(S)
    OBVIOUS
  <2>2. flat[k] = IF k = 1 THEN seqs[k] ELSE flat[k - 1] \o seqs[k]
    BY <1>7 DEF Flattens
  <2>3. k # 1 => flat[k - 1] \in Seq(S)
    BY <1>8
  <2>4. flat[k] \in Seq(S)
    BY <2>1, <2>2, <2>3
  <2> QED BY <2>1, <2>4
<1>9. \A k \in 0..Len(seqs) : k \in T
  <2>1. T \subseteq 0..Len(seqs) /\ 0 \in T /\ Len(seqs) \in Nat
    OBVIOUS
  <2> HIDE DEF T
  <2> QED BY <1>8, <2>1, Induction
<1>10. \A i \in 1..Len(seqs) : flat[i] \in Seq(S)
  BY <1>9
<1> QED BY <1>7, <1>10

LEMMA FlattenType ==
    ASSUME NEW S, NEW seqs \in Seq(Seq(S))
    PROVE  FlattenSeq(seqs) \in Seq(S)
<1>1. CASE Len(seqs) = 0
  <2>1. seqs = << >>
    BY <1>1
  <2> QED BY <1>1, <2>1 DEF FlattenSeq
<1>2. CASE Len(seqs) # 0
  <2>1. PICK flat : /\ Flattens(flat, seqs) /\ FlattenSeq(seqs) = flat[Len(seqs)]
                    /\ \A i \in 1..Len(seqs) : flat[i] \in Seq(S)
    BY <1>2, FlattenSteps
  <2>2. Len(seqs) \in 1..Len(seqs)
    BY <1>2
  <2> QED BY <2>1, <2>2
<1> QED BY <1>1, <1>2

-----------------------------------------------------------------------------
\* Terms are nested as datatypes are; what is written for them.
Subterms(g) == g.subs

Strings == INSTANCE Nesting WITH
    MaxDepth <- MaxLength, Over <- TermsOver, Parts <- Subterms, Step <- WrittenFrom
Arguments == INSTANCE Nesting WITH
    MaxDepth <- MaxLength, Over <- TermsOver, Parts <- Subterms, Step <- DimensionsFrom

LEMMA TermsNested == Strings!Nested /\ Arguments!Nested
<1>1. \A S, T : S \subseteq T => TermsOver(S) \subseteq TermsOver(T)
  <2> SUFFICES ASSUME NEW S, NEW T, S \subseteq T, NEW g \in TermsOver(S) PROVE g \in TermsOver(T)
    OBVIOUS
  <2>1. g.subs \in Seq(T)
    BY DEF TermsOver
  <2> QED BY <2>1 DEF TermsOver
<1>2. \A S : \A g \in TermsOver(S) : \A i \in DOMAIN Subterms(g) : Subterms(g)[i] \in S
  BY DEF TermsOver, Subterms
<1> QED BY <1>1, <1>2, LengthAssumption DEF Strings!Nested, Arguments!Nested

LEMMA TermsAll == Strings!All = AllTerms /\ Arguments!All = AllTerms
BY DEF Strings!All, Strings!UpTo, Arguments!All, Arguments!UpTo, AllTerms, TermsUpTo

LEMMA TermFields ==
    ASSUME NEW g \in AllTerms
    PROVE  /\ g.kind \in ContainerTypes \cup {"scalar"} /\ g.ref \in BOOLEAN /\ g.n \in Nat
           /\ g.subs \in Seq(AllTerms)
           /\ g.kind = "scalar" => g.spec \in Specifiers /\ g.subs = << >>
           /\ g.kind \in {"list", "set", "range"} => Len(g.subs) = 1
           /\ g.kind = "range" => g.n = 2
           /\ g.kind = "tuple" => Len(g.subs) = g.n
<1>1. g \in TermsOver(AllTerms)
  BY TermsNested, TermsAll, Strings!StructuresOverAll
<1> QED BY <1>1 DEF TermsOver

\* What is written for a term is made of what is written for its parts.
LEMMA WrittenParts ==
    ASSUME NEW g \in AllTerms
    PROVE  Written[g] = WrittenFrom(g, [i \in DOMAIN g.subs |-> Written[g.subs[i]]])
<1>1. Strings!Result = Written
  BY TermsAll DEF Strings!Result, Strings!Computes, Written, Subterms
<1>2. Strings!Computes(Written, AllTerms)
  BY <1>1, TermsNested, TermsAll, Strings!NestingRecursion
<1> QED BY <1>2 DEF Strings!Computes, Subterms

LEMMA DimensionsParts ==
    ASSUME NEW g \in AllTerms
    PROVE  Dimensions[g] = DimensionsFrom(g, [i \in DOMAIN g.subs |-> Dimensions[g.subs[i]]])
<1>1. Arguments!Result = Dimensions
  BY TermsAll DEF Arguments!Result, Arguments!Computes, Dimensions, Subterms
<1>2. Arguments!Computes(Dimensions, AllTerms)
  BY <1>1, TermsNested, TermsAll, Arguments!NestingRecursion
<1> QED BY <1>2 DEF Arguments!Computes, Subterms

\* Brackets are tokens.
LEMMA BracketKind ==
    ASSUME NEW kind \in ContainerTypes
    PROVE  /\ Bracket(kind) \in DOMAIN Opening /\ Opening[Bracket(kind)] = kind
           /\ Bracket(kind) \in Tokens /\ Closing[Bracket(kind)] \in Tokens
<1>1. Opening["["] = "set" /\ Opening["{"] = "list" /\ Opening["<"] = "range" /\ Opening["("] = "tuple"
  BY DEF Opening
<1>2. DOMAIN Opening = {"[", "{", "<", "("} /\ DOMAIN Closing = DOMAIN Opening
  BY DEF Opening, Closing
<1>3. \E b \in DOMAIN Opening : Opening[b] = kind
  BY <1>1, <1>2 DEF ContainerTypes
<1>4. Bracket(kind) \in DOMAIN Opening /\ Opening[Bracket(kind)] = kind
  BY <1>3 DEF Bracket
<1>5. Bracket(kind) \in {"[", "{", "<", "("}
  BY <1>2, <1>4
<1> QED BY <1>4, <1>5 DEF Tokens, Opening, Closing

LEMMA ListedType ==
    ASSUME NEW strings \in Seq(Seq(Tokens))
    PROVE  Listed(strings) \in Seq(Tokens)
<1> DEFINE all == [i \in DOMAIN strings |-> IF i = 1 THEN strings[i] ELSE <<",", " ">> \o strings[i]]
<1>1. DOMAIN strings = 1..Len(strings) /\ Len(strings) \in Nat
  OBVIOUS
<1>2. <<",", " ">> \in Seq(Tokens)
  <2>1. "," \in Tokens /\ " " \in Tokens
    BY DEF Tokens, Separators
  <2>2. ASSUME NEW x \in Tokens, NEW y \in Tokens PROVE <<x, y>> \in Seq(Tokens)
    OBVIOUS
  <2> HIDE DEF all
  <2> QED BY <2>1, <2>2, Zenon
<1>3. all \in Seq(Seq(Tokens))
  <2> DEFINE separator == <<",", " ">>
  <2> HIDE DEF separator
  <2>1. separator \in Seq(Tokens)
    BY <1>2 DEF separator
  <2>2. ASSUME NEW i \in 1..Len(strings)
        PROVE  (IF i = 1 THEN strings[i] ELSE separator \o strings[i]) \in Seq(Tokens)
    BY <2>1
  <2>3. [i \in 1..Len(strings) |-> IF i = 1 THEN strings[i] ELSE separator \o strings[i]]
            \in Seq(Seq(Tokens))
    BY <1>1, <2>2
  <2> QED BY <1>1, <2>3 DEF separator
<1> HIDE DEF all
<1>4. FlattenSeq(all) \in Seq(Tokens)
  BY <1>3, FlattenType
<1> QED BY <1>4 DEF Listed, all

LEMMA WrittenType == \A g \in AllTerms : Written[g] \in Seq(Tokens)
<1> DEFINE S == {g \in AllTerms : Written[g] \in Seq(Tokens)}
<1>1. ASSUME NEW g \in AllTerms, \A i \in DOMAIN g.subs : g.subs[i] \in S PROVE g \in S
  <2> DEFINE strings == [i \in DOMAIN g.subs |-> Written[g.subs[i]]]
  <2>1. strings \in Seq(Seq(Tokens))
    <3>1. g.subs \in Seq(AllTerms)
      BY TermFields
    <3>2. DOMAIN g.subs = 1..Len(g.subs) /\ Len(g.subs) \in Nat
      BY <3>1
    <3> QED BY <3>2, <1>1
  <2> HIDE DEF strings
  <2>2. Listed(strings) \in Seq(Tokens)
    BY <2>1, ListedType
  <2>3. g.kind \in ContainerTypes \cup {"scalar"} /\ (g.kind = "scalar" => g.spec \in Specifiers)
    BY TermFields
  <2>4. g.kind = "scalar" => g.spec \in Tokens
    BY <2>3 DEF Tokens
  <2>5. g.kind # "scalar" => Bracket(g.kind) \in Tokens /\ Closing[Bracket(g.kind)] \in Tokens
    BY <2>3, BracketKind
  <2>7. <<"&">> \in Seq(Tokens) /\ << >> \in Seq(Tokens)
    BY DEF Tokens
  <2>8. g.kind # "scalar" =>
            <<Bracket(g.kind)>> \o Listed(strings) \o <<Closing[Bracket(g.kind)]>> \in Seq(Tokens)
    BY <2>2, <2>5
  <2>6. WrittenFrom(g, strings) \in Seq(Tokens)
    BY <2>4, <2>7, <2>8 DEF WrittenFrom
  <2> QED BY <2>6, WrittenParts DEF strings
<1>2. \A g \in Strings!All : (\A i \in DOMAIN Subterms(g) : Subterms(g)[i] \in S) => g \in S
  <2> HIDE DEF S
  <2> QED BY <1>1, TermsAll DEF Subterms
<1>3. Strings!All \subseteq S
  <2> HIDE DEF S
  <2> QED BY <1>2, TermsNested, Strings!NestingInduction
<1> QED BY <1>3, TermsAll

LEMMA DimensionsType == \A g \in AllTerms : Dimensions[g] \in Seq(Nat)
<1> DEFINE S == {g \in AllTerms : Dimensions[g] \in Seq(Nat)}
<1>1. ASSUME NEW g \in AllTerms, \A i \in DOMAIN g.subs : g.subs[i] \in S PROVE g \in S
  <2> DEFINE dimensions == [i \in DOMAIN g.subs |-> Dimensions[g.subs[i]]]
  <2>1. dimensions \in Seq(Seq(Nat))
    <3>1. g.subs \in Seq(AllTerms)
      BY TermFields
    <3>2. DOMAIN g.subs = 1..Len(g.subs) /\ Len(g.subs) \in Nat
      BY <3>1
    <3> QED BY <3>2, <1>1
  <2> HIDE DEF dimensions
  <2>2. FlattenSeq(dimensions) \in Seq(Nat)
    BY <2>1, FlattenType
  <2>3. g.n \in Nat
    BY TermFields
  <2>4. DimensionsFrom(g, dimensions) \in Seq(Nat)
    BY <2>2, <2>3 DEF DimensionsFrom
  <2> QED BY <2>4, DimensionsParts DEF dimensions
<1>2. \A g \in Strings!All : (\A i \in DOMAIN Subterms(g) : Subterms(g)[i] \in S) => g \in S
  <2> HIDE DEF S
  <2> QED BY <1>1, TermsAll DEF Subterms
<1>3. Strings!All \subseteq S
  <2> HIDE DEF S
  <2> QED BY <1>2, TermsNested, Strings!NestingInduction
<1> QED BY <1>3, TermsAll

-----------------------------------------------------------------------------
\* There is one first token that is not skipped.
LEMMA FirstUnique ==
    ASSUME NEW typestr \in Seq(Tokens), NEW start \in 1..(Len(typestr) + 1), NEW skipped,
           NEW i \in start..(Len(typestr) + 1), At(typestr, i) \notin skipped,
           \A j \in start..(i - 1) : typestr[j] \in skipped, "NUL" \notin skipped
    PROVE  FirstFrom(typestr, start, skipped) = i
<1> DEFINE m == FirstFrom(typestr, start, skipped)
<1>1. /\ m \in start..(Len(typestr) + 1) /\ m \in 1..(Len(typestr) + 1)
      /\ At(typestr, m) \notin skipped
      /\ \A j \in start..(m - 1) : typestr[j] \in skipped
  BY FirstFound
<1> HIDE DEF m
<1>2. Len(typestr) \in Nat /\ start \in Nat
  OBVIOUS
<1>3. ASSUME m < i PROVE FALSE
  <2>1. m \in start..(i - 1) /\ m <= Len(typestr)
    BY <1>1, <1>2, <1>3
  <2> QED BY <2>1, <1>1 DEF At
<1>4. ASSUME i < m PROVE FALSE
  <2>1. i \in start..(m - 1) /\ i <= Len(typestr)
    BY <1>1, <1>2, <1>4
  <2> QED BY <2>1, <1>1 DEF At
<1>5. m = i
  BY <1>1, <1>2, <1>3, <1>4
<1> QED BY <1>5 DEF m

\* What the first call returns, if it returns a type, is of the type of the first
\* token after separators and one "&".
LEMMA FirstTokenParsed ==
    ASSUME NEW typestr \in Seq(Tokens), NEW args, NEW stray, NEW end, NEW parse,
           parse_typestr_helper(typestr, args, stray, end, parse)[Call(1, FALSE, 0)].t # NullType
    PROVE  LET first == FirstFrom(typestr, 1, Separators)
               token == At(typestr, IF At(typestr, first) = "&" THEN first + 1 ELSE first)
               t == parse_typestr_helper(typestr, args, stray, end, parse)[Call(1, FALSE, 0)].t
           IN  \/ token \in DOMAIN base /\ t.dtype = base[token].dtype
               \/ token = "NUL" /\ t.dtype = "unset"
               \/ token \in DOMAIN Opening /\ t.dtype = Opening[token]
<1> DEFINE start == Call(1, FALSE, 0)
           first(call) == FirstFrom(typestr, call.start, Separators)
           is_reference(call) == call.is_reference \/ At(typestr, first(call)) = "&"
           cur(call) == IF At(typestr, first(call)) = "&" THEN first(call) + 1 ELSE first(call)
           token(call) == At(typestr, cur(call))
           end_brace(call) == find_end_brace(typestr, Closing[token(call)], cur(call), end)
           num_elements(call) == IF token(call) = "<" THEN 2 ELSE NextInt(args, call.ap, stray)
           ap(call) == IF token(call) = "<" THEN call.ap ELSE AfterNext(call.ap)
           elements(call) ==
               ParseElements(parse[end_brace(call)], cur(call) + 1, is_reference(call), ap(call),
                             IF token(call) = "(" THEN num_elements(call) ELSE 1)
           container(call) ==
               /\ call.start # end /\ token(call) \in DOMAIN Opening /\ end_brace(call) # NoBrace
               /\ \A i \in DOMAIN elements(call).ts : elements(call).ts[i] # NullType
           result(call) ==
              CASE call.start # end /\ token(call) \in DOMAIN base ->
                    Parsed(base_ref(token(call), is_reference(call)), cur(call) + 1, call.ap)
              [] call.start # end /\ token(call) = "NUL" -> Parsed(UnsetType, call.start, call.ap)
              [] container(call) ->
                    Parsed(ContainerType(Opening[token(call)], is_reference(call), num_elements(call), elements(call).ts),
                           IF token(call) = "(" THEN call.start ELSE end_brace(call) + 1, elements(call).ap)
              [] OTHER -> Parsed(NullType, call.start, call.ap)
           t == parse_typestr_helper(typestr, args, stray, end, parse)[start].t
<1>1. parse_typestr_helper(typestr, args, stray, end, parse) = [call \in Calls(typestr) |-> result(call)]
  BY DEF parse_typestr_helper
<1>9. start \in Calls(typestr) /\ start.start = 1
  BY DEF Call, Calls
<1>10. t = result(start).t
  <2> HIDE DEF result, start
  <2> QED BY <1>1, <1>9
<1>2. \/ token(start) \in DOMAIN base /\ \E ref : t = base_ref(token(start), ref)
      \/ token(start) = "NUL" /\ t = UnsetType
      \/ token(start) \in DOMAIN Opening /\ \E ref, n, ts : t = ContainerType(Opening[token(start)], ref, n, ts)
      \/ t = NullType
  <2> HIDE DEF t, start, token, cur, is_reference, end_brace, num_elements, ap, elements, container
  <2>1. DOMAIN base = Specifiers
    BY DEF base
  <2>2. CASE start.start # end /\ token(start) \in DOMAIN base
    <3>1. token(start) \in Specifiers
      BY <2>1, <2>2
    <3>3. token(start) # "NUL" /\ token(start) \notin {"[", "{", "<", "("}
      BY <3>1 DEF Specifiers
    <3>4. ~container(start)
      BY <3>3 DEF container, Opening
    <3>2. result(start) = Parsed(base_ref(token(start), is_reference(start)), cur(start) + 1, start.ap)
      BY <2>2, <3>3, <3>4
    <3> QED BY <1>10, <2>2, <3>2 DEF Parsed
  <2>3. CASE start.start # end /\ token(start) = "NUL"
    <3>1. "NUL" \notin Specifiers
      BY DEF Specifiers
    <3>3. ~container(start)
      BY <2>3 DEF container, Opening
    <3>2. result(start) = Parsed(UnsetType, start.start, start.ap)
      BY <2>1, <2>3, <3>1, <3>3
    <3> QED BY <1>10, <2>3, <3>2 DEF Parsed
  <2>4. CASE /\ container(start) /\ ~(start.start # end /\ token(start) \in DOMAIN base)
             /\ ~(start.start # end /\ token(start) = "NUL")
    <3>1. result(start) = Parsed(ContainerType(Opening[token(start)], is_reference(start),
                                               num_elements(start), elements(start).ts),
                                 IF token(start) = "(" THEN start.start ELSE end_brace(start) + 1,
                                 elements(start).ap)
      BY <2>4
    <3>2. t = ContainerType(Opening[token(start)], is_reference(start), num_elements(start), elements(start).ts)
      BY <1>10, <3>1 DEF Parsed
    <3>3. token(start) \in DOMAIN Opening
      BY <2>4 DEF container
    <3> QED BY <3>2, <3>3
  <2>5. CASE /\ ~container(start) /\ ~(start.start # end /\ token(start) \in DOMAIN base)
             /\ ~(start.start # end /\ token(start) = "NUL")
    <3>1. result(start) = Parsed(NullType, start.start, start.ap)
      BY <2>5
    <3> QED BY <1>10, <3>1 DEF Parsed
  <2> QED BY <2>2, <2>3, <2>4, <2>5
<1>3. \A spec \in DOMAIN base : \A ref : base_ref(spec, ref).dtype = base[spec].dtype
  <2>1. ASSUME NEW spec \in DOMAIN base, NEW ref PROVE base_ref(spec, ref).dtype = base[spec].dtype
    <3>1. spec \in Specifiers
      BY DEF base
    <3>2. base[spec] = BaseType(base[spec].dtype, base[spec].num_bytes)
      BY <3>1, BaseFields
    <3> DEFINE dtype == base[spec].dtype
               num_bytes == base[spec].num_bytes
    <3> HIDE DEF dtype, num_bytes
    <3>3. base_ref(spec, ref).dtype = dtype
      BY <3>2 DEF base_ref, BaseType, Type, dtype, num_bytes
    <3> QED BY <3>3 DEF dtype
  <2> QED BY <2>1
<1>4. UnsetType.dtype = "unset"
  BY DEF UnsetType, BaseType, Type
<1>5. \A dtype, ref, n, ts : ContainerType(dtype, ref, n, ts).dtype = dtype
  BY DEF ContainerType, Type
<1>6. t # NullType
  OBVIOUS
<1>8. token(start) = At(typestr, IF At(typestr, FirstFrom(typestr, 1, Separators)) = "&"
                                 THEN FirstFrom(typestr, 1, Separators) + 1
                                 ELSE FirstFrom(typestr, 1, Separators))
  <2> HIDE DEF start
  <2> QED BY <1>9
<1> HIDE DEF t, token
<1>7. \/ token(start) \in DOMAIN base /\ t.dtype = base[token(start)].dtype
      \/ token(start) = "NUL" /\ t.dtype = "unset"
      \/ token(start) \in DOMAIN Opening /\ t.dtype = Opening[token(start)]
  <2> HIDE DEF start
  <2>1. CASE token(start) \in DOMAIN base /\ \E ref : t = base_ref(token(start), ref)
    BY <2>1, <1>3
  <2>2. CASE token(start) = "NUL" /\ t = UnsetType
    BY <2>2, <1>4
  <2>3. CASE token(start) \in DOMAIN Opening /\ \E ref, n, ts : t = ContainerType(Opening[token(start)], ref, n, ts)
    BY <2>3, <1>5
  <2> QED BY <2>1, <2>2, <2>3, <1>2, <1>6
<1> QED
  <2> HIDE DEF start
  <2> QED BY <1>7, <1>8 DEF t, start

\* The two readings of a type string agree: if parse_typestr finds a datatype, then
\* toplevel_type finds the type at its top.
THEOREM ReadingsAgree ==
    ASSUME NEW typestr \in Seq(Tokens), NEW args, NEW stray,
           parse_typestr(typestr, args, stray) # NullType
    PROVE  toplevel_type(typestr) = parse_typestr(typestr, args, stray).dtype
<1> DEFINE last == Len(typestr) + 1
<1>1. PICK parse : /\ ParsedUpTo(parse, last, typestr, args, stray)
                   /\ parse_typestr(typestr, args, stray) = parse[last][Call(1, FALSE, 0)].t
  BY CallsParsed
<1> DEFINE before == [e \in 1..(last - 1) |-> parse[e]]
           first == FirstFrom(typestr, 1, Separators)
           cur == IF At(typestr, first) = "&" THEN first + 1 ELSE first
           token == At(typestr, cur)
           t == parse_typestr(typestr, args, stray)
           skipped == Separators \cup {"&"}
<1>2. parse[last] = parse_typestr_helper(typestr, args, stray, last, before)
  <2>1. last \in 1..last
    OBVIOUS
  <2> HIDE DEF last
  <2> QED BY <1>1, <2>1 DEF ParsedUpTo, last
<1>3. t = parse_typestr_helper(typestr, args, stray, last, before)[Call(1, FALSE, 0)].t
  BY <1>1, <1>2
<1>4. \/ token \in DOMAIN base /\ t.dtype = base[token].dtype
      \/ token = "NUL" /\ t.dtype = "unset"
      \/ token \in DOMAIN Opening /\ t.dtype = Opening[token]
  <2>1. t # NullType
    OBVIOUS
  <2> HIDE DEF t, before, last
  <2> QED BY <1>3, <2>1, FirstTokenParsed
<1>5. "NUL" \notin Separators /\ "NUL" \notin skipped /\ "&" \notin Separators
  BY DEF Separators
<1>6. Len(typestr) \in Nat /\ 1 \in 1..(Len(typestr) + 1)
  OBVIOUS
<1>7. /\ first \in 1..(Len(typestr) + 1) /\ At(typestr, first) \notin Separators
      /\ \A j \in 1..(first - 1) : typestr[j] \in Separators
  <2> HIDE DEF skipped
  <2> QED BY <1>5, <1>6, FirstFound
<1>8. token \notin skipped
  <2>1. token \in Specifiers \/ token = "NUL" \/ token \in {"[", "{", "<", "("}
    BY <1>4 DEF base, Opening
  <2> HIDE DEF token
  <2> QED BY <2>1 DEF Specifiers, Separators
<1>9. cur \in 1..(Len(typestr) + 1) /\ \A j \in 1..(cur - 1) : typestr[j] \in skipped
  <2> HIDE DEF first
  <2>1. CASE At(typestr, first) = "&"
    <3>1. first <= Len(typestr) /\ typestr[first] = "&"
      BY <2>1, <1>6, <1>7 DEF At
    <3>2. \A j \in 1..first : j = first \/ j \in 1..(first - 1)
      BY <1>6, <1>7
    <3> QED BY <2>1, <3>1, <3>2, <1>6, <1>7
  <2>2. CASE At(typestr, first) # "&"
    BY <2>2, <1>6, <1>7
  <2> QED BY <2>1, <2>2
<1>10. FirstFrom(typestr, 1, skipped) = cur
  <2> HIDE DEF cur, skipped
  <2> QED BY <1>5, <1>6, <1>8, <1>9, FirstUnique
<1>11. toplevel_type(typestr) = CASE token \in DOMAIN base       -> base[token].dtype
                                  [] token \in DOMAIN BadLengths -> BadLengths[token]
                                  [] token \in DOMAIN Opening    -> Opening[token]
                                  [] OTHER                       -> "unset"
  <2> HIDE DEF cur
  <2> QED BY <1>10 DEF toplevel_type
<1> HIDE DEF token, t
<1>12. DOMAIN base = Specifiers /\ DOMAIN BadLengths = {"%i7", "%u7", "%f7"} /\ DOMAIN Opening = {"[", "{", "<", "("}
  BY DEF base, BadLengths, Opening
<1>13. toplevel_type(typestr) = t.dtype
  <2>1. CASE token \in DOMAIN base /\ t.dtype = base[token].dtype
    <3>1. token \in Specifiers
      BY <2>1, <1>12
    <3>2. token \notin DOMAIN BadLengths /\ token \notin DOMAIN Opening
      BY <3>1, <1>12 DEF Specifiers
    <3> QED BY <2>1, <3>2, <1>11
  <2>2. CASE token = "NUL" /\ t.dtype = "unset"
    <3>1. token \notin DOMAIN BadLengths /\ token \notin DOMAIN Opening /\ token \notin DOMAIN base
      BY <2>2, <1>12 DEF Specifiers
    <3> QED BY <2>2, <3>1, <1>11
  <2>3. CASE token \in DOMAIN Opening /\ t.dtype = Opening[token]
    <3>1. token \in {"[", "{", "<", "("}
      BY <2>3, <1>12
    <3>2. token \notin DOMAIN BadLengths /\ token \notin DOMAIN base
      BY <3>1, <1>12 DEF Specifiers
    <3> QED BY <2>3, <3>2, <1>11
  <2> QED BY <2>1, <2>2, <2>3, <1>4
<1> QED BY <1>13 DEF t

-----------------------------------------------------------------------------
\* The meaning of a term is made of the meanings of its parts.
Meanings == INSTANCE Nesting WITH
    MaxDepth <- MaxLength, Over <- TermsOver, Parts <- Subterms, Step <- MeaningFrom

LEMMA MeaningParts ==
    ASSUME NEW g \in AllTerms
    PROVE  Meaning[g] = MeaningFrom(g, [i \in DOMAIN g.subs |-> Meaning[g.subs[i]]])
<1>1. Meanings!Nested /\ Meanings!All = AllTerms
  BY TermsNested DEF Meanings!Nested, Strings!Nested, Meanings!All, Meanings!UpTo, AllTerms, TermsUpTo
<1>2. Meanings!Result = Meaning
  BY <1>1 DEF Meanings!Result, Meanings!Computes, Meaning, Subterms
<1>3. Meanings!Computes(Meaning, AllTerms)
  BY <1>1, <1>2, Meanings!NestingRecursion
<1> QED BY <1>3 DEF Meanings!Computes, Subterms

\* The meaning of a scalar and of a container.
LEMMA MeaningOf ==
    ASSUME NEW g \in AllTerms, NEW inherited \in BOOLEAN
    PROVE  /\ g.kind = "scalar" => Meaning[g][inherited] = base_ref(g.spec, inherited \/ g.ref)
           /\ g.kind # "scalar" =>
                 Meaning[g][inherited]
                     = ContainerType(g.kind, inherited \/ g.ref, g.n,
                                     [i \in DOMAIN g.subs |-> Meaning[g.subs[i]][inherited \/ g.ref]])
<1> DEFINE meanings == [i \in DOMAIN g.subs |-> Meaning[g.subs[i]]]
           ref == inherited \/ g.ref
<1>1. Meaning[g] = MeaningFrom(g, meanings)
  BY MeaningParts
<1>2. [i \in DOMAIN g.subs |-> meanings[i][ref]] = [i \in DOMAIN g.subs |-> Meaning[g.subs[i]][ref]]
  OBVIOUS
<1> HIDE DEF meanings
<1>3. Meaning[g][inherited] = IF g.kind = "scalar" THEN base_ref(g.spec, ref)
                              ELSE ContainerType(g.kind, ref, g.n, [i \in DOMAIN g.subs |-> meanings[i][ref]])
  BY <1>1 DEF MeaningFrom
<1> QED BY <1>2, <1>3

\* The parts of the terms of one level.
LEMMA TermLevels ==
    /\ TermsUpTo[0] = TermsOver({})
    /\ \A d \in 1..MaxLength : TermsUpTo[d] = TermsOver(TermsUpTo[d - 1])
    /\ \A d \in 0..MaxLength : TermsUpTo[d] \subseteq AllTerms
<1>1. Strings!UpTo = TermsUpTo
  BY DEF Strings!UpTo, TermsUpTo
<1>2. Strings!Levels(TermsUpTo, MaxLength)
  BY <1>1, Strings!LevelsExist, LengthAssumption
<1>3. \A d \in 0..MaxLength : TermsUpTo[d] = TermsOver(IF d = 0 THEN {} ELSE TermsUpTo[d - 1])
  BY <1>2 DEF Strings!Levels
<1>4. \A d \in 0..MaxLength : TermsUpTo[d] \subseteq AllTerms
  BY <1>1, TermsNested, TermsAll, Strings!LevelsWithin
<1>5. 0 \in 0..MaxLength /\ \A d \in 1..MaxLength : d \in 0..MaxLength /\ d # 0
  BY LengthAssumption
<1> QED BY <1>3, <1>4, <1>5

\* A function that makes a scalar type of a scalar, and of a container one of the same
\* kind of what it makes of its parts, makes datatypes.
LEMMA TypesOfTerms ==
    ASSUME NEW f,
           \A g \in AllTerms : \A r \in BOOLEAN : g.kind = "scalar" =>
               \E spec \in Specifiers : \E ref \in BOOLEAN : f[g][r] = base_ref(spec, ref),
           \A g \in AllTerms : \A r \in BOOLEAN : g.kind # "scalar" =>
               \E ref \in BOOLEAN : \E n \in Nat : \E q \in BOOLEAN :
                   /\ f[g][r] = ContainerType(g.kind, ref, n, [i \in DOMAIN g.subs |-> f[g.subs[i]][q]])
                   /\ g.kind = "tuple" => n = Len(g.subs)
    PROVE  \A g \in AllTerms : \A r \in BOOLEAN : f[g][r] \in Datatypes
<1> DEFINE S == {d \in 0..MaxLength : \A g \in TermsUpTo[d] : \A r \in BOOLEAN : f[g][r] \in TypesUpTo[d]}
<1>0. MaxLength \in Nat
  BY LengthAssumption
<1>1. ASSUME NEW d \in 0..MaxLength, NEW g \in TermsUpTo[d], NEW r \in BOOLEAN, g.kind = "scalar"
      PROVE  f[g][r] \in TypesUpTo[d]
  <2>1. g \in AllTerms
    BY TermLevels
  <2>2. PICK spec \in Specifiers, ref \in BOOLEAN : f[g][r] = base_ref(spec, ref)
    BY <1>1, <2>1
  <2> QED BY <2>2, BaseRefType
<1>2. ASSUME NEW d \in 0..MaxLength, d # 0 => d - 1 \in S PROVE d \in S
  <2> DEFINE parts == IF d = 0 THEN {} ELSE TermsUpTo[d - 1]
             types == IF d = 0 THEN {} ELSE TypesUpTo[d - 1]
  <2>1. TermsUpTo[d] = TermsOver(parts) /\ TypesUpTo[d] = TypesOver(types) /\ TermsUpTo[d] \subseteq AllTerms
    BY TermLevels, TypesLevel
  <2>2. \A g \in parts : \A r \in BOOLEAN : f[g][r] \in types
    BY <1>2
  <2> HIDE DEF parts, types
  <2>3. ASSUME NEW g \in TermsUpTo[d], NEW r \in BOOLEAN, g.kind # "scalar" PROVE f[g][r] \in TypesUpTo[d]
    <3>1. g \in TermsOver(parts) /\ g \in AllTerms
      BY <2>1
    <3>2. g.subs \in Seq(parts)
      BY <3>1 DEF TermsOver
    <3> DEFINE subtype(q) == [i \in DOMAIN g.subs |-> f[g.subs[i]][q]]
    <3>3. ASSUME NEW q \in BOOLEAN PROVE subtype(q) \in Seq(types) /\ Len(subtype(q)) = Len(g.subs)
      <4>1. DOMAIN g.subs = 1..Len(g.subs) /\ Len(g.subs) \in Nat
        BY <3>2
      <4>2. \A i \in 1..Len(g.subs) : f[g.subs[i]][q] \in types
        BY <2>2, <3>2
      <4> QED BY <4>1, <4>2
    <3> HIDE DEF subtype
    <3>4. PICK ref \in BOOLEAN, n \in Nat, q \in BOOLEAN :
              f[g][r] = ContainerType(g.kind, ref, n, subtype(q)) /\ (g.kind = "tuple" => n = Len(g.subs))
      BY <2>3, <3>1 DEF subtype
    <3>5. g.kind \in ContainerTypes /\ (g.kind # "tuple" => Len(g.subs) = 1)
      BY <2>3, <3>1, TermFields DEF ContainerTypes
    <3>6. Len(subtype(q)) = IF g.kind = "tuple" THEN n ELSE 1
      BY <3>3, <3>4, <3>5
    <3>8. subtype(q) \in Seq(types)
      BY <3>3
    <3>7. ContainerType(g.kind, ref, n, subtype(q)) \in TypesOver(types)
      BY <3>5, <3>6, <3>8, ContainerTypeOver
    <3> QED BY <2>1, <3>4, <3>7
  <2> QED BY <2>3, <1>1
<1>4. MaxLength \in S
  <2>1. S \subseteq 0..MaxLength
    OBVIOUS
  <2> HIDE DEF S
  <2>2. 0 \in S /\ \A d \in 1..MaxLength : d - 1 \in S => d \in S
    BY <1>0, <1>2
  <2>3. \A d \in 0..MaxLength : d \in S
    BY <1>0, <2>1, <2>2, Induction
  <2> QED BY <2>3, <1>0
<1> QED BY <1>4 DEF AllTerms, Datatypes

\* The meaning of a term is a datatype.
LEMMA MeaningType ==
    ASSUME NEW g \in AllTerms, NEW inherited \in BOOLEAN
    PROVE  Meaning[g][inherited] \in Datatypes
<1>1. \A h \in AllTerms : \A r \in BOOLEAN : h.kind = "scalar" =>
          \E spec \in Specifiers : \E ref \in BOOLEAN : Meaning[h][r] = base_ref(spec, ref)
  <2> SUFFICES ASSUME NEW h \in AllTerms, NEW r \in BOOLEAN, h.kind = "scalar"
               PROVE  \E spec \in Specifiers : \E ref \in BOOLEAN : Meaning[h][r] = base_ref(spec, ref)
    OBVIOUS
  <2>1. (r \/ h.ref) \in BOOLEAN /\ h.spec \in Specifiers
    BY TermFields
  <2> QED BY <2>1, MeaningOf
<1>2. \A h \in AllTerms : \A r \in BOOLEAN : h.kind # "scalar" =>
          \E ref \in BOOLEAN : \E n \in Nat : \E q \in BOOLEAN :
              /\ Meaning[h][r] = ContainerType(h.kind, ref, n, [i \in DOMAIN h.subs |-> Meaning[h.subs[i]][q]])
              /\ h.kind = "tuple" => n = Len(h.subs)
  <2> SUFFICES ASSUME NEW h \in AllTerms, NEW r \in BOOLEAN, h.kind # "scalar"
               PROVE  \E ref \in BOOLEAN : \E n \in Nat : \E q \in BOOLEAN :
                          /\ Meaning[h][r] = ContainerType(h.kind, ref, n, [i \in DOMAIN h.subs |-> Meaning[h.subs[i]][q]])
                          /\ h.kind = "tuple" => n = Len(h.subs)
    OBVIOUS
  <2> DEFINE ref == r \/ h.ref
  <2>1. ref \in BOOLEAN /\ h.n \in Nat /\ (h.kind = "tuple" => h.n = Len(h.subs))
    BY TermFields
  <2>2. Meaning[h][r] = ContainerType(h.kind, ref, h.n, [i \in DOMAIN h.subs |-> Meaning[h.subs[i]][ref]])
    BY MeaningOf
  <2> HIDE DEF ref
  <2> QED BY <2>1, <2>2
<1> QED BY <1>1, <1>2, TypesOfTerms

\* The type at the top of a term is the first that is read of its string.
LEMMA WrittenTop ==
    ASSUME NEW g \in AllTerms
    PROVE  toplevel_type(Written[g]) = Meaning[g][FALSE].dtype
<1> DEFINE strings == [i \in DOMAIN g.subs |-> Written[g.subs[i]]]
           mark == IF g.ref THEN <<"&">> ELSE << >>
           rest == IF g.kind = "scalar" THEN <<g.spec>>
                   ELSE <<Bracket(g.kind)>> \o Listed(strings) \o <<Closing[Bracket(g.kind)]>>
           cur == IF g.ref THEN 2 ELSE 1
           token == IF g.kind = "scalar" THEN g.spec ELSE Bracket(g.kind)
           skipped == Separators \cup {"&"}
           typestr == Written[g]
<1>1. typestr \in Seq(Tokens) /\ Len(typestr) \in Nat /\ g.ref \in BOOLEAN
  BY WrittenType, TermFields
<1>2. typestr = mark \o rest
  BY WrittenParts DEF WrittenFrom
<1>3. g.kind = "scalar" \/ g.kind \in ContainerTypes
  BY TermFields
<1>4. Listed(strings) \in Seq(Tokens)
  <2>1. g.subs \in Seq(AllTerms)
    BY TermFields
  <2>2. DOMAIN g.subs = 1..Len(g.subs) /\ Len(g.subs) \in Nat
    BY <2>1
  <2>3. strings \in Seq(Seq(Tokens))
    BY <2>1, <2>2, WrittenType
  <2> HIDE DEF strings
  <2> QED BY <2>3, ListedType
<1> HIDE DEF strings
<1>5. rest \in Seq(Tokens) /\ Len(rest) >= 1 /\ Len(rest) \in Nat /\ rest[1] = token
  <2>1. CASE g.kind = "scalar"
    <3>1. g.spec \in Tokens
      BY <2>1, TermFields DEF Tokens
    <3> QED BY <2>1, <3>1
  <2>2. CASE g.kind # "scalar"
    <3>1. Bracket(g.kind) \in Tokens /\ Closing[Bracket(g.kind)] \in Tokens
      BY <1>3, <2>2, BracketKind
    <3> DEFINE open == Bracket(g.kind)
               close == Closing[Bracket(g.kind)]
               inside == Listed(strings)
    <3>2. rest = <<open>> \o inside \o <<close>>
      BY <2>2
    <3>3. open \in Tokens /\ close \in Tokens /\ inside \in Seq(Tokens) /\ token = open
      BY <3>1, <1>4, <2>2
    <3> HIDE DEF open, close, inside, rest, token
    <3> QED BY <3>2, <3>3
  <2> QED BY <2>1, <2>2
<1>6. token \in DOMAIN base \cup DOMAIN Opening
  <2>1. CASE g.kind = "scalar"
    BY <2>1, TermFields DEF base
  <2>2. CASE g.kind # "scalar"
    BY <2>2, <1>3, BracketKind
  <2> QED BY <2>1, <2>2
<1>7. DOMAIN base = Specifiers /\ DOMAIN BadLengths = {"%i7", "%u7", "%f7"} /\ DOMAIN Opening = {"[", "{", "<", "("}
  BY DEF base, BadLengths, Opening
<1>8. token \notin skipped /\ token \notin DOMAIN BadLengths
      /\ ~(token \in DOMAIN base /\ token \in DOMAIN Opening)
  <2> HIDE DEF token
  <2> QED BY <1>6, <1>7 DEF Specifiers, Separators
<1>9. cur \in 1..(Len(typestr) + 1) /\ At(typestr, cur) = token /\ \A j \in 1..(cur - 1) : typestr[j] \in skipped
  <2> HIDE DEF rest, token, typestr
  <2>0. "&" \in Tokens
    BY DEF Tokens
  <2>1. CASE g.ref
    <3>1. typestr = <<"&">> \o rest
      BY <1>2, <2>1
    <3>2. Len(typestr) = 1 + Len(rest) /\ typestr[1] = "&" /\ typestr[2] = rest[1]
      <4> HIDE DEF skipped
      <4> QED BY <2>0, <3>1, <1>5
    <3> QED BY <3>2, <1>5, <2>1 DEF At
  <2>2. CASE ~g.ref
    <3>1. typestr = << >> \o rest
      BY <1>2, <2>2
    <3>2. typestr = rest
      BY <3>1, <1>5
    <3> QED BY <3>2, <1>5, <2>2 DEF At
  <2> QED BY <2>1, <2>2
<1>10. FirstFrom(typestr, 1, skipped) = cur
  <2>1. 1 \in 1..(Len(typestr) + 1) /\ "NUL" \notin skipped
    BY <1>1 DEF Separators
  <2> HIDE DEF cur, skipped, token, typestr
  <2> QED BY <1>1, <1>8, <1>9, <2>1, FirstUnique
<1>11. toplevel_type(typestr) = CASE token \in DOMAIN base       -> base[token].dtype
                                  [] token \in DOMAIN BadLengths -> BadLengths[token]
                                  [] token \in DOMAIN Opening    -> Opening[token]
                                  [] OTHER                       -> "unset"
  <2> HIDE DEF cur, token, typestr
  <2> QED BY <1>9, <1>10 DEF toplevel_type
<1>12. CASE g.kind = "scalar"
  <2>1. g.spec \in Specifiers /\ token = g.spec
    BY <1>12, TermFields
  <2>2. toplevel_type(typestr) = base[g.spec].dtype
    <3> HIDE DEF typestr, token
    <3> QED BY <1>7, <1>8, <1>11, <2>1
  <2>3. Meaning[g][FALSE] = base_ref(g.spec, FALSE \/ g.ref)
    BY <1>12, MeaningOf
  <2>4. base[g.spec] = BaseType(base[g.spec].dtype, base[g.spec].num_bytes)
    BY <2>1, BaseFields
  <2> DEFINE dtype == base[g.spec].dtype
             num_bytes == base[g.spec].num_bytes
  <2> HIDE DEF dtype, num_bytes
  <2>5. base[g.spec] = BaseType(dtype, num_bytes)
    BY <2>4 DEF dtype, num_bytes
  <2>6. \A ref : base_ref(g.spec, ref).dtype = dtype
    BY <2>5 DEF base_ref, BaseType, Type
  <2> QED BY <2>2, <2>3, <2>6 DEF dtype
<1>13. CASE g.kind # "scalar"
  <2>1. token = Bracket(g.kind) /\ token \in DOMAIN Opening /\ Opening[token] = g.kind
    BY <1>3, <1>13, BracketKind
  <2>2. toplevel_type(typestr) = g.kind
    <3> HIDE DEF typestr, token
    <3> QED BY <1>8, <1>11, <2>1
  <2>3. Meaning[g][FALSE] = ContainerType(g.kind, FALSE \/ g.ref, g.n,
                                [i \in DOMAIN g.subs |-> Meaning[g.subs[i]][FALSE \/ g.ref]])
    BY <1>13, MeaningOf
  <2>4. \A kind, ref, n, ts : ContainerType(kind, ref, n, ts).dtype = kind
    BY DEF ContainerType, Type
  <2> QED BY <2>2, <2>3, <2>4
<1> QED BY <1>12, <1>13

-----------------------------------------------------------------------------
\* The parser reads what the documentation writes.

\* FlattenSeq has the sequences one after the other, sequence i behind position
\* at[i - 1].
Placed(flat, at, seqs) ==
    /\ at \in [0..Len(seqs) -> Nat] /\ at[0] = 0 /\ at[Len(seqs)] = Len(flat)
    /\ \A i \in 1..Len(seqs) :
           /\ at[i] = at[i - 1] + Len(seqs[i]) /\ at[i] <= Len(flat)
           /\ \A k \in 1..Len(seqs[i]) : flat[at[i - 1] + k] = seqs[i][k]

LEMMA FlattenPlaces ==
    ASSUME NEW S, NEW seqs \in Seq(Seq(S))
    PROVE  FlattenSeq(seqs) \in Seq(S) /\ \E at : Placed(FlattenSeq(seqs), at, seqs)
<1>1. CASE Len(seqs) = 0
  <2>1. seqs = << >>
    BY <1>1
  <2>2. FlattenSeq(seqs) = << >>
    BY <1>1, <2>1 DEF FlattenSeq
  <2>3. Placed(<< >>, [i \in 0..0 |-> 0], seqs)
    BY <2>1 DEF Placed
  <2> QED BY <2>2, <2>3, FlattenType
<1>2. CASE Len(seqs) # 0
  <2> DEFINE n == Len(seqs)
  <2>1. n \in Nat /\ n >= 1 /\ DOMAIN seqs = 1..n
    BY <1>2
  <2>2. PICK flat : /\ Flattens(flat, seqs) /\ FlattenSeq(seqs) = flat[n]
                    /\ \A i \in 1..n : flat[i] \in Seq(S)
    BY <1>2, FlattenSteps
  <2> DEFINE at == [i \in 0..n |-> IF i = 0 THEN 0 ELSE Len(flat[i])]
  <2>3. \A i \in 1..n : flat[i] = IF i = 1 THEN seqs[i] ELSE flat[i - 1] \o seqs[i]
    BY <2>2 DEF Flattens
  <2>4. \A i \in 1..n : seqs[i] \in Seq(S) /\ Len(seqs[i]) \in Nat /\ Len(flat[i]) \in Nat
    BY <2>2
  <2>5. at \in [0..n -> Nat] /\ at[0] = 0 /\ \A i \in 1..n : at[i] = Len(flat[i])
    <3>1. \A i \in 0..n : i = 0 \/ i \in 1..n
      BY <2>1
    <3> HIDE DEF n
    <3> QED BY <2>1, <2>4, <3>1
  <2> HIDE DEF at, n
  <2>6. ASSUME NEW i \in 1..n
        PROVE  /\ at[i] = at[i - 1] + Len(seqs[i])
               /\ \A k \in 1..at[i - 1] : i # 1 => flat[i][k] = flat[i - 1][k]
               /\ \A k \in 1..Len(seqs[i]) : flat[i][at[i - 1] + k] = seqs[i][k]
    <3>1. CASE i = 1
      BY <3>1, <2>1, <2>3, <2>4, <2>5
    <3>2. CASE i # 1
      <4>1. i - 1 \in 1..n
        BY <3>2, <2>1
      <4>2. flat[i] = flat[i - 1] \o seqs[i] /\ flat[i - 1] \in Seq(S) /\ seqs[i] \in Seq(S)
        BY <4>1, <3>2, <2>2, <2>3, <2>4
      <4>3. at[i] = Len(flat[i]) /\ at[i - 1] = Len(flat[i - 1])
        BY <4>1, <2>5
      <4> DEFINE u == flat[i - 1]
                 v == seqs[i]
      <4>4. flat[i] = u \o v /\ u \in Seq(S) /\ v \in Seq(S) /\ at[i - 1] = Len(u) /\ at[i] = Len(flat[i])
        BY <4>2, <4>3
      <4> HIDE DEF u, v
      <4>5. /\ at[i] = Len(u) + Len(v) /\ \A k \in 1..Len(u) : flat[i][k] = u[k]
            /\ \A k \in 1..Len(v) : flat[i][Len(u) + k] = v[k]
        BY <4>4
      <4> QED BY <4>4, <4>5 DEF u, v
    <3> QED BY <3>1, <3>2
  <2> DEFINE T == {m \in 0..n : \A i \in 1..m :
                      at[i] <= at[m] /\ \A k \in 1..Len(seqs[i]) : flat[m][at[i - 1] + k] = seqs[i][k]}
  <2>7. 0 \in T
    BY <2>1
  <2>8. ASSUME NEW m \in 1..n, m - 1 \in T PROVE m \in T
    <3> SUFFICES ASSUME NEW i \in 1..m
                 PROVE  at[i] <= at[m] /\ \A k \in 1..Len(seqs[i]) : flat[m][at[i - 1] + k] = seqs[i][k]
      BY <2>1
    <3>1. CASE i = m
      BY <3>1, <2>5, <2>6
    <3>2. CASE i # m
      <4>1. i \in 1..(m - 1) /\ i \in 1..n /\ m # 1 /\ m - 1 \in 0..n /\ i - 1 \in 0..n /\ i \in 0..n /\ m \in 0..n
        BY <3>2, <2>1
      <4>2. at[i] <= at[m - 1] /\ \A k \in 1..Len(seqs[i]) : flat[m - 1][at[i - 1] + k] = seqs[i][k]
        BY <4>1, <2>8
      <4>3. at[m] = at[m - 1] + Len(seqs[m]) /\ at[i] = at[i - 1] + Len(seqs[i])
        BY <4>1, <2>6
      <4>4. at[m] \in Nat /\ at[m - 1] \in Nat /\ at[i] \in Nat /\ at[i - 1] \in Nat /\ Len(seqs[m]) \in Nat /\ Len(seqs[i]) \in Nat
        BY <4>1, <2>4, <2>5
      <4>5. at[i] <= at[m]
        BY <4>2, <4>3, <4>4
      <4>6. ASSUME NEW k \in 1..Len(seqs[i]) PROVE flat[m][at[i - 1] + k] = seqs[i][k]
        <5>1. at[i - 1] + k \in 1..at[m - 1]
          <6> DEFINE x == at[i - 1]
                     y == at[m - 1]
                     z == Len(seqs[i])
          <6>1. x \in Nat /\ y \in Nat /\ z \in Nat /\ k \in 1..z /\ x + z <= y
            BY <4>2, <4>3, <4>4
          <6> HIDE DEF x, y, z
          <6>2. x + k \in 1..y
            BY <6>1
          <6> QED BY <6>2 DEF x, y
        <5>2. flat[m][at[i - 1] + k] = flat[m - 1][at[i - 1] + k]
          BY <4>1, <5>1, <2>6
        <5> QED BY <4>2, <5>2
      <4> QED BY <4>5, <4>6
    <3> QED BY <3>1, <3>2
  <2>9. \A m \in 0..n : m \in T
    <3>1. T \subseteq 0..n
      OBVIOUS
    <3> HIDE DEF T
    <3> QED BY <2>1, <2>7, <2>8, <3>1, Induction
  <2>10. n \in T /\ n \in 1..n
    BY <2>1, <2>9
  <2>11. Placed(FlattenSeq(seqs), at, seqs)
    BY <2>2, <2>5, <2>6, <2>10 DEF Placed, n
  <2> QED BY <2>11, FlattenType
<1> QED BY <1>1, <1>2

-----------------------------------------------------------------------------
\* A word is in a string behind a position.
Behind(s, b, w) == b + Len(w) <= Len(s) /\ \A k \in 1..Len(w) : s[b + k] = w[k]

LEMMA BehindPart ==
    ASSUME NEW S, NEW s \in Seq(S), NEW b \in Nat, NEW u \in Seq(S), NEW v \in Seq(S), Behind(s, b, u \o v)
    PROVE  Behind(s, b, u) /\ Behind(s, b + Len(u), v) /\ Len(u \o v) = Len(u) + Len(v)
<1>1. /\ Len(u \o v) = Len(u) + Len(v) /\ \A k \in 1..Len(u) : (u \o v)[k] = u[k]
      /\ \A k \in 1..Len(v) : (u \o v)[Len(u) + k] = v[k]
  OBVIOUS
<1>2. Len(u) \in Nat /\ Len(v) \in Nat /\ Len(s) \in Nat
  OBVIOUS
<1> DEFINE w == u \o v
<1>3. b + Len(w) <= Len(s) /\ \A k \in 1..Len(w) : s[b + k] = w[k]
  BY DEF Behind
<1>4. Len(w) = Len(u) + Len(v) /\ (\A k \in 1..Len(u) : w[k] = u[k]) /\ (\A k \in 1..Len(v) : w[Len(u) + k] = v[k])
  BY <1>1
<1> HIDE DEF w
<1>5. ASSUME NEW k \in 1..Len(u) PROVE s[b + k] = u[k]
  <2>1. k \in 1..Len(w)
    BY <1>2, <1>4
  <2> QED BY <2>1, <1>3, <1>4
<1>6. ASSUME NEW k \in 1..Len(v) PROVE s[(b + Len(u)) + k] = v[k]
  <2>1. Len(u) + k \in 1..Len(w) /\ (b + Len(u)) + k = b + (Len(u) + k)
    BY <1>2, <1>4
  <2> QED BY <2>1, <1>3, <1>4
<1>7. b + Len(u) <= Len(s) /\ (b + Len(u)) + Len(v) <= Len(s)
  BY <1>2, <1>3, <1>4
<1> QED BY <1>4, <1>5, <1>6, <1>7 DEF Behind, w

LEMMA BehindPlaced ==
    ASSUME NEW S, NEW s \in Seq(S), NEW b \in Nat, NEW seqs \in Seq(Seq(S)), NEW flat \in Seq(S), NEW at,
           Placed(flat, at, seqs), Behind(s, b, flat), NEW i \in 1..Len(seqs)
    PROVE  Behind(s, b + at[i - 1], seqs[i]) /\ b + at[i - 1] \in Nat
<1>1. i \in 0..Len(seqs) /\ i - 1 \in 0..Len(seqs) /\ Len(seqs) \in Nat /\ Len(seqs[i]) \in Nat
      /\ Len(flat) \in Nat /\ Len(s) \in Nat
  OBVIOUS
<1>2. /\ at[i] = at[i - 1] + Len(seqs[i]) /\ at[i] <= Len(flat)
      /\ \A k \in 1..Len(seqs[i]) : flat[at[i - 1] + k] = seqs[i][k]
      /\ at[i] \in Nat /\ at[i - 1] \in Nat
  BY <1>1 DEF Placed
<1>3. b + Len(flat) <= Len(s) /\ \A k \in 1..Len(flat) : s[b + k] = flat[k]
  BY DEF Behind
<1>4. ASSUME NEW k \in 1..Len(seqs[i]) PROVE s[(b + at[i - 1]) + k] = seqs[i][k]
  <2> DEFINE x == at[i - 1]
             y == Len(flat)
             z == Len(seqs[i])
  <2>1. x \in Nat /\ y \in Nat /\ z \in Nat /\ k \in 1..z /\ x + z <= y
    BY <1>1, <1>2
  <2> HIDE DEF x, y, z
  <2>2. x + k \in 1..y /\ (b + x) + k = b + (x + k)
    BY <2>1
  <2>3. at[i - 1] + k \in 1..Len(flat) /\ (b + at[i - 1]) + k = b + (at[i - 1] + k)
    BY <2>2 DEF x, y
  <2> QED BY <2>3, <1>2, <1>3
<1>5. (b + at[i - 1]) + Len(seqs[i]) <= Len(s)
  <2> DEFINE x == at[i - 1]
             y == Len(flat)
             z == Len(seqs[i])
  <2>1. x \in Nat /\ y \in Nat /\ z \in Nat /\ Len(s) \in Nat /\ x + z <= y /\ b + y <= Len(s)
    BY <1>1, <1>2, <1>3
  <2> HIDE DEF x, y, z
  <2>2. (b + x) + z <= Len(s)
    BY <2>1
  <2> QED BY <2>2 DEF x, z
<1> QED BY <1>2, <1>4, <1>5 DEF Behind

-----------------------------------------------------------------------------
\* depth counts the brackets of a string behind position b, as far as position e.
Counts(depth, s, b, e) ==
    /\ \A i \in b..e : depth[i] \in Int
    /\ \A i \in (b + 1)..e : depth[i] = depth[i - 1] + Deeper(s[i])

\* All brackets in a word that open are closed in it, and the other way round.
Balanced(w) ==
    \A s \in Seq(Tokens) : \A b \in Nat : \A depth :
        Behind(s, b, w) /\ Counts(depth, s, b, b + Len(w)) =>
            /\ depth[b + Len(w)] = depth[b]
            /\ \A i \in b..(b + Len(w)) : depth[i] >= depth[b]

LEMMA CountsPart ==
    ASSUME NEW depth, NEW s, NEW b \in Nat, NEW e \in Nat, Counts(depth, s, b, e),
           NEW c \in b..e, NEW d \in c..e
    PROVE  Counts(depth, s, c, d)
<1>1. \A i \in c..d : i \in b..e
  OBVIOUS
<1>2. \A i \in (c + 1)..d : i \in (b + 1)..e
  OBVIOUS
<1> QED BY <1>1, <1>2 DEF Counts

LEMMA BalancedPair ==
    ASSUME NEW u \in Seq(Tokens), NEW v \in Seq(Tokens), Balanced(u), Balanced(v)
    PROVE  Balanced(u \o v)
<1> SUFFICES ASSUME NEW s \in Seq(Tokens), NEW b \in Nat, NEW depth, Behind(s, b, u \o v),
                    Counts(depth, s, b, b + Len(u \o v))
             PROVE  /\ depth[b + Len(u \o v)] = depth[b]
                    /\ \A i \in b..(b + Len(u \o v)) : depth[i] >= depth[b]
  BY DEF Balanced
<1> DEFINE m == b + Len(u)
           e == b + Len(u \o v)
<1>1. Behind(s, b, u) /\ Behind(s, m, v) /\ Len(u \o v) = Len(u) + Len(v)
  BY BehindPart
<1>2. m \in b..e /\ e \in m..e /\ e \in Nat /\ b \in b..e /\ m \in Nat /\ e = m + Len(v)
  <2>1. Len(u) \in Nat /\ Len(v) \in Nat
    OBVIOUS
  <2> QED BY <1>1, <2>1
<1> HIDE DEF e
<1>3. Counts(depth, s, b, m) /\ Counts(depth, s, m, e)
  <2>1. Counts(depth, s, b, e)
    BY DEF e
  <2> HIDE DEF m
  <2>2. b \in b..e /\ m \in b..e /\ m \in b..e /\ e \in m..e
    BY <1>2
  <2> QED BY <2>1, <2>2, <1>2, CountsPart
<1>4. depth[m] = depth[b] /\ \A i \in b..m : depth[i] >= depth[b]
  BY <1>1, <1>3 DEF Balanced
<1>5. depth[m + Len(v)] = depth[m] /\ \A i \in m..(m + Len(v)) : depth[i] >= depth[m]
  <2>1. Counts(depth, s, m, m + Len(v))
    BY <1>2, <1>3
  <2> HIDE DEF m
  <2> QED BY <1>1, <1>2, <2>1 DEF Balanced
<1>6. \A i \in b..e : i \in b..m \/ i \in m..e
  BY <1>2
<1> HIDE DEF m
<1>7. depth[e] = depth[b] /\ \A i \in b..e : depth[i] >= depth[b]
  BY <1>2, <1>4, <1>5, <1>6
<1> QED BY <1>7 DEF e

LEMMA BalancedToken ==
    ASSUME NEW token, Deeper(token) = 0
    PROVE  Balanced(<<token>>)
<1> SUFFICES ASSUME NEW s \in Seq(Tokens), NEW b \in Nat, NEW depth, Behind(s, b, <<token>>),
                    Counts(depth, s, b, b + 1)
             PROVE  /\ depth[b + 1] = depth[b]
                    /\ \A i \in b..(b + 1) : depth[i] >= depth[b]
  <2>1. Len(<<token>>) = 1
    OBVIOUS
  <2> QED BY <2>1 DEF Balanced
<1>1. s[b + 1] = token
  BY DEF Behind
<1>2. b \in b..(b + 1) /\ b + 1 \in b..(b + 1) /\ b + 1 \in (b + 1)..(b + 1) /\ (b + 1) - 1 = b
  OBVIOUS
<1>3. depth[b] \in Int /\ depth[b + 1] = depth[b] + 0
  BY <1>1, <1>2 DEF Counts
<1>4. \A i \in b..(b + 1) : i = b \/ i = b + 1
  OBVIOUS
<1> QED BY <1>3, <1>4

LEMMA BalancedEmpty == Balanced(<< >>)
<1> SUFFICES ASSUME NEW s \in Seq(Tokens), NEW b \in Nat, NEW depth, Counts(depth, s, b, b)
             PROVE  \A i \in b..b : depth[i] >= depth[b]
  BY DEF Balanced
<1>1. depth[b] \in Int /\ \A i \in b..b : i = b
  BY DEF Counts
<1> QED BY <1>1

\* A word in brackets.
Enclosed(open, w) == <<open>> \o w \o <<Closing[open]>>

LEMMA BracketDepth ==
    ASSUME NEW open \in DOMAIN Opening, NEW close, close = Closing[open]
    PROVE  open \in Tokens /\ close \in Tokens /\ Deeper(open) = 1 /\ Deeper(close) = -1
<1>1. open \in {"[", "{", "<", "("}
  BY DEF Opening
<1>2. open \in DOMAIN Closing /\ close \in {"]", "}", ">", ")"} /\ close \notin DOMAIN Closing
  BY <1>1 DEF Closing
<1>3. Deeper(open) = 1 /\ Deeper(close) = -1
  <2> DEFINE x == open
             y == close
  <2> HIDE DEF x, y
  <2>1. x \in DOMAIN Closing /\ x \notin {"]", "}", ">", ")"}
    BY <1>1, <1>2 DEF x
  <2>2. y \notin DOMAIN Closing /\ y \in {"]", "}", ">", ")"}
    BY <1>2 DEF y
  <2>3. Deeper(x) = 1
    BY <2>1 DEF Deeper
  <2>4. Deeper(y) = -1
    BY <2>2 DEF Deeper
  <2> QED BY <2>3, <2>4 DEF x, y
<1> QED BY <1>1, <1>2, <1>3 DEF Tokens, Opening

\* The depth in a word in brackets: the bracket at its end is the first behind which
\* the depth is what it was.
LEMMA EnclosedDepth ==
    ASSUME NEW w \in Seq(Tokens), Balanced(w), NEW open \in DOMAIN Opening,
           NEW s \in Seq(Tokens), NEW b \in Nat, NEW depth,
           Behind(s, b, Enclosed(open, w)), Counts(depth, s, b, b + Len(w) + 2)
    PROVE  /\ depth[b + Len(w) + 2] = depth[b]
           /\ \A i \in (b + 1)..(b + Len(w) + 1) : depth[i] >= depth[b] + 1
           /\ s[b + 1] = open /\ s[b + Len(w) + 2] = Closing[open] /\ Behind(s, b + 1, w)
           /\ b + Len(w) + 2 <= Len(s)
<1> DEFINE close == Closing[open]
<1> HIDE DEF close
<1>0. open \in Tokens /\ close \in Tokens /\ Deeper(open) = 1 /\ Deeper(close) = -1
  BY BracketDepth DEF close
<1> DEFINE first == <<open>>
           last == <<close>>
<1>1. first \in Seq(Tokens) /\ last \in Seq(Tokens) /\ Len(first) = 1 /\ Len(last) = 1
      /\ first[1] = open /\ last[1] = close
  BY <1>0
<1>2. Len(w) \in Nat /\ first \o w \in Seq(Tokens) /\ Len(first \o w) = 1 + Len(w)
  BY <1>1
<1>3. Behind(s, b, first \o w) /\ Behind(s, b + (1 + Len(w)), last)
  <2> DEFINE u == first \o w
  <2>1. Behind(s, b, u \o last) /\ u \in Seq(Tokens) /\ Len(u) = 1 + Len(w) /\ last \in Seq(Tokens)
    BY <1>1, <1>2 DEF Enclosed, close
  <2> HIDE DEF first, last, u
  <2>2. Behind(s, b, u) /\ Behind(s, b + Len(u), last)
    BY <2>1, BehindPart
  <2> QED BY <2>1, <2>2 DEF u
<1>4. Behind(s, b, first) /\ Behind(s, b + 1, w)
  <2> HIDE DEF first, last
  <2> QED BY <1>1, <1>2, <1>3, BehindPart
<1>5. s[b + 1] = open /\ s[b + Len(w) + 2] = close /\ b + Len(w) + 2 <= Len(s)
  <2>1. 1 \in 1..1 /\ (b + (1 + Len(w))) + 1 = b + Len(w) + 2
    BY <1>2
  <2> HIDE DEF first, last
  <2> QED BY <1>1, <1>3, <1>4, <2>1 DEF Behind
<1> HIDE DEF first, last
<1> DEFINE c == b + 1
           d == c + Len(w)
           e == b + Len(w) + 2
<1>6. c \in Nat /\ d \in Nat /\ e \in Nat /\ c \in b..e /\ d \in c..e /\ c \in (b + 1)..e
      /\ e \in (b + 1)..e /\ b \in b..e /\ c - 1 = b /\ e - 1 = d
  BY <1>2
<1>7. Counts(depth, s, b, e)
  OBVIOUS
<1> HIDE DEF e
<1>8. depth[b] \in Int /\ depth[c] = depth[b] + 1
  <2>1. depth[c] = depth[c - 1] + Deeper(s[c])
    BY <1>6, <1>7 DEF Counts
  <2> QED BY <2>1, <1>0, <1>5, <1>6, <1>7 DEF Counts
<1>9. Counts(depth, s, c, d)
  <2> HIDE DEF c, d
  <2> QED BY <1>6, <1>7, CountsPart
<1>10. depth[d] = depth[c] /\ \A i \in c..d : depth[i] >= depth[c]
  <2>1. Counts(depth, s, c, c + Len(w)) /\ Behind(s, c, w) /\ c \in Nat
    BY <1>4, <1>6, <1>9
  <2> HIDE DEF c
  <2> QED BY <2>1 DEF Balanced
<1>11. depth[e] = depth[b]
  <2>1. depth[e] = depth[e - 1] + Deeper(s[e])
    BY <1>6, <1>7 DEF Counts
  <2>2. s[e] = close
    BY <1>5 DEF e
  <2> HIDE DEF c, d
  <2> QED BY <2>1, <2>2, <1>0, <1>6, <1>8, <1>10
<1>12. \A i \in c..d : depth[i] >= depth[b] + 1
  <2> HIDE DEF c, d
  <2> QED BY <1>8, <1>10
<1>13. d = b + Len(w) + 1
  BY <1>2
<1> QED BY <1>4, <1>5, <1>11, <1>12, <1>13 DEF e, close

LEMMA EnclosedLength ==
    ASSUME NEW w \in Seq(Tokens), NEW open \in DOMAIN Opening
    PROVE  Enclosed(open, w) \in Seq(Tokens) /\ Len(w) \in Nat /\ Len(Enclosed(open, w)) = Len(w) + 2
<1> DEFINE close == Closing[open]
           first == <<open>>
           last == <<close>>
<1>1. open \in Tokens /\ close \in Tokens
  BY BracketDepth
<1> HIDE DEF close
<1>2. first \in Seq(Tokens) /\ last \in Seq(Tokens) /\ Len(first) = 1 /\ Len(last) = 1
  BY <1>1
<1>3. Len(w) \in Nat /\ first \o w \in Seq(Tokens) /\ Len(first \o w) = 1 + Len(w)
  BY <1>2
<1> DEFINE u == first \o w
<1>4. u \in Seq(Tokens) /\ Len(u) = 1 + Len(w)
  BY <1>3
<1> HIDE DEF u
<1>5. u \o last \in Seq(Tokens) /\ Len(u \o last) = Len(u) + 1
  BY <1>2, <1>4
<1>6. u \o last \in Seq(Tokens) /\ Len(w) \in Nat /\ Len(u \o last) = Len(w) + 2
  BY <1>3, <1>4, <1>5
<1> QED BY <1>6 DEF u, close, Enclosed

LEMMA EnclosedFirst ==
    ASSUME NEW w \in Seq(Tokens), NEW open \in DOMAIN Opening
    PROVE  Enclosed(open, w)[1] = open
<1> DEFINE close == Closing[open]
           first == <<open>>
           last == <<close>>
<1>1. open \in Tokens /\ close \in Tokens
  BY BracketDepth
<1> HIDE DEF close
<1>2. first \in Seq(Tokens) /\ last \in Seq(Tokens) /\ Len(first) = 1 /\ first[1] = open
  BY <1>1
<1> DEFINE u == first \o w
<1>3. u \in Seq(Tokens) /\ Len(u) = 1 + Len(w) /\ u[1] = open
  <2>1. u \in Seq(Tokens) /\ Len(u) = 1 + Len(w)
    BY <1>2
  <2>2. u[1] = open
    BY <1>2
  <2> QED BY <2>1, <2>2
<1> HIDE DEF u, first, last
<1>4. Len(w) \in Nat
  OBVIOUS
<1>5. (u \o last)[1] = open
  BY <1>2, <1>3, <1>4
<1> QED BY <1>5 DEF u, first, last, close, Enclosed

LEMMA BalancedEnclosed ==
    ASSUME NEW w \in Seq(Tokens), Balanced(w), NEW open \in DOMAIN Opening
    PROVE  Balanced(Enclosed(open, w))
<1> DEFINE all == Enclosed(open, w)
<1>1. Len(w) \in Nat /\ Len(all) = Len(w) + 2
  BY EnclosedLength
<1> HIDE DEF all
<1> SUFFICES ASSUME NEW s \in Seq(Tokens), NEW b \in Nat, NEW depth, Behind(s, b, all),
                    Counts(depth, s, b, b + Len(all))
             PROVE  depth[b + Len(all)] = depth[b] /\ \A i \in b..(b + Len(all)) : depth[i] >= depth[b]
  BY DEF Balanced, all
<1>3. b + Len(all) = b + Len(w) + 2
  BY <1>1
<1>5. Behind(s, b, Enclosed(open, w))
  BY DEF all
<1>6. Counts(depth, s, b, b + Len(w) + 2)
  BY <1>3
<1>4. /\ depth[b + Len(w) + 2] = depth[b]
      /\ \A i \in (b + 1)..(b + Len(w) + 1) : depth[i] >= depth[b] + 1
  BY <1>5, <1>6, EnclosedDepth
<1>7. \A i \in b..(b + Len(w) + 2) : i = b \/ i = b + Len(w) + 2 \/ i \in (b + 1)..(b + Len(w) + 1)
  BY <1>1
<1>8. \A i \in b..(b + Len(w) + 2) : depth[i] \in Int
  BY <1>6 DEF Counts
<1>10. b \in b..(b + Len(w) + 2)
  BY <1>1
<1>9. ASSUME NEW i \in b..(b + Len(w) + 2) PROVE depth[i] >= depth[b]
  <2>1. depth[i] \in Int /\ depth[b] \in Int
    BY <1>8, <1>10
  <2>2. depth[i] = depth[b] \/ depth[i] >= depth[b] + 1
    BY <1>4, <1>7
  <2> QED BY <2>1, <2>2
<1> QED BY <1>3, <1>4, <1>9

LEMMA BalancedFlatten ==
    ASSUME NEW seqs \in Seq(Seq(Tokens)), \A i \in 1..Len(seqs) : Balanced(seqs[i])
    PROVE  Balanced(FlattenSeq(seqs))
<1> DEFINE flat == FlattenSeq(seqs)
           n == Len(seqs)
<1>1. flat \in Seq(Tokens) /\ n \in Nat
  BY FlattenPlaces
<1>2. PICK at : Placed(flat, at, seqs)
  BY FlattenPlaces
<1> HIDE DEF flat
<1> SUFFICES ASSUME NEW s \in Seq(Tokens), NEW b \in Nat, NEW depth, Behind(s, b, flat),
                    Counts(depth, s, b, b + Len(flat))
             PROVE  depth[b + Len(flat)] = depth[b] /\ \A i \in b..(b + Len(flat)) : depth[i] >= depth[b]
  BY DEF Balanced, flat
<1>3. /\ at[0] = 0 /\ at[n] = Len(flat) /\ \A i \in 0..n : at[i] \in Nat
      /\ \A i \in 1..n : at[i] = at[i - 1] + Len(seqs[i]) /\ at[i] <= Len(flat)
  BY <1>2 DEF Placed
<1> DEFINE T == {m \in 0..n : /\ depth[b + at[m]] = depth[b]
                              /\ \A i \in b..(b + at[m]) : depth[i] >= depth[b]}
<1>4. 0 \in T
  <2>1. depth[b] \in Int /\ b + at[0] = b /\ \A i \in b..b : i = b
    BY <1>1, <1>3 DEF Counts
  <2> QED BY <2>1, <1>1
<1>5. ASSUME NEW m \in 1..n, m - 1 \in T PROVE m \in T
  <2> DEFINE c == b + at[m - 1]
             w == seqs[m]
             e == b + Len(flat)
  <2>1. m - 1 \in 0..n /\ m \in 0..n /\ w \in Seq(Tokens) /\ Len(w) \in Nat
    BY <1>1
  <2>2. Behind(s, c, w) /\ c \in Nat
    <3> HIDE DEF n
    <3> QED BY <1>1, <1>2, BehindPlaced DEF n
  <2>3. at[m] = at[m - 1] + Len(w) /\ at[m] <= Len(flat) /\ at[m - 1] \in Nat /\ at[m] \in Nat
    BY <1>3, <2>1
  <2>4. Len(flat) \in Nat
    BY <1>1
  <2>5. c \in b..e /\ c + Len(w) \in c..e /\ e \in Nat /\ b + at[m] = c + Len(w)
    <3> DEFINE x == at[m - 1]
               y == at[m]
               z == Len(w)
               l == Len(flat)
    <3>1. x \in Nat /\ y \in Nat /\ z \in Nat /\ l \in Nat /\ y = x + z /\ y <= l
      BY <2>1, <2>3, <2>4
    <3> HIDE DEF x, y, z, l
    <3>2. b + x \in b..(b + l) /\ (b + x) + z \in (b + x)..(b + l) /\ b + l \in Nat /\ b + y = (b + x) + z
      BY <3>1
    <3> QED BY <3>2 DEF x, y, z, l
  <2>6. Counts(depth, s, c, c + Len(w))
    <3>1. Counts(depth, s, b, e)
      OBVIOUS
    <3> HIDE DEF c, e, w
    <3> QED BY <2>5, <3>1, CountsPart
  <2>7. Balanced(w)
    OBVIOUS
  <2>8. depth[c + Len(w)] = depth[c] /\ \A i \in c..(c + Len(w)) : depth[i] >= depth[c]
    <3> HIDE DEF c, w
    <3> QED BY <2>2, <2>6, <2>7 DEF Balanced
  <2>9. depth[c] = depth[b] /\ \A i \in b..c : depth[i] >= depth[b]
    BY <1>5
  <2>10. \A i \in b..(b + at[m]) : i \in b..c \/ i \in c..(c + Len(w))
    <3> HIDE DEF c, w
    <3> QED BY <2>2, <2>5
  <2>11. depth[b + at[m]] = depth[b] /\ \A i \in b..(b + at[m]) : depth[i] >= depth[b]
    <3> HIDE DEF c, w
    <3> QED BY <2>5, <2>8, <2>9, <2>10
  <2> QED BY <2>1, <2>11
<1>6. n \in T
  <2>1. T \subseteq 0..n
    OBVIOUS
  <2> HIDE DEF T, n
  <2>2. \A m \in 0..n : m \in T
    BY <1>1, <1>4, <1>5, <2>1, Induction
  <2> QED BY <2>2, <1>1
<1> QED BY <1>3, <1>6

\* The strings that Listed puts one after the other.
Spaced(strings) ==
    [i \in DOMAIN strings |-> IF i = 1 THEN strings[i] ELSE <<",", " ">> \o strings[i]]

LEMMA SpacedStrings ==
    ASSUME NEW strings \in Seq(Seq(Tokens))
    PROVE  /\ Spaced(strings) \in Seq(Seq(Tokens)) /\ Len(Spaced(strings)) = Len(strings)
           /\ Listed(strings) = FlattenSeq(Spaced(strings))
           /\ <<",", " ">> \in Seq(Tokens)
           /\ \A i \in 1..Len(strings) :
                  Spaced(strings)[i] = IF i = 1 THEN strings[i] ELSE <<",", " ">> \o strings[i]
<1>1. DOMAIN strings = 1..Len(strings) /\ Len(strings) \in Nat
  OBVIOUS
<1>2. <<",", " ">> \in Seq(Tokens)
  <2>1. "," \in Tokens /\ " " \in Tokens
    BY DEF Tokens, Separators
  <2>2. ASSUME NEW x \in Tokens, NEW y \in Tokens PROVE <<x, y>> \in Seq(Tokens)
    OBVIOUS
  <2> QED BY <2>1, <2>2, Zenon
<1> DEFINE separator == <<",", " ">>
<1>5. separator \in Seq(Tokens)
  BY <1>2
<1>6. Listed(strings) = FlattenSeq(Spaced(strings))
  BY DEF Listed, Spaced
<1>7. Spaced(strings) = [i \in 1..Len(strings) |-> IF i = 1 THEN strings[i] ELSE separator \o strings[i]]
  BY <1>1 DEF Spaced
<1> HIDE DEF separator
<1>3. ASSUME NEW i \in 1..Len(strings)
      PROVE  (IF i = 1 THEN strings[i] ELSE separator \o strings[i]) \in Seq(Tokens)
  BY <1>5
<1>4. [i \in 1..Len(strings) |-> IF i = 1 THEN strings[i] ELSE separator \o strings[i]] \in Seq(Seq(Tokens))
  BY <1>1, <1>3
<1>8. Spaced(strings) \in Seq(Seq(Tokens))
  BY <1>4, <1>7
<1>9. DOMAIN Spaced(strings) = 1..Len(strings)
  BY <1>1, <1>7
<1>10. Len(Spaced(strings)) = Len(strings)
  BY <1>1, <1>8, <1>9
<1>11. \A i \in 1..Len(strings) :
           Spaced(strings)[i] = IF i = 1 THEN strings[i] ELSE separator \o strings[i]
  BY <1>7
<1> QED BY <1>2, <1>6, <1>8, <1>10, <1>11 DEF separator

LEMMA BalancedListed ==
    ASSUME NEW strings \in Seq(Seq(Tokens)), \A i \in 1..Len(strings) : Balanced(strings[i])
    PROVE  Balanced(Listed(strings))
<1>1. Balanced(<<",", " ">>)
  <2>1. Deeper(",") = 0 /\ Deeper(" ") = 0
    BY DEF Deeper, Closing
  <2>2. Balanced(<<",">>) /\ Balanced(<<" ">>)
    BY <2>1, BalancedToken
  <2>3. <<",">> \in Seq(Tokens) /\ <<" ">> \in Seq(Tokens)
    <3>1. "," \in Tokens /\ " " \in Tokens
      BY DEF Tokens, Separators
    <3>2. ASSUME NEW x \in Tokens PROVE <<x>> \in Seq(Tokens)
      OBVIOUS
    <3> QED BY <3>1, <3>2, Zenon
  <2>4. <<",", " ">> = <<",">> \o <<" ">>
    <3>1. ASSUME NEW x, NEW y PROVE <<x, y>> = <<x>> \o <<y>>
      <4> DEFINE u == <<x>> \o <<y>>
      <4>1. Len(<<x>>) = 1 /\ Len(<<y>>) = 1 /\ <<x>> \in Seq({x, y}) /\ <<y>> \in Seq({x, y})
        OBVIOUS
      <4>2. u \in Seq({x, y}) /\ Len(u) = 2 /\ u[1] = x /\ u[2] = y
        BY <4>1
      <4> HIDE DEF u
      <4>3. u = [i \in 1..2 |-> u[i]]
        BY <4>2
      <4>4. u = <<x, y>>
        BY <4>2, <4>3
      <4> QED BY <4>4 DEF u
    <3> QED BY <3>1, Zenon
  <2>5. Balanced(<<",">> \o <<" ">>)
    BY <2>2, <2>3, BalancedPair
  <2> QED BY <2>4, <2>5
<1>2. ASSUME NEW i \in 1..Len(Spaced(strings)) PROVE Balanced(Spaced(strings)[i])
  <2>4. Len(Spaced(strings)) = Len(strings) /\ <<",", " ">> \in Seq(Tokens)
    BY SpacedStrings
  <2>5. i \in 1..Len(strings)
    BY <2>4
  <2>1. i \in 1..Len(strings) /\ strings[i] \in Seq(Tokens) /\ Balanced(strings[i])
    BY <2>5
  <2>2. Spaced(strings)[i] = IF i = 1 THEN strings[i] ELSE <<",", " ">> \o strings[i]
    BY <2>1, SpacedStrings
  <2>3. Balanced(<<",", " ">> \o strings[i])
    BY <1>1, <2>1, <2>4, BalancedPair
  <2> QED BY <2>1, <2>2, <2>3
<1>3. Balanced(FlattenSeq(Spaced(strings)))
  BY <1>2, SpacedStrings, BalancedFlatten
<1> QED BY <1>3, SpacedStrings

-----------------------------------------------------------------------------
\* Depths counts the brackets from the start on.
LEMMA DepthsCount ==
    ASSUME NEW s \in Seq(Tokens), NEW start \in 1..Len(s)
    PROVE  Counts(Depths(s, start), s, start - 1, Len(s)) /\ Depths(s, start)[start - 1] = 0
<1> DEFINE n == Len(s)
           Is(f) == f = [i \in 0..n |-> IF i < start THEN 0 ELSE f[i - 1] + Deeper(s[i])]
           then == [i \in 1..n |-> [x \in Int |-> IF i < start THEN 0 ELSE x + Deeper(s[i])]]
<1>1. n \in Nat /\ start \in 1..n
  OBVIOUS
<1>2. \A token : Deeper(token) \in Int
  BY DEF Deeper
<1>3. \E f \in [0..n -> Int] : Iterates(f, n, 0, then)
  <2> DEFINE D == Int
  <2>1. then \in Steps(n, D) /\ 0 \in D
    <3> HIDE DEF n
    <3> QED BY <1>2 DEF Steps
  <2> HIDE DEF then, n, D
  <2>2. \E f \in [0..n -> D] : Iterates(f, n, 0, then)
    BY <1>1, <2>1, Iteration
  <2> QED BY <2>2 DEF D
<1>4. PICK f \in [0..n -> Int] : Iterates(f, n, 0, then)
  <2> HIDE DEF then, n
  <2> QED BY <1>3
<1>5. \E g : Is(g)
  <2>1. ASSUME NEW i \in 0..n PROVE f[i] = IF i < start THEN 0 ELSE f[i - 1] + Deeper(s[i])
    <3>1. CASE i = 0
      <4>1. 0 < start
        BY <1>1
      <4>2. f[0] = 0
        BY <1>4 DEF Iterates
      <4> QED BY <3>1, <4>1, <4>2
    <3>2. CASE i # 0
      <4>1. i \in 1..n /\ i - 1 \in 0..n
        BY <3>2, <1>1
      <4>2. f[i] = then[i][f[i - 1]] /\ f[i - 1] \in Int
        <5> HIDE DEF then, n
        <5> QED BY <4>1, <1>4 DEF Iterates
      <4>3. then[i][f[i - 1]] = IF i < start THEN 0 ELSE f[i - 1] + Deeper(s[i])
        <5> HIDE DEF n
        <5> QED BY <4>1, <4>2
      <4> QED BY <4>2, <4>3
    <3> QED BY <3>1, <3>2
  <2>2. Is(f)
    <3> HIDE DEF n, then
    <3>1. f = [i \in 0..n |-> f[i]]
      OBVIOUS
    <3> QED BY <2>1, <3>1
  <2> HIDE DEF Is
  <2> QED BY <2>2
<1> DEFINE g == Depths(s, start)
<1>6. Is(g)
  <2>1. g = CHOOSE h : Is(h)
    BY DEF Depths
  <2> HIDE DEF Is, g
  <2> QED BY <1>5, <2>1
<1> HIDE DEF g, n, then
<1>7. \A i \in 0..n : g[i] = IF i < start THEN 0 ELSE g[i - 1] + Deeper(s[i])
  BY <1>6
<1> DEFINE S == {i \in 0..n : g[i] \in Int}
<1>8. \A i \in 0..n : i \in S
  <2>1. S \subseteq 0..n
    OBVIOUS
  <2>2. 0 \in S
    <3>1. 0 \in 0..n /\ 0 < start
      BY <1>1
    <3> QED BY <3>1, <1>7
  <2>3. ASSUME NEW m \in 1..n, m - 1 \in S PROVE m \in S
    <3>1. m \in 0..n /\ g[m - 1] \in Int /\ Deeper(s[m]) \in Int
      BY <1>1, <1>2, <2>3
    <3> QED BY <3>1, <1>7
  <2> HIDE DEF S
  <2> QED BY <1>1, <2>1, <2>2, <2>3, Induction
<1>9. start - 1 \in 0..n /\ start - 1 < start
  BY <1>1
<1>10. g[start - 1] = 0
  BY <1>7, <1>9
<1>11. Counts(g, s, start - 1, n)
  <2>1. \A i \in (start - 1)..n : i \in 0..n
    BY <1>1
  <2>2. \A i \in ((start - 1) + 1)..n : i \in 0..n /\ ~(i < start)
    BY <1>1
  <2>3. \A i \in ((start - 1) + 1)..n : g[i] = g[i - 1] + Deeper(s[i])
    BY <1>7, <2>2
  <2> QED BY <1>8, <2>1, <2>3 DEF Counts
<1> QED BY <1>10, <1>11 DEF g, n

\* find_end_brace finds the bracket that closes a balanced word.
LEMMA BraceFound ==
    ASSUME NEW w \in Seq(Tokens), Balanced(w), NEW open \in DOMAIN Opening, NEW s \in Seq(Tokens), NEW b \in Nat,
           Behind(s, b, Enclosed(open, w)), NEW end \in Nat, b + Len(w) + 2 < end
    PROVE  /\ find_end_brace(s, Closing[open], b + 1, end) = b + Len(w) + 2
           /\ s[b + 1] = open /\ Behind(s, b + 1, w) /\ b + Len(w) + 2 <= Len(s)
<1> DEFINE close == Closing[open]
           start == b + 1
           e == b + Len(w) + 2
           depth == Depths(s, start)
           closes(i) == s[i] = close /\ depth[i] = 0
<1>1. Len(w) \in Nat /\ Len(s) \in Nat /\ b + Len(w) + 2 <= Len(s)
  <2>1. Len(Enclosed(open, w)) = Len(w) + 2
    BY EnclosedLength
  <2>2. b + Len(Enclosed(open, w)) <= Len(s)
    BY DEF Behind
  <2>3. Len(w) \in Nat /\ Len(s) \in Nat
    OBVIOUS
  <2> HIDE DEF close
  <2> QED BY <2>1, <2>2, <2>3
<1>2. start \in 1..Len(s) /\ start - 1 = b /\ e \in start..(end - 1) /\ e \in b..Len(s) /\ b \in b..Len(s)
  BY <1>1
<1>3. Counts(depth, s, b, Len(s)) /\ depth[b] = 0
  <2> HIDE DEF start
  <2> QED BY <1>2, DepthsCount
<1> HIDE DEF depth
<1>4. Counts(depth, s, b, e)
  <2> HIDE DEF e
  <2>1. e \in b..Len(s) /\ b \in b..Len(s)
    BY <1>2
  <2> QED BY <1>1, <1>2, <1>3, <2>1, CountsPart
<1>5. /\ depth[b + Len(w) + 2] = depth[b]
      /\ \A i \in (b + 1)..(b + Len(w) + 1) : depth[i] >= depth[b] + 1
      /\ s[b + Len(w) + 2] = close
      /\ s[b + 1] = open /\ Behind(s, b + 1, w)
  <2>1. Counts(depth, s, b, b + Len(w) + 2)
    BY <1>4
  <2> HIDE DEF e
  <2> QED BY <2>1, EnclosedDepth
<1>6. closes(e)
  BY <1>3, <1>5
<1>7. ASSUME NEW j \in start..(e - 1) PROVE ~closes(j)
  <2>1. j \in (b + 1)..(b + Len(w) + 1)
    BY <1>1
  <2>2. depth[j] >= 0 + 1
    BY <1>3, <1>5, <2>1
  <2> QED BY <2>2
<1>8. find_end_brace(s, close, start, end) =
          IF \E i \in start..(end - 1) : closes(i)
          THEN CHOOSE i \in start..(end - 1) : closes(i) /\ \A j \in start..(i - 1) : ~closes(j)
          ELSE NoBrace
  BY DEF find_end_brace, depth
<1> HIDE DEF closes
<1>10. start \in Int /\ e \in start..(end - 1)
  BY <1>2
<1> HIDE DEF start, e
<1>9. ASSUME NEW i \in start..(end - 1), closes(i) /\ \A j \in start..(i - 1) : ~closes(j) PROVE i = e
  <2>1. ~(i \in start..(e - 1)) /\ ~(e \in start..(i - 1))
    BY <1>6, <1>7, <1>9
  <2> QED BY <1>10, <2>1
<1>11. find_end_brace(s, close, start, end) = e
  BY <1>6, <1>7, <1>8, <1>9, <1>10
<1> QED BY <1>1, <1>5, <1>11 DEF start, e, close

-----------------------------------------------------------------------------
LEMMA TermInduction ==
    ASSUME NEW S, \A g \in AllTerms : (\A i \in DOMAIN g.subs : g.subs[i] \in S) => g \in S
    PROVE  AllTerms \subseteq S
BY TermsNested, TermsAll, Strings!NestingInduction DEF Subterms

LastTuples == INSTANCE Nesting WITH
    MaxDepth <- MaxLength, Over <- TermsOver, Parts <- Subterms, Step <- TuplesLastFrom

LEMMA TuplesLastParts ==
    ASSUME NEW g \in AllTerms
    PROVE  TuplesLast[g] = TuplesLastFrom(g, [i \in DOMAIN g.subs |-> TuplesLast[g.subs[i]]])
<1>1. LastTuples!Nested /\ LastTuples!All = AllTerms
  BY TermsNested DEF LastTuples!Nested, Strings!Nested, LastTuples!All, LastTuples!UpTo, AllTerms, TermsUpTo
<1>2. LastTuples!Result = TuplesLast
  BY <1>1 DEF LastTuples!Result, LastTuples!Computes, TuplesLast, Subterms
<1>3. LastTuples!Computes(TuplesLast, AllTerms)
  BY <1>1, <1>2, LastTuples!NestingRecursion
<1> QED BY <1>3 DEF LastTuples!Computes, Subterms

\* What is written for a term behind its "&": a specifier, or what is written for its
\* parts in brackets.
StringsOf(g) == [i \in DOMAIN g.subs |-> Written[g.subs[i]]]
Core(g) == IF g.kind = "scalar" THEN <<g.spec>> ELSE Enclosed(Bracket(g.kind), Listed(StringsOf(g)))

LEMMA StringsOfType ==
    ASSUME NEW g \in AllTerms
    PROVE  /\ StringsOf(g) \in Seq(Seq(Tokens)) /\ Len(StringsOf(g)) = Len(g.subs)
           /\ \A i \in 1..Len(g.subs) : StringsOf(g)[i] = Written[g.subs[i]] /\ g.subs[i] \in AllTerms
           /\ DOMAIN g.subs = 1..Len(g.subs) /\ Len(g.subs) \in Nat
           /\ Listed(StringsOf(g)) \in Seq(Tokens)
<1>1. g.subs \in Seq(AllTerms)
  BY TermFields
<1>2. DOMAIN g.subs = 1..Len(g.subs) /\ Len(g.subs) \in Nat
  BY <1>1
<1>3. \A i \in 1..Len(g.subs) : Written[g.subs[i]] \in Seq(Tokens)
  BY <1>1, WrittenType
<1>4. StringsOf(g) \in Seq(Seq(Tokens)) /\ Len(StringsOf(g)) = Len(g.subs)
  BY <1>2, <1>3 DEF StringsOf
<1>5. Listed(StringsOf(g)) \in Seq(Tokens)
  BY <1>4, ListedType
<1> QED BY <1>1, <1>2, <1>4, <1>5 DEF StringsOf

LEMMA WrittenCore ==
    ASSUME NEW g \in AllTerms
    PROVE  /\ Core(g) \in Seq(Tokens)
           /\ g.ref => Written[g] = <<"&">> \o Core(g)
           /\ ~g.ref => Written[g] = Core(g)
           /\ Written[g] \in Seq(Tokens)
<1>1. g.kind = "scalar" \/ g.kind \in ContainerTypes
  BY TermFields
<1>2. Core(g) \in Seq(Tokens)
  <2>1. CASE g.kind = "scalar"
    <3>1. g.spec \in Tokens
      BY <2>1, TermFields DEF Tokens
    <3> QED BY <2>1, <3>1 DEF Core
  <2>2. CASE g.kind # "scalar"
    <3>1. Bracket(g.kind) \in DOMAIN Opening
      BY <1>1, <2>2, BracketKind
    <3>2. Listed(StringsOf(g)) \in Seq(Tokens)
      BY StringsOfType
    <3>3. Enclosed(Bracket(g.kind), Listed(StringsOf(g))) \in Seq(Tokens)
      BY <3>1, <3>2, EnclosedLength
    <3> QED BY <2>2, <3>3 DEF Core
  <2> QED BY <2>1, <2>2
<1>3. Written[g] = WrittenFrom(g, StringsOf(g))
  BY WrittenParts DEF StringsOf
<1>4. Written[g] = (IF g.ref THEN <<"&">> ELSE << >>) \o Core(g)
  BY <1>3 DEF WrittenFrom, Core, Enclosed
<1> DEFINE core == Core(g)
<1> HIDE DEF core
<1>5. core \in Seq(Tokens) /\ Written[g] = (IF g.ref THEN <<"&">> ELSE << >>) \o core
  BY <1>2, <1>4 DEF core
<1>6. ~g.ref => Written[g] = core
  BY <1>5
<1> QED BY <1>2, <1>4, <1>6, WrittenType DEF core

\* Specifiers are no brackets, and brackets none of the other tokens.
LEMMA TokensApart ==
    /\ \A spec \in Specifiers : Deeper(spec) = 0 /\ spec \notin Separators /\ spec # "&" /\ spec # "NUL"
                                /\ spec \notin DOMAIN Opening /\ spec \in DOMAIN base
    /\ \A open \in DOMAIN Opening : /\ open \notin Separators /\ open # "&" /\ open # "NUL"
                                    /\ open \notin DOMAIN base
    /\ Deeper("&") = 0 /\ "&" \notin Separators /\ "&" \in Tokens /\ "NUL" \notin Separators
    /\ "," \in Separators /\ " " \in Separators
<1>1. DOMAIN Opening = {"[", "{", "<", "("} /\ DOMAIN Closing = DOMAIN Opening /\ DOMAIN base = Specifiers
  BY DEF Opening, Closing, base
<1>2. \A spec \in Specifiers : spec \notin {"[", "{", "<", "("} /\ spec \notin {"]", "}", ">", ")"}
                               /\ spec \notin {" ", ","} /\ spec # "&" /\ spec # "NUL"
  BY DEF Specifiers
<1>3. \A token : token \notin {"[", "{", "<", "("} /\ token \notin {"]", "}", ">", ")"} => Deeper(token) = 0
  <2> SUFFICES ASSUME NEW token, token \notin {"[", "{", "<", "("}, token \notin {"]", "}", ">", ")"}
               PROVE  Deeper(token) = 0
    OBVIOUS
  <2>1. token \notin DOMAIN Closing /\ token \notin {"]", "}", ">", ")"}
    BY <1>1
  <2> QED BY <2>1 DEF Deeper
<1>4. Deeper("&") = 0
  <2>1. "&" \notin {"[", "{", "<", "("} /\ "&" \notin {"]", "}", ">", ")"}
    OBVIOUS
  <2> QED BY <1>3, <2>1
<1>5. ASSUME NEW open \in DOMAIN Opening
      PROVE  open \notin Separators /\ open # "&" /\ open # "NUL" /\ open \notin DOMAIN base
  <2>1. open \in {"[", "{", "<", "("}
    BY <1>1
  <2>2. open \notin Separators /\ open # "&" /\ open # "NUL"
    BY <2>1 DEF Separators
  <2>3. open \notin Specifiers
    BY <1>2, <2>1
  <2> QED BY <1>1, <2>2, <2>3
<1>6. ASSUME NEW spec \in Specifiers
      PROVE  Deeper(spec) = 0 /\ spec \notin Separators /\ spec # "&" /\ spec # "NUL" /\ spec \notin DOMAIN Opening /\ spec \in DOMAIN base
  BY <1>1, <1>2, <1>3 DEF Separators
<1>7. "&" \notin Separators /\ "&" \in Tokens /\ "NUL" \notin Separators /\ "," \in Separators /\ " " \in Separators
  BY DEF Separators, Tokens
<1> QED BY <1>4, <1>5, <1>6, <1>7

\* The brackets in the string of a term are balanced.
LEMMA BalancedWritten == \A g \in AllTerms : Balanced(Written[g]) /\ (g.kind # "scalar" => Balanced(Listed(StringsOf(g))))
<1> DEFINE S == {g \in AllTerms : Balanced(Written[g]) /\ (g.kind # "scalar" => Balanced(Listed(StringsOf(g))))}
<1>1. ASSUME NEW g \in AllTerms, \A i \in DOMAIN g.subs : g.subs[i] \in S PROVE g \in S
  <2>1. Balanced(Listed(StringsOf(g)))
    <3>1. \A i \in 1..Len(StringsOf(g)) : Balanced(StringsOf(g)[i])
      BY <1>1, StringsOfType
    <3>2. StringsOf(g) \in Seq(Seq(Tokens))
      BY StringsOfType
    <3> QED BY <3>1, <3>2, BalancedListed
  <2>2. Balanced(Core(g))
    <3>1. CASE g.kind = "scalar"
      BY <3>1, TermFields, TokensApart, BalancedToken DEF Core
    <3>2. CASE g.kind # "scalar"
      <4>1. Bracket(g.kind) \in DOMAIN Opening
        BY <3>2, TermFields, BracketKind
      <4>2. Listed(StringsOf(g)) \in Seq(Tokens)
        BY StringsOfType
      <4>3. Balanced(Enclosed(Bracket(g.kind), Listed(StringsOf(g))))
        BY <2>1, <4>1, <4>2, BalancedEnclosed
      <4> QED BY <3>2, <4>3 DEF Core
    <3> QED BY <3>1, <3>2
  <2>3. Balanced(Written[g])
    <3>1. Core(g) \in Seq(Tokens) /\ (g.ref => Written[g] = <<"&">> \o Core(g)) /\ (~g.ref => Written[g] = Core(g))
      BY WrittenCore
    <3>2. <<"&">> \in Seq(Tokens) /\ Balanced(<<"&">>)
      <4>1. "&" \in Tokens /\ Deeper("&") = 0
        BY TokensApart
      <4>2. \A x \in Tokens : <<x>> \in Seq(Tokens)
        OBVIOUS
      <4>3. Balanced(<<"&">>)
        BY <4>1, BalancedToken
      <4> QED BY <4>1, <4>2, <4>3, Zenon
    <3> DEFINE mark == <<"&">>
    <3>4. mark \in Seq(Tokens) /\ Balanced(mark) /\ (g.ref => Written[g] = mark \o Core(g))
      BY <3>1, <3>2
    <3> HIDE DEF mark
    <3>3. Balanced(mark \o Core(g))
      BY <2>2, <3>1, <3>4, BalancedPair
    <3> QED BY <2>2, <3>1, <3>3, <3>4
  <2> QED BY <2>1, <2>3
<1>2. AllTerms \subseteq S
  <2> HIDE DEF S
  <2> QED BY <1>1, TermInduction
<1> QED BY <1>2

-----------------------------------------------------------------------------
\* Where a call finds its first token behind separators and "&", and whether that is
\* inside a reference.
Reads(typestr, call, cur, ref) ==
    LET first == FirstFrom(typestr, call.start, Separators)
    IN  /\ ref = (call.is_reference \/ At(typestr, first) = "&")
        /\ cur = IF At(typestr, first) = "&" THEN first + 1 ELSE first

\* What a call for a scalar, and one for a container, leave.
LEMMA ScalarParsed ==
    ASSUME NEW typestr, NEW args, NEW stray, NEW end, NEW parse, NEW call \in Calls(typestr),
           NEW cur, NEW ref, Reads(typestr, call, cur, ref), call.start # end,
           NEW token, token = At(typestr, cur), token \in Specifiers
    PROVE  parse_typestr_helper(typestr, args, stray, end, parse)[call]
               = Parsed(base_ref(token, ref), cur + 1, call.ap)
<1> DEFINE first == FirstFrom(typestr, call.start, Separators)
           is_reference == call.is_reference \/ At(typestr, first) = "&"
           cur1 == IF At(typestr, first) = "&" THEN first + 1 ELSE first
           token1 == At(typestr, cur1)
           end_brace == find_end_brace(typestr, Closing[token1], cur1, end)
           num_elements == IF token1 = "<" THEN 2 ELSE NextInt(args, call.ap, stray)
           ap == IF token1 = "<" THEN call.ap ELSE AfterNext(call.ap)
           elements == ParseElements(parse[end_brace], cur1 + 1, is_reference, ap,
                                     IF token1 = "(" THEN num_elements ELSE 1)
           result ==
              CASE call.start # end /\ token1 \in DOMAIN base ->
                    Parsed(base_ref(token1, is_reference), cur1 + 1, call.ap)
              [] call.start # end /\ token1 = "NUL" -> Parsed(UnsetType, call.start, call.ap)
              [] /\ call.start # end /\ token1 \in DOMAIN Opening /\ end_brace # NoBrace
                 /\ \A i \in DOMAIN elements.ts : elements.ts[i] # NullType ->
                    Parsed(ContainerType(Opening[token1], is_reference, num_elements, elements.ts),
                           IF token1 = "(" THEN call.start ELSE end_brace + 1, elements.ap)
              [] OTHER -> Parsed(NullType, call.start, call.ap)
<1>1. parse_typestr_helper(typestr, args, stray, end, parse)[call] = result
  BY DEF parse_typestr_helper
<1>2. ref = is_reference /\ cur = cur1 /\ token = token1
  BY DEF Reads
<1> HIDE DEF is_reference, cur1, end_brace, num_elements, ap, elements
<1>3. token1 \in DOMAIN base /\ token1 # "NUL" /\ token1 \notin DOMAIN Opening
  BY <1>2, TokensApart
<1> HIDE DEF token1
<1>4. result = Parsed(base_ref(token1, is_reference), cur1 + 1, call.ap)
  BY <1>3
<1> QED BY <1>1, <1>2, <1>4

\* The number of elements that a container has, that of those to be parsed, and the
\* arguments taken for it.
NumberRead(token, args, taken, stray, n, m, ap) ==
    /\ n = IF token = "<" THEN 2 ELSE NextInt(args, taken, stray)
    /\ m = IF token = "(" THEN n ELSE 1
    /\ ap = IF token = "<" THEN taken ELSE AfterNext(taken)

\* All elements have a type.
NoneNull(ts) == \A i \in DOMAIN ts : ts[i] # NullType

\* What a call for a container leaves.
ContainerLeft(token, ref, n, elements, start, brace) ==
    Parsed(ContainerType(Opening[token], ref, n, elements.ts),
           IF token = "(" THEN start ELSE brace + 1, elements.ap)

\* A container begins at position cur.
ContainerHere(typestr, args, stray, end, parse, call, cur, ref, token, brace, n, ap, elements) ==
    /\ Reads(typestr, call, cur, ref) /\ call.start # end
    /\ token = At(typestr, cur) /\ token \in DOMAIN Opening
    /\ brace = find_end_brace(typestr, Closing[token], cur, end) /\ brace # NoBrace
    /\ \E m : /\ NumberRead(token, args, call.ap, stray, n, m, ap)
             /\ elements = ParseElements(parse[brace], cur + 1, ref, ap, m)
    /\ NoneNull(elements.ts)

LEMMA ContainerParsed ==
    ASSUME NEW typestr, NEW args, NEW stray, NEW end, NEW parse, NEW call \in Calls(typestr),
           NEW cur, NEW ref, NEW token, NEW brace, NEW n, NEW ap, NEW elements,
           ContainerHere(typestr, args, stray, end, parse, call, cur, ref, token, brace, n, ap, elements)
    PROVE  parse_typestr_helper(typestr, args, stray, end, parse)[call]
               = ContainerLeft(token, ref, n, elements, call.start, brace)
<1> /\ Reads(typestr, call, cur, ref) /\ call.start # end
    /\ token = At(typestr, cur) /\ token \in DOMAIN Opening
    /\ brace = find_end_brace(typestr, Closing[token], cur, end) /\ brace # NoBrace
    /\ NoneNull(elements.ts)
  BY DEF ContainerHere
<1> PICK m : /\ NumberRead(token, args, call.ap, stray, n, m, ap)
             /\ elements = ParseElements(parse[brace], cur + 1, ref, ap, m)
  BY DEF ContainerHere
<1> DEFINE first == FirstFrom(typestr, call.start, Separators)
           is_reference == call.is_reference \/ At(typestr, first) = "&"
           cur1 == IF At(typestr, first) = "&" THEN first + 1 ELSE first
           token1 == At(typestr, cur1)
           end_brace == find_end_brace(typestr, Closing[token1], cur1, end)
           num_elements == IF token1 = "<" THEN 2 ELSE NextInt(args, call.ap, stray)
           ap1 == IF token1 = "<" THEN call.ap ELSE AfterNext(call.ap)
           elements1 == ParseElements(parse[end_brace], cur1 + 1, is_reference, ap1,
                                      IF token1 = "(" THEN num_elements ELSE 1)
           result ==
              CASE call.start # end /\ token1 \in DOMAIN base ->
                    Parsed(base_ref(token1, is_reference), cur1 + 1, call.ap)
              [] call.start # end /\ token1 = "NUL" -> Parsed(UnsetType, call.start, call.ap)
              [] /\ call.start # end /\ token1 \in DOMAIN Opening /\ end_brace # NoBrace
                 /\ \A i \in DOMAIN elements1.ts : elements1.ts[i] # NullType ->
                    Parsed(ContainerType(Opening[token1], is_reference, num_elements, elements1.ts),
                           IF token1 = "(" THEN call.start ELSE end_brace + 1, elements1.ap)
              [] OTHER -> Parsed(NullType, call.start, call.ap)
<1>1. parse_typestr_helper(typestr, args, stray, end, parse)[call] = result
  BY DEF parse_typestr_helper
<1>2. ref = is_reference /\ cur = cur1
  BY DEF Reads
<1> HIDE DEF is_reference, cur1
<1>3. token = token1
  BY <1>2
<1> HIDE DEF token1
<1>4. brace = end_brace /\ n = num_elements /\ ap = ap1
  BY <1>2, <1>3 DEF NumberRead
<1>8. m = IF token1 = "(" THEN num_elements ELSE 1
  BY <1>3, <1>4 DEF NumberRead
<1> HIDE DEF end_brace, num_elements, ap1
<1>5. elements = elements1
  BY <1>2, <1>3, <1>4, <1>8
<1> HIDE DEF elements1
<1>6. token1 \notin DOMAIN base /\ token1 # "NUL" /\ token1 \in DOMAIN Opening /\ end_brace # NoBrace
      /\ \A i \in DOMAIN elements1.ts : elements1.ts[i] # NullType
  BY <1>3, <1>4, <1>5, TokensApart DEF NoneNull
<1>7. result = Parsed(ContainerType(Opening[token1], is_reference, num_elements, elements1.ts),
                      IF token1 = "(" THEN call.start ELSE end_brace + 1, elements1.ap)
  BY <1>6
<1> HIDE DEF result
<1> QED BY <1>1, <1>2, <1>3, <1>4, <1>5, <1>7 DEF ContainerLeft

\* All calls do as they should.
LEMMA AllTyped ==
    ASSUME NEW typestr \in Seq(Tokens), Len(typestr) <= MaxLength,
           NEW args \in Seq(Nat), NEW stray \in Nat,
           NEW parse, ParsedUpTo(parse, Len(typestr) + 1, typestr, args, stray),
           NEW end \in 1..(Len(typestr) + 1)
    PROVE  Typed(parse[end], typestr, end)
<1> DEFINE last == Len(typestr) + 1
<1>0. last \in Nat /\ last >= 1
  OBVIOUS
<1> DEFINE S == {n \in 0..last : \A e \in 1..n : Typed(parse[e], typestr, e)}
<1>2. 0 \in S
  BY <1>0
<1>3. ASSUME NEW n \in 1..last, n - 1 \in S PROVE n \in S
  <2> DEFINE before == [e \in 1..(n - 1) |-> parse[e]]
  <2>1. \A e \in 1..(n - 1) : Typed(before[e], typestr, e)
    BY <1>3
  <2>2. parse[n] = parse_typestr_helper(typestr, args, stray, n, before)
    BY DEF ParsedUpTo
  <2> HIDE DEF before
  <2>3. Typed(parse[n], typestr, n)
    BY <2>1, <2>2, HelperTyped
  <2>4. \A e \in 1..n : e = n \/ e \in 1..(n - 1)
    BY <1>0
  <2>5. \A e \in 1..(n - 1) : Typed(parse[e], typestr, e)
    BY <1>3
  <2> HIDE DEF last
  <2> QED BY <2>3, <2>4, <2>5, <1>0
<1>4. last \in S
  <2>1. S \subseteq 0..last
    OBVIOUS
  <2> HIDE DEF S, last
  <2>2. \A n \in 0..last : n \in S
    BY <1>0, <1>2, <1>3, <2>1, Induction
  <2> QED BY <2>2, <1>0
<1> QED BY <1>4, <1>0

-----------------------------------------------------------------------------
\* Nothing but separators.
Blank(s, start, b) == start \in 1..(b + 1) /\ \A j \in start..b : s[j] \in Separators

LEMMA BlankSkipped ==
    ASSUME NEW s \in Seq(Tokens), NEW b \in Nat, b + 1 <= Len(s), NEW start, Blank(s, start, b),
           At(s, b + 1) \notin Separators, "NUL" \notin Separators
    PROVE  FirstFrom(s, start, Separators) = b + 1
<1> DEFINE i == b + 1
<1>1. Len(s) \in Nat /\ start \in 1..(b + 1)
  BY DEF Blank
<1>2. start \in 1..(Len(s) + 1) /\ i \in start..(Len(s) + 1)
  BY <1>1
<1>3. \A j \in start..(i - 1) : j \in start..b
  BY <1>1
<1>4. \A j \in start..(i - 1) : s[j] \in Separators
  BY <1>3 DEF Blank
<1>5. At(s, i) \notin Separators
  OBVIOUS
<1> HIDE DEF i
<1>6. FirstFrom(s, start, Separators) = i
  BY <1>2, <1>4, <1>5, FirstUnique
<1> QED BY <1>6 DEF i

\* A call that starts before a term reads its "&", and then stands before its core.
LEMMA TermRead ==
    ASSUME NEW g \in AllTerms, NEW s \in Seq(Tokens), NEW b \in Nat, Behind(s, b, Written[g]),
           NEW start, Blank(s, start, b), NEW inherited, NEW ap,
           NEW c, c = IF g.ref THEN b + 1 ELSE b
    PROVE  /\ Behind(s, c, Core(g)) /\ c \in Nat /\ c + Len(Core(g)) = b + Len(Written[g])
           /\ c + 1 <= Len(s) /\ s[c + 1] = Core(g)[1] /\ Len(Core(g)) >= 1 /\ Len(Written[g]) >= 1
           /\ Reads(s, Call(start, inherited, ap), c + 1, inherited \/ g.ref)
<1> DEFINE core == Core(g)
           w == Written[g]
           token == core[1]
<1>1. /\ core \in Seq(Tokens) /\ w \in Seq(Tokens)
      /\ g.ref => w = <<"&">> \o core
      /\ ~g.ref => w = core
  BY WrittenCore
<1>2. Len(core) >= 1 /\ token \notin Separators /\ token # "&" /\ token \in Tokens
  <2>1. CASE g.kind = "scalar"
    <3>1. g.spec \in Specifiers /\ core = <<g.spec>>
      BY <2>1, TermFields DEF Core
    <3>2. g.spec \notin Separators /\ g.spec # "&" /\ g.spec \in Tokens
      BY <3>1, TokensApart DEF Tokens
    <3>3. Len(<<g.spec>>) >= 1 /\ <<g.spec>>[1] = g.spec
      OBVIOUS
    <3> HIDE DEF core
    <3> QED BY <3>1, <3>2, <3>3
  <2>2. CASE g.kind # "scalar"
    <3> DEFINE open == Bracket(g.kind)
               inside == Listed(StringsOf(g))
    <3>1. open \in DOMAIN Opening /\ inside \in Seq(Tokens) /\ core = Enclosed(open, inside)
      BY <2>2, TermFields, BracketKind, StringsOfType DEF Core
    <3>2. open \notin Separators /\ open # "&" /\ open \in Tokens
      BY <3>1, TokensApart, BracketDepth
    <3> HIDE DEF open, inside, core
    <3>3. Len(core) = Len(inside) + 2 /\ Len(inside) \in Nat
      BY <3>1, EnclosedLength
    <3>4. core[1] = open
      BY <3>1, EnclosedFirst
    <3> QED BY <3>2, <3>3, <3>4
  <2> QED BY <2>1, <2>2
<1> HIDE DEF core, w
<1>3. Len(core) \in Nat /\ Len(s) \in Nat /\ Behind(s, b, w)
  BY <1>1 DEF w
<1>4. CASE g.ref
  <2> DEFINE mark == <<"&">>
  <2>1. mark \in Seq(Tokens) /\ Len(mark) = 1 /\ mark[1] = "&"
    <3>1. "&" \in Tokens
      BY TokensApart
    <3> QED BY <3>1
  <2>2. Behind(s, b, mark \o core)
    BY <1>1, <1>3, <1>4
  <2> HIDE DEF mark
  <2>3. Behind(s, b, mark) /\ Behind(s, b + Len(mark), core) /\ Len(mark \o core) = Len(mark) + Len(core)
    <3>1. mark \in Seq(Tokens) /\ core \in Seq(Tokens)
      BY <1>1, <2>1
    <3> QED BY <2>2, <3>1, BehindPart
  <2>4. c = b + 1 /\ Behind(s, c, core) /\ Len(w) = 1 + Len(core)
    BY <1>1, <1>4, <2>1, <2>3 DEF mark
  <2>5. s[b + 1] = "&" /\ b + 1 <= Len(s) /\ c + 1 <= Len(s)
    BY <1>2, <1>3, <2>1, <2>3, <2>4 DEF Behind
  <2>6. FirstFrom(s, start, Separators) = b + 1
    <3>1. At(s, b + 1) \notin Separators /\ "NUL" \notin Separators
      BY <2>5, TokensApart DEF At
    <3> QED BY <1>3, <2>5, <3>1, BlankSkipped
  <2>7. At(s, b + 1) = "&"
    BY <2>5 DEF At
  <2>8. Reads(s, Call(start, inherited, ap), c + 1, inherited \/ g.ref)
    <3>1. Call(start, inherited, ap).start = start /\ Call(start, inherited, ap).is_reference = inherited
      BY DEF Call
    <3>2. FirstFrom(s, Call(start, inherited, ap).start, Separators) = b + 1
      BY <2>6, <3>1
    <3> QED BY <1>4, <2>4, <2>7, <3>1, <3>2 DEF Reads
  <2>9. s[c + 1] = core[1] /\ Len(w) >= 1
    BY <1>2, <1>3, <2>4 DEF Behind
  <2> QED BY <1>2, <1>3, <2>4, <2>5, <2>8, <2>9 DEF core, w
<1>5. CASE ~g.ref
  <2>1. c = b /\ w = core /\ Behind(s, c, core)
    BY <1>1, <1>3, <1>5
  <2>2. s[b + 1] = token /\ b + 1 <= Len(s)
    BY <1>2, <1>3, <2>1 DEF Behind
  <2>3. FirstFrom(s, start, Separators) = b + 1
    <3>1. At(s, b + 1) \notin Separators /\ "NUL" \notin Separators
      BY <1>2, <2>2, TokensApart DEF At
    <3> QED BY <1>3, <2>2, <3>1, BlankSkipped
  <2>4. At(s, b + 1) # "&"
    BY <1>2, <2>2 DEF At
  <2>5. Reads(s, Call(start, inherited, ap), c + 1, inherited \/ g.ref)
    <3>1. Call(start, inherited, ap).start = start /\ Call(start, inherited, ap).is_reference = inherited
      BY DEF Call
    <3>2. FirstFrom(s, Call(start, inherited, ap).start, Separators) = b + 1
      BY <2>3, <3>1
    <3> QED BY <1>5, <2>1, <2>4, <3>1, <3>2 DEF Reads
  <2> QED BY <1>2, <1>3, <2>1, <2>2, <2>5 DEF core, w
<1> QED BY <1>4, <1>5
\* A bracket of a container is found again, and its elements are behind the one that
\* opens.
LEMMA ContainerRead ==
    ASSUME NEW g \in AllTerms, g.kind # "scalar", NEW s \in Seq(Tokens), NEW c \in Nat,
           Behind(s, c, Core(g)), NEW end \in Nat, c + Len(Core(g)) < end
    PROVE  /\ At(s, c + 1) = Bracket(g.kind)
           /\ find_end_brace(s, Closing[Bracket(g.kind)], c + 1, end) = c + Len(Core(g))
           /\ Behind(s, c + 1, Listed(StringsOf(g)))
           /\ c + Len(Core(g)) = (c + 1) + Len(Listed(StringsOf(g))) + 1
           /\ Listed(StringsOf(g)) \in Seq(Tokens) /\ c + Len(Core(g)) <= Len(s)
<1> DEFINE inside == Listed(StringsOf(g))
           open == Bracket(g.kind)
<1>1. inside \in Seq(Tokens) /\ Balanced(inside) /\ open \in DOMAIN Opening
  BY StringsOfType, BalancedWritten, TermFields, BracketKind
<1>2. Core(g) = Enclosed(open, inside)
  BY DEF Core
<1> HIDE DEF inside, open
<1>3. Len(inside) \in Nat /\ Len(Core(g)) = Len(inside) + 2 /\ Len(s) \in Nat
  BY <1>1, <1>2, EnclosedLength
<1>4. Behind(s, c, Enclosed(open, inside)) /\ c + Len(inside) + 2 < end
  BY <1>2, <1>3
<1>5. /\ find_end_brace(s, Closing[open], c + 1, end) = c + Len(inside) + 2
      /\ s[c + 1] = open /\ Behind(s, c + 1, inside) /\ c + Len(inside) + 2 <= Len(s)
  BY <1>1, <1>4, BraceFound
<1>6. At(s, c + 1) = open
  BY <1>3, <1>5 DEF At
<1>7. c + Len(Core(g)) = c + Len(inside) + 2 /\ c + Len(Core(g)) = (c + 1) + Len(inside) + 1
  BY <1>3
<1> QED BY <1>1, <1>5, <1>6, <1>7 DEF inside, open

\* The position before element i of a list of strings: a separator and a space are
\* before it.
ElementBehind(at, d, i) == d + at[i - 1] + (IF i = 1 THEN 0 ELSE 2)

LEMMA ElementAt ==
    ASSUME NEW strings \in Seq(Seq(Tokens)), NEW at, Placed(Listed(strings), at, Spaced(strings)),
           NEW s \in Seq(Tokens), NEW d \in Nat, Behind(s, d, Listed(strings)),
           NEW i \in 1..Len(strings)
    PROVE  /\ ElementBehind(at, d, i) \in Nat /\ Behind(s, ElementBehind(at, d, i), strings[i])
           /\ Blank(s, d + at[i - 1] + 1, ElementBehind(at, d, i))
           /\ ElementBehind(at, d, i) + Len(strings[i]) = d + at[i]
           /\ at[i] <= Len(Listed(strings)) /\ at[i] \in Nat
<1> DEFINE b == ElementBehind(at, d, i)
<1>0. b = d + at[i - 1] + (IF i = 1 THEN 0 ELSE 2)
  BY DEF ElementBehind
<1> HIDE DEF b
<1> SUFFICES /\ b \in Nat /\ Behind(s, b, strings[i]) /\ Blank(s, d + at[i - 1] + 1, b)
             /\ b + Len(strings[i]) = d + at[i] /\ at[i] <= Len(Listed(strings)) /\ at[i] \in Nat
  BY DEF b
<1> DEFINE spaced == Spaced(strings)
           x == d + at[i - 1]
           word == strings[i]
           flat == Listed(strings)
<1>1. spaced \in Seq(Seq(Tokens)) /\ Len(spaced) = Len(strings) /\ flat \in Seq(Tokens)
      /\ word \in Seq(Tokens) /\ Len(strings) \in Nat
  <2>1. flat \in Seq(Tokens)
    BY ListedType
  <2>2. spaced \in Seq(Seq(Tokens)) /\ Len(spaced) = Len(strings)
    BY SpacedStrings
  <2>3. word \in Seq(Tokens) /\ Len(strings) \in Nat
    OBVIOUS
  <2> HIDE DEF flat, spaced, word
  <2> QED BY <2>1, <2>2, <2>3
<1>2. spaced[i] = IF i = 1 THEN word ELSE <<",", " ">> \o word
  BY SpacedStrings
<1>3. i \in 1..Len(spaced) /\ Placed(flat, at, spaced) /\ Behind(s, d, flat)
  BY <1>1
<1>10. at[i - 1] \in Nat /\ at[i] \in Nat /\ at[i] = at[i - 1] + Len(spaced[i]) /\ at[i] <= Len(flat)
  <2>1. i - 1 \in 0..Len(spaced) /\ i \in 0..Len(spaced) /\ i \in 1..Len(spaced)
    BY <1>1
  <2> HIDE DEF spaced, flat
  <2> QED BY <2>1, <1>3 DEF Placed
<1> HIDE DEF spaced, flat, word
<1>4. Behind(s, x, spaced[i]) /\ x \in Nat
  BY <1>1, <1>3, BehindPlaced
<1> HIDE DEF x
<1>5. CASE i = 1
  <2>1. b = x /\ spaced[i] = word
    BY <1>0, <1>2, <1>5, <1>4 DEF x
  <2>2. at[i] = at[i - 1] + Len(word) /\ Len(word) \in Nat
    BY <1>1, <1>10, <2>1
  <2>3. b + Len(word) = d + at[i]
    BY <1>10, <2>1, <2>2 DEF x
  <2>4. Blank(s, x + 1, b)
    BY <1>4, <2>1 DEF Blank
  <2> QED BY <1>4, <1>10, <2>1, <2>3, <2>4 DEF x, word, flat
<1>6. CASE i # 1
  <2> DEFINE separator == <<",", " ">>
  <2>1. separator \in Seq(Tokens) /\ Len(separator) = 2 /\ separator[1] = "," /\ separator[2] = " "
    BY SpacedStrings
  <2>2. spaced[i] = separator \o word
    BY <1>2, <1>6
  <2> HIDE DEF separator
  <2>3. Behind(s, x, separator \o word)
    BY <1>4, <2>2
  <2>4. Behind(s, x, separator) /\ Behind(s, x + Len(separator), word)
        /\ Len(separator \o word) = Len(separator) + Len(word)
    <3>1. separator \in Seq(Tokens) /\ word \in Seq(Tokens)
      BY <1>1, <2>1
    <3> QED BY <1>4, <2>3, <3>1, BehindPart
  <2>5. b = x + 2
    BY <1>0, <1>6 DEF x
  <2>6. Behind(s, b, word) /\ Len(spaced[i]) = 2 + Len(word) /\ Len(word) \in Nat
    <3>1. x + Len(separator) = b
      BY <2>1, <2>5
    <3>2. Len(word) \in Nat
      BY <1>1
    <3>3. Len(spaced[i]) = 2 + Len(word)
      BY <2>1, <2>2, <2>4
    <3>4. Behind(s, b, word)
      BY <2>4, <3>1
    <3> QED BY <3>2, <3>3, <3>4
  <2>7. s[x + 1] \in Separators /\ s[x + 2] \in Separators
    <3>2. 1 \in 1..Len(separator) /\ 2 \in 1..Len(separator)
      <4>1. Len(separator) = 2
        BY <2>1
      <4>2. 1 \in 1..2 /\ 2 \in 1..2
        OBVIOUS
      <4> QED BY <4>1, <4>2, Zenon
    <3>3. s[x + 1] = separator[1] /\ s[x + 2] = separator[2]
      BY <2>4, <3>2 DEF Behind
    <3>1. s[x + 1] = "," /\ s[x + 2] = " "
      BY <2>1, <3>3
    <3> QED BY <3>1, TokensApart
  <2>8. Blank(s, x + 1, b)
    <3>1. \A j \in (x + 1)..b : j = x + 1 \/ j = x + 2
      BY <1>4, <2>5
    <3>2. \A j \in (x + 1)..b : s[j] \in Separators
      BY <2>7, <3>1
    <3>3. x + 1 \in 1..(b + 1)
      BY <1>4, <2>5
    <3> QED BY <3>2, <3>3 DEF Blank
  <2>9. b + Len(word) = d + at[i]
    <3> DEFINE y == at[i - 1]
               z == Len(word)
               u == at[i]
    <3>1. y \in Nat /\ z \in Nat /\ u \in Nat /\ u = y + (2 + z) /\ b = (d + y) + 2
      BY <1>10, <2>5, <2>6 DEF x
    <3> HIDE DEF y, z, u
    <3>2. y \in Nat /\ z \in Nat /\ u \in Nat /\ u = y + (2 + z)
      BY <3>1
    <3>4. b = (d + y) + 2
      BY <3>1
    <3>3. b + z = ((d + y) + 2) + z
      BY <3>4
    <3>5. ((d + y) + 2) + z = d + (y + (2 + z))
      BY <3>2
    <3> QED BY <3>2, <3>3, <3>5 DEF z, u
  <2>10. b \in Nat
    BY <1>4, <2>5
  <2>11. Blank(s, d + at[i - 1] + 1, b)
    BY <2>8 DEF x
  <2> QED BY <1>10, <2>6, <2>9, <2>10, <2>11 DEF word, flat
<1> QED BY <1>5, <1>6

-----------------------------------------------------------------------------
\* The dimensions of the parts of a term.
DimensionsOf(g) == [i \in DOMAIN g.subs |-> Dimensions[g.subs[i]]]

LEMMA DimensionsOfType ==
    ASSUME NEW g \in AllTerms
    PROVE  /\ DimensionsOf(g) \in Seq(Seq(Nat)) /\ Len(DimensionsOf(g)) = Len(g.subs)
           /\ \A i \in 1..Len(g.subs) : DimensionsOf(g)[i] = Dimensions[g.subs[i]]
<1>1. g.subs \in Seq(AllTerms)
  BY TermFields
<1>2. DOMAIN g.subs = 1..Len(g.subs) /\ Len(g.subs) \in Nat
  BY <1>1
<1>3. \A i \in 1..Len(g.subs) : Dimensions[g.subs[i]] \in Seq(Nat)
  BY <1>1, DimensionsType
<1> QED BY <1>2, <1>3 DEF DimensionsOf

\* The arguments of a container: its own number of elements, unless it is a range, and
\* then those of its parts.
Own(g) == IF g.kind = "range" THEN 0 ELSE 1

LEMMA ArgumentsAt ==
    ASSUME NEW g \in AllTerms, g.kind # "scalar", NEW args \in Seq(Nat), NEW ap \in Nat,
           Behind(args, ap, Dimensions[g]), NEW stray
    PROVE  /\ g.kind # "range" => NextInt(args, ap, stray) = g.n
           /\ Behind(args, ap + Own(g), FlattenSeq(DimensionsOf(g)))
           /\ Len(Dimensions[g]) = Own(g) + Len(FlattenSeq(DimensionsOf(g)))
           /\ FlattenSeq(DimensionsOf(g)) \in Seq(Nat)
<1> DEFINE flat == FlattenSeq(DimensionsOf(g))
           w == Dimensions[g]
<1>1. w = (IF g.kind \in {"list", "set", "tuple"} THEN <<g.n>> ELSE << >>) \o flat
  BY DimensionsParts DEF DimensionsFrom, DimensionsOf
<1>2. flat \in Seq(Nat) /\ g.n \in Nat /\ g.kind \in ContainerTypes
  BY DimensionsOfType, FlattenPlaces, TermFields
<1> HIDE DEF flat, w
<1>3. Behind(args, ap, w) /\ Len(args) \in Nat /\ Len(flat) \in Nat
  BY <1>2 DEF w
<1>4. CASE g.kind = "range"
  <2>1. w = flat /\ Own(g) = 0
    BY <1>1, <1>2, <1>4 DEF Own
  <2> QED BY <1>2, <1>3, <1>4, <2>1 DEF flat, w
<1>5. CASE g.kind # "range"
  <2> DEFINE first == <<g.n>>
  <2>1. w = first \o flat /\ Own(g) = 1 /\ first \in Seq(Nat) /\ Len(first) = 1 /\ first[1] = g.n
    BY <1>1, <1>2, <1>5 DEF Own, ContainerTypes
  <2> HIDE DEF first
  <2>2. Behind(args, ap, first \o flat)
    BY <1>3, <2>1
  <2>3. Behind(args, ap, first) /\ Behind(args, ap + Len(first), flat)
        /\ Len(first \o flat) = Len(first) + Len(flat)
    <3>1. first \in Seq(Nat) /\ flat \in Seq(Nat)
      BY <1>2, <2>1
    <3> QED BY <2>2, <3>1, BehindPart
  <2>4. args[ap + 1] = g.n /\ ap + 1 <= Len(args)
    BY <2>1, <2>3 DEF Behind
  <2>5. NextInt(args, ap, stray) = g.n
    BY <1>3, <2>4 DEF NextInt
  <2> QED BY <1>2, <2>1, <2>3, <2>5 DEF flat, w
<1> QED BY <1>4, <1>5
-----------------------------------------------------------------------------
\* What a call that starts before a term, which is behind b, should leave: what the
\* term means, and the position behind the term if it is no tuple.
LeftBy(g, result, b, inherited, ap) ==
    /\ result.t = Meaning[g][inherited]
    /\ result.ap = ap + Len(Dimensions[g])
    /\ g.kind # "tuple" => result.cur = b + Len(Written[g]) + 1

TermParsed(g, s, args, parse) ==
    \A end \in 1..(Len(s) + 1) : \A b \in Nat : \A start \in Nat : \A ref \in BOOLEAN : \A ap \in Nat :
        /\ Blank(s, start, b) /\ Behind(s, b, Written[g]) /\ b + Len(Written[g]) < end
        /\ Behind(args, ap, Dimensions[g])
        => LeftBy(g, parse[end][Call(start, ref, ap)], b, ref, ap)

\* A container with any number of elements is parsed one element after the other.
StepsOfElements(parse, typestr, end, start, is_reference, ap) ==
    \A n \in Nat : \E upTo :
        /\ Elementwise(upTo, parse, start, is_reference, ap, n)
        /\ ParseElements(parse, start, is_reference, ap, n) = upTo[n]
        /\ \A i \in 0..n : upTo[i] \in ElementsLeft(typestr, end) /\ Len(upTo[i].ts) = i

LEMMA AllElementsParsed ==
    ASSUME NEW typestr \in Seq(Tokens), NEW end \in Nat, NEW parse, Typed(parse, typestr, end),
           NEW start, NEW is_reference, NEW ap, Call(start, is_reference, ap) \in Calls(typestr)
    PROVE  StepsOfElements(parse, typestr, end, start, is_reference, ap)
<1> SUFFICES ASSUME NEW n \in Nat
             PROVE  \E upTo :
              /\ Elementwise(upTo, parse, start, is_reference, ap, n)
              /\ ParseElements(parse, start, is_reference, ap, n) = upTo[n]
              /\ \A i \in 0..n : upTo[i] \in ElementsLeft(typestr, end) /\ Len(upTo[i].ts) = i
  BY DEF StepsOfElements
<1> QED BY ElementsParsed

LEMMA AppendMapped ==
    ASSUME NEW M, NEW i \in Nat, i >= 1
    PROVE  Append([j \in 1..(i - 1) |-> M[j]], M[i]) = [j \in 1..i |-> M[j]]
<1> DEFINE u == [j \in 1..(i - 1) |-> M[j]]
           S == {M[j] : j \in 1..i}
<1>1. u \in Seq(S) /\ Len(u) = i - 1 /\ M[i] \in S
  <2>1. i - 1 \in Nat /\ i \in 1..i /\ \A j \in 1..(i - 1) : j \in 1..i
    OBVIOUS
  <2>2. \A j \in 1..(i - 1) : M[j] \in S
    BY <2>1
  <2>3. M[i] \in S
    BY <2>1
  <2> HIDE DEF S
  <2> QED BY <2>1, <2>2, <2>3
<1>2. \A j \in 1..(i - 1) : u[j] = M[j]
  OBVIOUS
<1> HIDE DEF u, S
<1>3. Append(u, M[i]) = [j \in 1..i |-> IF j = i THEN M[i] ELSE u[j]]
  BY <1>1
<1>4. \A j \in 1..i : (IF j = i THEN M[i] ELSE u[j]) = M[j]
  BY <1>2
<1>5. Append(u, M[i]) = [j \in 1..i |-> M[j]]
  BY <1>3, <1>4
<1> QED BY <1>5 DEF u

\* The parts of a term are parsed as what they mean.
PartsParsed(g, s, args, parse) == \A i \in 1..Len(g.subs) : TermParsed(g.subs[i], s, args, parse)

\* The bracket that closes a container whose elements are behind position d.
ClosedAt(g, d, brace) == brace = d + Len(Listed(StringsOf(g))) + 1

\* No part of a tuple but the last is a tuple.
LastIsTuple(g) == g.kind = "tuple" => \A i \in 1..(g.n - 1) : g.subs[i].kind # "tuple"

\* The elements of a container stand in a string behind position d, and their
\* dimensions in the arguments behind ap.
ElementsHere(g, s, args, parse, brace, d, ref, ap) ==
    /\ g.kind # "scalar" /\ LastIsTuple(g) /\ Typed(parse[brace], s, brace) /\ PartsParsed(g, s, args, parse)
    /\ Behind(s, d, Listed(StringsOf(g))) /\ ClosedAt(g, d, brace)
    /\ Behind(args, ap, FlattenSeq(DimensionsOf(g)))

\* The elements of a container are parsed as what they mean, in their order, each with
\* the dimensions behind those of the one before.
LEMMA ElementsRead ==
    ASSUME NEW g \in AllTerms, NEW s \in Seq(Tokens), NEW args \in Seq(Nat), NEW parse,
           NEW brace \in 1..(Len(s) + 1), NEW d \in Nat, NEW ref \in BOOLEAN, NEW ap \in Nat,
           ElementsHere(g, s, args, parse, brace, d, ref, ap)
    PROVE  /\ ParseElements(parse[brace], d + 1, ref, ap, Len(g.subs)).ts
                  = [i \in 1..Len(g.subs) |-> Meaning[g.subs[i]][ref]]
           /\ ParseElements(parse[brace], d + 1, ref, ap, Len(g.subs)).ap
                  = ap + Len(FlattenSeq(DimensionsOf(g)))
<1> /\ g.kind # "scalar" /\ LastIsTuple(g) /\ Typed(parse[brace], s, brace) /\ PartsParsed(g, s, args, parse)
    /\ Behind(s, d, Listed(StringsOf(g))) /\ ClosedAt(g, d, brace)
    /\ Behind(args, ap, FlattenSeq(DimensionsOf(g)))
  BY DEF ElementsHere
<1> DEFINE m == Len(g.subs)
           strings == StringsOf(g)
           inside == Listed(strings)
           dims == DimensionsOf(g)
           flat == FlattenSeq(dims)
           M == [j \in 1..m |-> Meaning[g.subs[j]][ref]]
<1>1. m \in Nat /\ strings \in Seq(Seq(Tokens)) /\ Len(strings) = m /\ inside \in Seq(Tokens)
      /\ \A i \in 1..m : strings[i] = Written[g.subs[i]] /\ g.subs[i] \in AllTerms
  BY StringsOfType
<1>2. dims \in Seq(Seq(Nat)) /\ Len(dims) = m /\ \A i \in 1..m : dims[i] = Dimensions[g.subs[i]]
  BY DimensionsOfType
<1>3. m > 1 => g.kind = "tuple" /\ g.n = m
  <2>1. g.kind \in ContainerTypes /\ (g.kind \in {"list", "set", "range"} => m = 1)
        /\ (g.kind = "tuple" => g.n = m)
    BY TermFields
  <2>2. g.kind \in {"list", "set", "range"} \/ g.kind = "tuple"
    BY <2>1 DEF ContainerTypes
  <2> HIDE DEF m
  <2>3. m > 1 => m # 1
    OBVIOUS
  <2> QED BY <2>1, <2>2, <2>3, Zenon
<1>0. m \in Nat
  BY <1>1
<1> HIDE DEF strings, inside, dims, flat
<1>4. \E at : Placed(inside, at, Spaced(strings))
  <2>1. Spaced(strings) \in Seq(Seq(Tokens)) /\ inside = FlattenSeq(Spaced(strings))
    BY <1>1, SpacedStrings DEF inside
  <2> QED BY <2>1, FlattenPlaces
<1>5. PICK at : Placed(inside, at, Spaced(strings))
  BY <1>4
<1>6. flat \in Seq(Nat) /\ \E dat : Placed(flat, dat, dims)
  BY <1>2, FlattenPlaces DEF flat
<1>7. PICK dat : Placed(flat, dat, dims)
  BY <1>6
<1>8. /\ at[0] = 0 /\ dat[0] = 0 /\ dat[m] = Len(flat)
      /\ \A i \in 0..m : dat[i] \in Nat /\ at[i] \in Nat
      /\ \A i \in 1..m : dat[i] = dat[i - 1] + Len(dims[i])
  <2>1. Len(Spaced(strings)) = m
    BY <1>1, SpacedStrings
  <2>2. at[0] = 0 /\ \A i \in 0..m : at[i] \in Nat
    BY <1>5, <2>1 DEF Placed
  <2>3. dat[0] = 0 /\ dat[m] = Len(flat) /\ \A i \in 0..m : dat[i] \in Nat
    BY <1>2, <1>7 DEF Placed
  <2>4. \A i \in 1..m : dat[i] = dat[i - 1] + Len(dims[i])
    BY <1>2, <1>7 DEF Placed
  <2> QED BY <2>2, <2>3, <2>4
<1>9. Behind(s, d, inside) /\ brace = d + Len(inside) + 1 /\ Len(inside) \in Nat /\ Len(s) \in Nat
      /\ d + Len(inside) <= Len(s)
  BY <1>1 DEF inside, strings, Behind, ClosedAt
<1>10. Call(d + 1, ref, ap) \in Calls(s)
  BY <1>9 DEF Call, Calls
<1>11. brace \in Nat
  OBVIOUS
<1>12. PICK upTo :
          /\ Elementwise(upTo, parse[brace], d + 1, ref, ap, m)
          /\ ParseElements(parse[brace], d + 1, ref, ap, m) = upTo[m]
          /\ \A i \in 0..m : upTo[i] \in ElementsLeft(s, brace) /\ Len(upTo[i].ts) = i
  <2> HIDE DEF m
  <2> DEFINE p == parse[brace]
             from == d + 1
  <2>1. Typed(p, s, brace) /\ Call(from, ref, ap) \in Calls(s)
    BY <1>10
  <2> HIDE DEF p, from
  <2>2. \E upTo :
          /\ Elementwise(upTo, p, from, ref, ap, m)
          /\ ParseElements(p, from, ref, ap, m) = upTo[m]
          /\ \A i \in 0..m : upTo[i] \in ElementsLeft(s, brace) /\ Len(upTo[i].ts) = i
    <3>1. StepsOfElements(p, s, brace, from, ref, ap)
      BY <1>11, <2>1, AllElementsParsed
    <3> QED BY <1>0, <3>1 DEF StepsOfElements
  <2> QED BY <2>2 DEF p, from
<1> DEFINE T == {i \in 0..m : /\ upTo[i].ts = [j \in 1..i |-> M[j]]
                              /\ upTo[i].ap = ap + dat[i]
                              /\ i < m => upTo[i].cur = d + at[i] + 1}
<1> HIDE DEF m, M
<1>13. 0 \in T
  <2>1. upTo[0] = [ts |-> << >>, cur |-> d + 1, ap |-> ap]
    <3>1. 0 \in 0..m
      BY <1>0
    <3> QED BY <3>1, <1>12 DEF Elementwise
  <2>2. << >> = [j \in 1..0 |-> M[j]]
    OBVIOUS
  <2>3. ap + dat[0] = ap /\ d + at[0] + 1 = d + 1
    BY <1>8
  <2> QED BY <1>1, <2>1, <2>2, <2>3
<1>14. ASSUME NEW i \in 1..m, i - 1 \in T PROVE i \in T
  <2> DEFINE b == ElementBehind(at, d, i)
             word == Written[g.subs[i]]
             start == d + at[i - 1] + 1
             from == ap + dat[i - 1]
             one == parse[brace][Call(start, ref, from)]
  <2>1. i \in 0..m /\ i - 1 \in 0..m /\ i - 1 < m /\ i # 0 /\ i >= 1 /\ i \in Nat
    BY <1>0
  <2>2. at[i - 1] \in Nat /\ at[i] \in Nat /\ dat[i - 1] \in Nat /\ dat[i] = dat[i - 1] + Len(dims[i])
    BY <1>8, <2>1
  <2>3. start \in Nat /\ from \in Nat
    <3>1. at[i - 1] \in Nat /\ dat[i - 1] \in Nat
      BY <2>2
    <3> DEFINE y == at[i - 1]
               z == dat[i - 1]
    <3>2. y \in Nat /\ z \in Nat
      BY <3>1
    <3> HIDE DEF y, z
    <3>3. d + y + 1 \in Nat /\ ap + z \in Nat
      BY <3>2
    <3> QED BY <3>3 DEF y, z
  <2>4. upTo[i - 1].cur = start /\ upTo[i - 1].ap = from /\ upTo[i - 1].ts = [j \in 1..(i - 1) |-> M[j]]
    BY <1>14, <2>1
  <2>5. upTo[i] = [ts |-> Append(upTo[i - 1].ts, one.t), cur |-> one.cur, ap |-> one.ap]
    <3> HIDE DEF start, from
    <3>1. upTo[i] = LET before == upTo[i - 1]
                        r == parse[brace][Call(before.cur, ref, before.ap)]
                    IN  [ts |-> Append(before.ts, r.t), cur |-> r.cur, ap |-> r.ap]
      BY <1>12, <2>1 DEF Elementwise
    <3> QED BY <2>4, <3>1
  <2>6. /\ b \in Nat /\ Behind(s, b, strings[i]) /\ Blank(s, start, b)
        /\ b + Len(strings[i]) = d + at[i] /\ at[i] <= Len(inside)
    <3>1. i \in 1..Len(strings)
      BY <1>1
    <3>3. Placed(Listed(strings), at, Spaced(strings)) /\ Behind(s, d, Listed(strings))
      BY <1>5, <1>9 DEF inside
    <3>4. /\ b \in Nat /\ Behind(s, b, strings[i]) /\ Blank(s, d + at[i - 1] + 1, b)
          /\ b + Len(strings[i]) = d + at[i] /\ at[i] <= Len(Listed(strings)) /\ at[i] \in Nat
      <4>1. strings \in Seq(Seq(Tokens))
        BY <1>1
      <4> QED BY <4>1, <3>1, <3>3, ElementAt
    <3> QED BY <3>4 DEF inside
  <2>7. Behind(args, from, Dimensions[g.subs[i]])
    <3>1. i \in 1..Len(dims) /\ Behind(args, ap, flat)
      BY <1>2 DEF flat, dims
    <3>2. Behind(args, ap + dat[i - 1], dims[i])
      BY <1>2, <1>6, <1>7, <3>1, BehindPlaced
    <3> QED BY <3>2, <1>2
  <2> HIDE DEF b, start, from
  <2>8. Behind(s, b, word) /\ b + Len(word) = d + at[i] /\ d + at[i] < brace
    <3>1. d + at[i] < brace
      <4>1. at[i] \in Nat /\ at[i] <= Len(inside)
        BY <2>2, <2>6
      <4> DEFINE y == at[i]
                 z == Len(inside)
      <4>2. y \in Nat /\ z \in Nat /\ y <= z /\ brace = d + z + 1
        BY <1>9, <4>1
      <4> HIDE DEF y, z
      <4>3. d + y < brace
        BY <4>2
      <4> QED BY <4>3 DEF y
    <3> QED BY <1>1, <2>6, <3>1
  <2>9. /\ one.t = Meaning[g.subs[i]][ref] /\ one.ap = from + Len(Dimensions[g.subs[i]])
        /\ g.subs[i].kind # "tuple" => one.cur = b + Len(word) + 1
    <3>1. TermParsed(g.subs[i], s, args, parse)
      BY DEF m, PartsParsed
    <3>2. b + Len(word) < brace
      BY <2>8
    <3>3. b \in Nat /\ Blank(s, start, b) /\ Behind(s, b, Written[g.subs[i]])
      BY <2>6, <2>8 DEF word
    <3> DEFINE h == g.subs[i]
    <3>4. TermParsed(h, s, args, parse) /\ Behind(s, b, Written[h]) /\ b + Len(Written[h]) < brace
          /\ Behind(args, from, Dimensions[h])
      BY <2>7, <3>1, <3>2, <3>3 DEF word
    <3> HIDE DEF h
    <3>5. \A b1 \in Nat : \A start1 \in Nat : \A ref1 \in BOOLEAN : \A ap1 \in Nat :
              /\ Blank(s, start1, b1) /\ Behind(s, b1, Written[h]) /\ b1 + Len(Written[h]) < brace
              /\ Behind(args, ap1, Dimensions[h])
              => LeftBy(h, parse[brace][Call(start1, ref1, ap1)], b1, ref1, ap1)
      BY <3>4 DEF TermParsed
    <3>7. b \in Nat /\ start \in Nat /\ from \in Nat /\ Blank(s, start, b)
      BY <2>3, <3>3
    <3>6. LeftBy(h, one, b, ref, from)
      BY <3>4, <3>5, <3>7 DEF one
    <3> HIDE DEF one
    <3> QED BY <3>6 DEF h, word, LeftBy
  <2> HIDE DEF one, word
  <2>10. one.t = M[i]
    BY <2>9 DEF M
  <2>11. upTo[i].ts = [j \in 1..i |-> M[j]]
    BY <2>1, <2>4, <2>5, <2>10, AppendMapped
  <2>12. upTo[i].ap = ap + dat[i]
    <3>1. upTo[i].ap = from + Len(dims[i])
      BY <1>2, <2>5, <2>9
    <3>2. Len(dims[i]) \in Nat
      BY <1>2
    <3> QED BY <2>2, <3>1, <3>2 DEF from
  <2>13. ASSUME i < m PROVE upTo[i].cur = d + at[i] + 1
    <3>1. g.kind = "tuple" /\ g.n = m /\ i \in 1..(g.n - 1)
      BY <1>1, <1>3, <2>13
    <3>2. g.subs[i].kind # "tuple"
      BY <3>1 DEF LastIsTuple
    <3> QED BY <2>5, <2>8, <2>9, <3>2
  <2> QED BY <2>1, <2>11, <2>12, <2>13
<1>15. m \in T
  <2>1. T \subseteq 0..m
    OBVIOUS
  <2> HIDE DEF T
  <2>2. \A i \in 0..m : i \in T
    BY <1>1, <1>13, <1>14, <2>1, Induction
  <2> QED BY <2>2, <1>1
<1> DEFINE elements == ParseElements(parse[brace], d + 1, ref, ap, m)
<1>16. elements = upTo[m]
  BY <1>12
<1> HIDE DEF elements
<1>17. elements.ts = [j \in 1..m |-> M[j]] /\ elements.ap = ap + Len(flat)
  BY <1>8, <1>15, <1>16
<1>18. [j \in 1..m |-> M[j]] = [j \in 1..m |-> Meaning[g.subs[j]][ref]]
  BY DEF M
<1> QED BY <1>17, <1>18 DEF elements, m, flat, dims
\* The parts of a term whose tuples are last.
LEMMA TuplesLastBelow ==
    ASSUME NEW g \in AllTerms, TuplesLast[g]
    PROVE  /\ \A i \in DOMAIN g.subs : TuplesLast[g.subs[i]]
           /\ g.kind = "tuple" => \A i \in 1..(g.n - 1) : g.subs[i].kind # "tuple"
<1> DEFINE last == [i \in DOMAIN g.subs |-> TuplesLast[g.subs[i]]]
<1>1. TuplesLastFrom(g, last)
  BY TuplesLastParts
<1>2. DOMAIN last = DOMAIN g.subs /\ \A i \in DOMAIN g.subs : last[i] = TuplesLast[g.subs[i]]
  OBVIOUS
<1> HIDE DEF last
<1> QED BY <1>1, <1>2 DEF TuplesLastFrom

\* The calls that parse up to each position do as they should, and those up to a
\* position before end are known.
CallsTyped(parse, s) == \A brace \in 1..(Len(s) + 1) : Typed(parse[brace], s, brace)
SameBefore(before, parse, end) == \A e \in 1..(end - 1) : before[e] = parse[e]

\* What a call that starts before a term leaves, if its elements are parsed as they
\* should.
LEMMA OneTermParsed ==
    ASSUME NEW g \in AllTerms, LastIsTuple(g),
           NEW s \in Seq(Tokens), NEW args \in Seq(Nat), NEW stray, NEW parse,
           CallsTyped(parse, s),
           PartsParsed(g, s, args, parse),
           NEW end \in 1..(Len(s) + 1), NEW b \in Nat, NEW start \in Nat, NEW inherited \in BOOLEAN, NEW ap \in Nat,
           Blank(s, start, b), Behind(s, b, Written[g]), b + Len(Written[g]) < end,
           Behind(args, ap, Dimensions[g]),
           NEW before, SameBefore(before, parse, end)
    PROVE  LeftBy(g, parse_typestr_helper(s, args, stray, end, before)[Call(start, inherited, ap)], b, inherited, ap)
<1> DEFINE result == parse_typestr_helper(s, args, stray, end, before)[Call(start, inherited, ap)]
<1>20. result = parse_typestr_helper(s, args, stray, end, before)[Call(start, inherited, ap)]
  OBVIOUS
<1> HIDE DEF result
<1> SUFFICES /\ result.t = Meaning[g][inherited]
             /\ result.ap = ap + Len(Dimensions[g])
             /\ g.kind # "tuple" => result.cur = b + Len(Written[g]) + 1
  BY DEF LeftBy, result
<1> DEFINE c == IF g.ref THEN b + 1 ELSE b
           core == Core(g)
           call == Call(start, inherited, ap)
           ref == inherited \/ g.ref
           token == core[1]
           cur == c + 1
           length == Len(Written[g])
<1>1. /\ Behind(s, c, core) /\ c \in Nat /\ c + Len(core) = b + length
      /\ c + 1 <= Len(s) /\ s[c + 1] = token /\ Len(core) >= 1 /\ length >= 1
      /\ Reads(s, call, cur, ref)
  BY TermRead
<1>2. g.kind \in ContainerTypes \cup {"scalar"} /\ ref \in BOOLEAN /\ g.n \in Nat
  BY TermFields
<1>3. length \in Nat /\ Len(core) \in Nat /\ Len(s) \in Nat /\ end \in Nat
  BY WrittenCore
<1> HIDE DEF c, core, ref, length
<1>4. call \in Calls(s) /\ call.start # end /\ call.ap = ap /\ call.start = start
  <2>1. start \in 1..(b + 1) /\ b + length <= Len(s) /\ b + length < end
    BY DEF Blank, Behind, length
  <2>2. start \in 1..(Len(s) + 1) /\ start # end
    BY <1>1, <1>3, <2>1
  <2> QED BY <2>2 DEF Call, Calls
<1> HIDE DEF call, token
<1>5. token = At(s, cur)
  BY <1>1, <1>3 DEF At
<1> HIDE DEF cur
<1>6. CASE g.kind = "scalar"
  <2>1. token = g.spec /\ Len(core) = 1 /\ g.spec \in Specifiers
    BY <1>6, TermFields DEF core, Core, token
  <2>2. result = Parsed(base_ref(token, ref), cur + 1, call.ap)
    <3>1. token \in Specifiers
      BY <2>1
    <3>2. result = parse_typestr_helper(s, args, stray, end, before)[call]
      BY <1>20 DEF call
    <3>3. parse_typestr_helper(s, args, stray, end, before)[call] = Parsed(base_ref(token, ref), cur + 1, call.ap)
      BY <1>1, <1>4, <1>5, <3>1, ScalarParsed
    <3> QED BY <3>2, <3>3
  <2>3. Len(Dimensions[g]) = 0
    <3> DEFINE flat == FlattenSeq(DimensionsOf(g))
    <3>1. Dimensions[g] = << >> \o flat
      BY <1>6, DimensionsParts DEF DimensionsFrom, DimensionsOf
    <3>2. Len(DimensionsOf(g)) = 0 /\ flat \in Seq(Nat) /\ \E dat : Placed(flat, dat, DimensionsOf(g))
      <4>1. g.subs = << >>
        BY <1>6, TermFields
      <4>2. DimensionsOf(g) \in Seq(Seq(Nat)) /\ Len(DimensionsOf(g)) = Len(g.subs)
        BY DimensionsOfType
      <4> QED BY <4>1, <4>2, FlattenPlaces
    <3> HIDE DEF flat
    <3>3. Len(flat) = 0
      BY <3>2 DEF Placed
    <3> QED BY <3>1, <3>2, <3>3
  <2>4. Meaning[g][inherited] = base_ref(g.spec, ref)
    BY <1>6, MeaningOf DEF ref
  <2>5. result.t = base_ref(token, ref) /\ result.cur = cur + 1 /\ result.ap = ap
    BY <1>4, <2>2 DEF Parsed
  <2>6. cur + 1 = b + length + 1
    BY <1>1, <1>3, <2>1 DEF cur
  <2> QED BY <2>1, <2>3, <2>4, <2>5, <2>6 DEF length
<1>7. CASE g.kind # "scalar"
  <2> DEFINE brace == c + Len(core)
             elements == ParseElements(parse[brace], cur + 1, ref, ap + Own(g), Len(g.subs))
             open == Bracket(g.kind)
             flat == FlattenSeq(DimensionsOf(g))
  <2>1. g.kind \in ContainerTypes /\ open \in DOMAIN Opening /\ Opening[open] = g.kind
    BY <1>2, <1>7, BracketKind
  <2>2. brace < end /\ brace \in Nat /\ c \in Nat
    BY <1>1, <1>3 DEF length
  <2>3. /\ token = open /\ find_end_brace(s, Closing[open], cur, end) = brace
        /\ Behind(s, cur, Listed(StringsOf(g))) /\ brace = cur + Len(Listed(StringsOf(g))) + 1
        /\ brace <= Len(s) /\ cur \in Nat
    <3>1. Behind(s, c, Core(g)) /\ c + Len(Core(g)) < end
      BY <1>1, <2>2 DEF core
    <3>2. /\ At(s, c + 1) = Bracket(g.kind)
          /\ find_end_brace(s, Closing[Bracket(g.kind)], c + 1, end) = c + Len(Core(g))
          /\ Behind(s, c + 1, Listed(StringsOf(g)))
          /\ c + Len(Core(g)) = (c + 1) + Len(Listed(StringsOf(g))) + 1
          /\ c + Len(Core(g)) <= Len(s)
      BY <1>1, <1>3, <1>7, <3>1, ContainerRead
    <3> QED BY <1>1, <1>5, <3>2 DEF cur, core
  <2>4. brace \in 1..(Len(s) + 1) /\ brace # NoBrace /\ before[brace] = parse[brace]
    <3>1. brace >= 1
      BY <1>1, <1>3
    <3> HIDE DEF brace
    <3>2. brace \in 1..(Len(s) + 1) /\ brace # NoBrace /\ brace \in 1..(end - 1)
      BY <1>3, <2>2, <2>3, <3>1 DEF NoBrace
    <3> QED BY <3>2 DEF SameBefore
  <2> HIDE DEF brace, open, flat
  <2>5. /\ g.kind # "range" => NextInt(args, ap, stray) = g.n
        /\ Behind(args, ap + Own(g), flat)
        /\ Len(Dimensions[g]) = Own(g) + Len(flat) /\ flat \in Seq(Nat)
    BY <1>7, ArgumentsAt DEF flat
  <2>6. (token = "<" <=> g.kind = "range") /\ (token = "(" <=> g.kind = "tuple")
    <3>1. Opening["["] = "set" /\ Opening["{"] = "list" /\ Opening["<"] = "range" /\ Opening["("] = "tuple"
          /\ DOMAIN Opening = {"[", "{", "<", "("}
      BY DEF Opening
    <3> QED BY <2>1, <2>3, <3>1
  <2>7. g.n = IF token = "<" THEN 2 ELSE NextInt(args, call.ap, stray)
    BY <1>4, <2>5, <2>6, TermFields
  <2>8. Own(g) \in Nat /\ ap + Own(g) = IF token = "<" THEN call.ap ELSE AfterNext(call.ap)
    BY <1>4, <2>6 DEF Own, AfterNext
  <2>9. Len(g.subs) = IF token = "(" THEN g.n ELSE 1
    BY <2>1, <2>6, TermFields DEF ContainerTypes
  <2>10. elements.ts = [i \in 1..Len(g.subs) |-> Meaning[g.subs[i]][ref]] /\ elements.ap = (ap + Own(g)) + Len(flat)
    <3> DEFINE from == ap + Own(g)
    <3>1. from \in Nat /\ Behind(args, from, FlattenSeq(DimensionsOf(g))) /\ Typed(parse[brace], s, brace)
      BY <2>4, <2>5, <2>8 DEF flat, CallsTyped
    <3>2. ClosedAt(g, cur, brace)
      BY <2>3 DEF ClosedAt
    <3> HIDE DEF from
    <3>3. /\ ParseElements(parse[brace], cur + 1, ref, from, Len(g.subs)).ts
                 = [i \in 1..Len(g.subs) |-> Meaning[g.subs[i]][ref]]
          /\ ParseElements(parse[brace], cur + 1, ref, from, Len(g.subs)).ap
                 = from + Len(FlattenSeq(DimensionsOf(g)))
      <4>1. ElementsHere(g, s, args, parse, brace, cur, ref, from)
        BY <1>7, <2>3, <3>1, <3>2 DEF ElementsHere
      <4>2. brace \in 1..(Len(s) + 1) /\ cur \in Nat /\ ref \in BOOLEAN /\ from \in Nat
        BY <1>2, <2>3, <2>4, <3>1
      <4> HIDE DEF elements
      <4> QED BY <4>1, <4>2, ElementsRead
    <3> QED BY <3>3 DEF from, flat
  <2>11. NoneNull(elements.ts)
    <3>1. \A i \in 1..Len(g.subs) : g.subs[i] \in AllTerms
      BY StringsOfType
    <3>2. \A i \in 1..Len(g.subs) : Meaning[g.subs[i]][ref] # NullType
      BY <1>2, <3>1, MeaningType, NullIsNone
    <3> HIDE DEF elements
    <3> QED BY <2>10, <3>2 DEF NoneNull
  <2>12. elements = ParseElements(before[brace], cur + 1, ref, ap + Own(g), Len(g.subs))
    BY <2>4
  <2> HIDE DEF elements
  <2>13. result = Parsed(ContainerType(Opening[token], ref, g.n, elements.ts),
                         IF token = "(" THEN call.start ELSE brace + 1, elements.ap)
    <3> DEFINE after == ap + Own(g)
               n == g.n
    <3>1. result = parse_typestr_helper(s, args, stray, end, before)[call]
      BY <1>20 DEF call
    <3>2. token \in DOMAIN Opening /\ brace = find_end_brace(s, Closing[token], cur, end) /\ brace # NoBrace
      BY <2>1, <2>3, <2>4
    <3> DEFINE m == Len(g.subs)
    <3>4. elements = ParseElements(before[brace], cur + 1, ref, after, m)
      BY <2>12
    <3>5. NumberRead(token, args, call.ap, stray, n, m, after)
      BY <2>7, <2>8, <2>9 DEF NumberRead
    <3> HIDE DEF after, n, m
    <3>6. parse_typestr_helper(s, args, stray, end, before)[call]
              = ContainerLeft(token, ref, n, elements, call.start, brace)
      <4>1. Reads(s, call, cur, ref) /\ call \in Calls(s) /\ call.start # end /\ token = At(s, cur)
        BY <1>1, <1>4, <1>5
      <4>2. ContainerHere(s, args, stray, end, before, call, cur, ref, token, brace, n, after, elements)
        BY <4>1, <2>11, <3>2, <3>4, <3>5 DEF ContainerHere
      <4> QED BY <4>1, <4>2, ContainerParsed
    <3> QED BY <3>1, <3>6 DEF n, ContainerLeft
  <2>14. result.t = ContainerType(g.kind, ref, g.n, elements.ts) /\ result.ap = elements.ap
         /\ (g.kind # "tuple" => result.cur = brace + 1)
    BY <2>1, <2>3, <2>6, <2>13 DEF Parsed
  <2>15. Meaning[g][inherited] = ContainerType(g.kind, ref, g.n, elements.ts)
    <3>1. DOMAIN g.subs = 1..Len(g.subs)
      BY StringsOfType
    <3>2. Meaning[g][inherited] = ContainerType(g.kind, ref, g.n,
                                      [i \in DOMAIN g.subs |-> Meaning[g.subs[i]][ref]])
      BY <1>7, MeaningOf DEF ref
    <3> QED BY <2>10, <3>1, <3>2
  <2>16. (ap + Own(g)) + Len(flat) = ap + Len(Dimensions[g])
    <3>1. Len(flat) \in Nat
      BY <2>5
    <3> QED BY <2>5, <2>8, <3>1
  <2>17. brace + 1 = b + length + 1
    BY <1>1 DEF brace
  <2> QED BY <2>10, <2>14, <2>15, <2>16, <2>17 DEF length
<1> QED BY <1>6, <1>7

\* All terms in a string are parsed as what they mean.
LEMMA TermsParsed ==
    ASSUME NEW s \in Seq(Tokens), Len(s) <= MaxLength, NEW args \in Seq(Nat), NEW stray \in Nat,
           NEW parse, ParsedUpTo(parse, Len(s) + 1, s, args, stray)
    PROVE  \A g \in AllTerms : TuplesLast[g] => TermParsed(g, s, args, parse)
<1> DEFINE S == {g \in AllTerms : TuplesLast[g] => TermParsed(g, s, args, parse)}
<1>1. CallsTyped(parse, s)
  BY AllTyped DEF CallsTyped
<1>2. ASSUME NEW g \in AllTerms, \A i \in DOMAIN g.subs : g.subs[i] \in S, TuplesLast[g]
      PROVE  TermParsed(g, s, args, parse)
  <2>1. /\ \A i \in DOMAIN g.subs : TuplesLast[g.subs[i]]
        /\ LastIsTuple(g)
    BY <1>2, TuplesLastBelow DEF LastIsTuple
  <2>2. PartsParsed(g, s, args, parse)
    <3>1. DOMAIN g.subs = 1..Len(g.subs)
      BY StringsOfType
    <3> QED BY <1>2, <2>1, <3>1 DEF PartsParsed
  <2> HIDE DEF S
  <2> SUFFICES ASSUME NEW end \in 1..(Len(s) + 1), NEW b \in Nat, NEW start \in Nat,
                      NEW ref \in BOOLEAN, NEW ap \in Nat,
                      Blank(s, start, b), Behind(s, b, Written[g]), b + Len(Written[g]) < end,
                      Behind(args, ap, Dimensions[g])
               PROVE  LeftBy(g, parse[end][Call(start, ref, ap)], b, ref, ap)
    BY DEF TermParsed
  <2> DEFINE before == [e \in 1..(end - 1) |-> parse[e]]
  <2>3. SameBefore(before, parse, end)
    BY DEF SameBefore
  <2>4. parse[end] = parse_typestr_helper(s, args, stray, end, before)
    BY DEF ParsedUpTo
  <2> HIDE DEF before
  <2>5. LeftBy(g, parse_typestr_helper(s, args, stray, end, before)[Call(start, ref, ap)], b, ref, ap)
    BY <1>1, <2>1, <2>2, <2>3, OneTermParsed
  <2> QED BY <2>4, <2>5
<1>3. AllTerms \subseteq S
  <2>1. \A g \in AllTerms : (\A i \in DOMAIN g.subs : g.subs[i] \in S) => g \in S
    BY <1>2
  <2> HIDE DEF S
  <2> QED BY <2>1, TermInduction
<1> QED BY <1>3

-----------------------------------------------------------------------------
\* A string that is written for a term, with the dimensions of the term, is parsed as
\* the type that the term means, if tuples are last in tuples.
THEOREM TermReadBack ==
    ASSUME NEW g \in AllTerms, TuplesLast[g], Len(Written[g]) <= MaxLength, NEW stray \in Nat
    PROVE  parse_typestr(Written[g], Dimensions[g], stray) = Meaning[g][FALSE]
<1> DEFINE s == Written[g]
           args == Dimensions[g]
<1>1. s \in Seq(Tokens) /\ args \in Seq(Nat)
  BY WrittenType, DimensionsType
<1>2. PICK parse : /\ ParsedUpTo(parse, Len(s) + 1, s, args, stray)
                   /\ parse_typestr(s, args, stray) = parse[Len(s) + 1][Call(1, FALSE, 0)].t
  BY <1>1, CallsParsed
<1>3. TermParsed(g, s, args, parse)
  <2> HIDE DEF s, args
  <2>1. Len(s) <= MaxLength
    BY DEF s
  <2> QED BY <1>1, <1>2, <2>1, TermsParsed
<1>4. Behind(s, 0, s) /\ Behind(args, 0, args) /\ Blank(s, 1, 0) /\ Len(s) \in Nat
  BY <1>1 DEF Behind, Blank
<1>5. Len(s) + 1 \in 1..(Len(s) + 1) /\ 0 + Len(s) < Len(s) + 1
  BY <1>4
<1>6. parse[Len(s) + 1][Call(1, FALSE, 0)].t = Meaning[g][FALSE]
  <2> DEFINE end == Len(s) + 1
             no == FALSE
  <2>1. end \in 1..(Len(s) + 1) /\ 0 \in Nat /\ 1 \in Nat /\ no \in BOOLEAN
    BY <1>5
  <2>2. Blank(s, 1, 0) /\ Behind(s, 0, Written[g]) /\ 0 + Len(Written[g]) < end /\ Behind(args, 0, Dimensions[g])
    BY <1>4, <1>5
  <2> HIDE DEF end, no, s, args
  <2>4. LeftBy(g, parse[end][Call(1, no, 0)], 0, no, 0)
    BY <1>3, <2>1, <2>2 DEF TermParsed
  <2>3. parse[end][Call(1, no, 0)].t = Meaning[g][no]
    BY <2>4 DEF LeftBy
  <2> QED BY <2>3 DEF end, no
<1> QED BY <1>2, <1>6
=============================================================================
