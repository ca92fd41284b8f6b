------------------------------- MODULE CxxProofs -------------------------------
(***************************************************************************)
(* Proofs about registrations from C++ and what Python reads of any        *)
(* record, for all C++ types and objects up to the bound on lengths.       *)
(***************************************************************************)
EXTENDS PyadiakTool, ValueProofs


-----------------------------------------------------------------------------
\* What is computed for a static type from what is computed for its parts, and for an
\* object from its elements.
Statics == INSTANCE Nesting WITH
    MaxDepth <- MaxLength, Over <- TermsOver, Parts <- Subterms, Step <- StaticFrom
Makes == INSTANCE Nesting WITH
    MaxDepth <- MaxLength, Over <- TermsOver, Parts <- Subterms, Step <- MadeFrom
ObjectTerms == INSTANCE Nesting WITH
    MaxDepth <- MaxLength, Over <- TermsOver, Parts <- Subterms, Step <- TermFrom
Rectangles == INSTANCE Nesting WITH
    MaxDepth <- MaxLength, Over <- TermsOver, Parts <- Subterms, Step <- RectangularFrom

SequencesOver(S) == Seq(S)
Items(elems) == elems
Objects == INSTANCE Nesting WITH
    MaxDepth <- MaxLength, Over <- SequencesOver, Parts <- Items, Step <- ValueFrom

LEMMA StaticParts ==
    ASSUME NEW type \in AllTerms
    PROVE  Static[type] = StaticFrom(type, [j \in DOMAIN type.subs |-> Static[type.subs[j]]])
<1>1. Statics!Nested /\ Statics!All = AllTerms
  BY TermsNested DEF Statics!Nested, Strings!Nested, Statics!All, Statics!UpTo, AllTerms, TermsUpTo
<1>2. Statics!Result = Static
  BY <1>1 DEF Statics!Result, Statics!Computes, Static, Subterms
<1>3. Statics!Computes(Static, AllTerms)
  BY <1>1, <1>2, Statics!NestingRecursion
<1> QED BY <1>3 DEF Statics!Computes, Subterms

LEMMA MadeParts ==
    ASSUME NEW type \in AllTerms
    PROVE  make_type[type] = MadeFrom(type, [j \in DOMAIN type.subs |-> make_type[type.subs[j]]])
<1>1. Makes!Nested /\ Makes!All = AllTerms
  BY TermsNested DEF Makes!Nested, Strings!Nested, Makes!All, Makes!UpTo, AllTerms, TermsUpTo
<1>2. Makes!Result = make_type
  BY <1>1 DEF Makes!Result, Makes!Computes, make_type, Subterms
<1>3. Makes!Computes(make_type, AllTerms)
  BY <1>1, <1>2, Makes!NestingRecursion
<1> QED BY <1>3 DEF Makes!Computes, Subterms

LEMMA TermParts ==
    ASSUME NEW type \in AllTerms
    PROVE  TermOf[type] = TermFrom(type, [j \in DOMAIN type.subs |-> TermOf[type.subs[j]]])
<1>1. ObjectTerms!Nested /\ ObjectTerms!All = AllTerms
  BY TermsNested DEF ObjectTerms!Nested, Strings!Nested, ObjectTerms!All, ObjectTerms!UpTo, AllTerms, TermsUpTo
<1>2. ObjectTerms!Result = TermOf
  BY <1>1 DEF ObjectTerms!Result, ObjectTerms!Computes, TermOf, Subterms
<1>3. ObjectTerms!Computes(TermOf, AllTerms)
  BY <1>1, <1>2, ObjectTerms!NestingRecursion
<1> QED BY <1>3 DEF ObjectTerms!Computes, Subterms

LEMMA RectangularParts ==
    ASSUME NEW type \in AllTerms
    PROVE  Rectangular[type]
               = RectangularFrom(type, [j \in DOMAIN type.subs |-> Rectangular[type.subs[j]]])
<1>1. Rectangles!Nested /\ Rectangles!All = AllTerms
  BY TermsNested DEF Rectangles!Nested, Strings!Nested, Rectangles!All, Rectangles!UpTo, AllTerms, TermsUpTo
<1>2. Rectangles!Result = Rectangular
  BY <1>1 DEF Rectangles!Result, Rectangles!Computes, Rectangular, Subterms
<1>3. Rectangles!Computes(Rectangular, AllTerms)
  BY <1>1, <1>2, Rectangles!NestingRecursion
<1> QED BY <1>3 DEF Rectangles!Computes, Subterms

\* The elements of an element are elements.
LEMMA ElementsParts ==
    /\ Objects!Nested /\ Objects!All = Elements
    /\ \A elems \in Elements : elems \in Seq(Elements)
    /\ << >> \in Elements
<1>1. \A S, T : S \subseteq T => Seq(S) \subseteq Seq(T)
  <2> SUFFICES ASSUME NEW S, NEW T, S \subseteq T, NEW s \in Seq(S) PROVE s \in Seq(T)
    OBVIOUS
  <2> QED OBVIOUS
<1>2. Objects!Nested
  BY <1>1, LengthAssumption DEF Objects!Nested, SequencesOver, Items
<1>3. Objects!All = Elements /\ Objects!UpTo = ElementsUpTo
  BY DEF Objects!All, Objects!UpTo, Elements, ElementsUpTo, SequencesOver
<1>4. \A elems \in Elements : elems \in Seq(Elements)
  BY <1>2, <1>3, Objects!StructuresOverAll DEF SequencesOver
<1>5. << >> \in Elements
  <2>1. Objects!Levels(ElementsUpTo, MaxLength) /\ MaxLength \in 0..MaxLength
    BY <1>3, Objects!LevelsExist, LengthAssumption
  <2>2. Elements = Seq(IF MaxLength = 0 THEN {} ELSE ElementsUpTo[MaxLength - 1])
    BY <2>1 DEF Objects!Levels, SequencesOver, Elements
  <2> QED BY <2>2
<1> QED BY <1>2, <1>3, <1>4, <1>5

LEMMA ValueParts ==
    ASSUME NEW elems \in Elements
    PROVE  make_value[elems] = ValueFrom(elems, [j \in DOMAIN elems |-> make_value[elems[j]]])
<1>1. Objects!Result = make_value
  BY ElementsParts DEF Objects!Result, Objects!Computes, make_value, Items
<1>2. Objects!Computes(make_value, Elements)
  BY <1>1, ElementsParts, Objects!NestingRecursion
<1> QED BY <1>2 DEF Objects!Computes, Items

\* There are datatypes for promoted data, and they are the same for the data promoted
\* once more.
LEMMA WidenedSpec ==
    ASSUME NEW spec \in Specifiers
    PROVE  /\ Widened(spec) \in Specifiers
           /\ base[Widened(spec)].dtype = base[spec].dtype
           /\ adiak_get_basetype(base[spec].dtype) = base[Widened(spec)]
<1>1. base[spec].dtype \in NumberTypes \cup PointerTypes /\ base[spec].dtype # "unset"
  <2>1. base[spec].dtype # "unset"
    BY SMTT(30) DEF base, Specifiers, BaseType, Type
  <2> QED BY <2>1, BaseFields
<1>2. \A d \in (NumberTypes \cup PointerTypes) \ {"unset"} : base[Simple[d]].dtype = d
  BY SMTT(60) DEF NumberTypes, PointerTypes, StringTypes, Simple, base, Specifiers, BaseType, Type
<1>3. Widened(spec) \in Specifiers
  BY SimpleSpecifier DEF Widened
<1> QED BY <1>1, <1>2, <1>3 DEF Widened, adiak_get_basetype

\* The term of promoted data.
Promoted(type) == [type EXCEPT !.spec = Widened(type.spec)]

LEMMA PromotedTerm ==
    ASSUME NEW type \in AllTerms, type.kind = "scalar"
    PROVE  /\ Promoted(type) \in AllTerms /\ Promoted(type).kind = "scalar"
           /\ Promoted(type).spec = Widened(type.spec) /\ Promoted(type).ref = type.ref
<1> DEFINE spec == Widened(type.spec)
           d == MaxLength
<1>1. type \in TermsOver(AllTerms)
  BY TermsNested, TermsAll, Strings!StructuresOverAll
<1>2. type.spec \in Specifiers /\ spec \in Specifiers
  BY TermFields, WidenedSpec
<1> HIDE DEF spec
<1>3. "none" \notin Specifiers
  BY DEF Specifiers
<1> DEFINE g == [type EXCEPT !.spec = spec]
<1>4. g.kind = "scalar" /\ g.spec = spec /\ g.ref = type.ref /\ g.subs = << >>
  BY <1>1 DEF TermsOver
<1>5. g \in TermsOver({})
  <2> DEFINE none == << >>
  <2>1. type.subs = none /\ none \in Seq({})
    BY <1>1 DEF TermsOver
  <2> HIDE DEF none
  <2> QED BY <1>1, <1>2, <1>3, <2>1 DEF TermsOver
<1> HIDE DEF g
<1>6. g \in AllTerms
  <2>1. 0 \in 0..MaxLength
    BY LengthAssumption
  <2> QED BY <1>5, <2>1, TermLevels
<1> QED BY <1>4, <1>6 DEF g, spec, Promoted

LEMMA PromotedMeaning ==
    ASSUME NEW type \in AllTerms, type.kind = "scalar", ~type.ref
    PROVE  Meaning[Promoted(type)][FALSE] = base_ref(Widened(type.spec), FALSE)
<1> DEFINE g == Promoted(type)
           r == FALSE
           ref == r \/ g.ref
<1>1. g \in AllTerms /\ g.kind = "scalar" /\ g.spec = Widened(type.spec) /\ g.ref = type.ref
  BY PromotedTerm
<1>2. r \in BOOLEAN
  OBVIOUS
<1>3. ref = FALSE
  <2> HIDE DEF g
  <2> QED BY <1>1, TermFields
<1>4. Meaning[g][r] = base_ref(g.spec, ref)
  <2> HIDE DEF g, r
  <2> QED BY <1>1, <1>2, MeaningOf
<1> HIDE DEF g, ref
<1> QED BY <1>1, <1>3, <1>4 DEF g

\* The type of an object: a scalar type, or a container whose size is still that of the
\* type.
SizeMade(type) ==
    CASE type.kind = "range" -> 2
      [] type.kind = "tuple" -> Len(type.subs)
      [] OTHER -> 0

LEMMA MadeOf ==
    ASSUME NEW type \in AllTerms
    PROVE  /\ type.kind = "scalar" => make_type[type] = base_ref(Widened(type.spec), FALSE)
           /\ type.kind # "scalar" =>
                 make_type[type] = ContainerType(type.kind, FALSE, SizeMade(type),
                                                 [j \in DOMAIN type.subs |-> make_type[type.subs[j]]])
           /\ SizeMade(type) \in Nat
<1> DEFINE subtypes == [j \in DOMAIN type.subs |-> make_type[type.subs[j]]]
<1>1. make_type[type] = MadeFrom(type, subtypes)
  BY MadeParts
<1> HIDE DEF subtypes
<1>2. make_type[type] = IF type.kind = "scalar" THEN adiak_get_basetype(base[type.spec].dtype)
                        ELSE ContainerType(type.kind, FALSE, SizeMade(type), subtypes)
  BY <1>1 DEF MadeFrom, SizeMade
<1>3. CASE type.kind = "scalar"
  <2> DEFINE spec == Widened(type.spec)
             name == base[spec].dtype
             bytes == base[spec].num_bytes
  <2>1. spec \in Specifiers /\ adiak_get_basetype(base[type.spec].dtype) = base[spec]
    BY <1>3, TermFields, WidenedSpec
  <2>4. base[spec] = BaseType(name, bytes)
    <3> HIDE DEF spec
    <3> QED BY <2>1, BaseFields
  <2> HIDE DEF name, bytes, spec
  <2>5. base_ref(spec, FALSE) = Type(name, bytes, FALSE /\ name \in StringTypes, 0, 0, << >>)
    BY <2>4 DEF base_ref, BaseType, Type
  <2>6. (FALSE /\ name \in StringTypes) = FALSE
    OBVIOUS
  <2>2. base_ref(spec, FALSE) = base[spec]
    BY <2>4, <2>5, <2>6 DEF BaseType
  <2>3. SizeMade(type) \in Nat
    BY <1>3 DEF SizeMade
  <2> QED BY <1>2, <1>3, <2>1, <2>2, <2>3 DEF spec
<1>4. CASE type.kind # "scalar"
  <2>1. Len(type.subs) \in Nat
    BY TermFields
  <2>2. SizeMade(type) \in Nat
    BY <2>1 DEF SizeMade
  <2> QED BY <1>2, <1>4, <2>2 DEF subtypes
<1> QED BY <1>3, <1>4

LEMMA MadeType ==
    ASSUME NEW type \in AllTerms
    PROVE  make_type[type] \in Datatypes
<1> DEFINE f == [g \in AllTerms |-> [r \in BOOLEAN |-> make_type[g]]]
<1>1. ASSUME NEW g \in AllTerms, NEW r \in BOOLEAN PROVE f[g][r] = make_type[g]
  OBVIOUS
<1>2. \A g \in AllTerms : \A r \in BOOLEAN : g.kind = "scalar" =>
          \E spec \in Specifiers : \E ref \in BOOLEAN : f[g][r] = base_ref(spec, ref)
  <2> HIDE DEF f
  <2> SUFFICES ASSUME NEW g \in AllTerms, NEW r \in BOOLEAN, g.kind = "scalar"
               PROVE  \E spec \in Specifiers : \E ref \in BOOLEAN : f[g][r] = base_ref(spec, ref)
    OBVIOUS
  <2>1. Widened(g.spec) \in Specifiers
    BY TermFields, WidenedSpec
  <2>2. f[g][r] = base_ref(Widened(g.spec), FALSE)
    BY <1>1, MadeOf
  <2> QED BY <2>1, <2>2
<1>3. ASSUME NEW g \in AllTerms, NEW r \in BOOLEAN, g.kind # "scalar"
      PROVE  \E ref \in BOOLEAN : \E n \in Nat : \E q \in BOOLEAN :
                 /\ f[g][r] = ContainerType(g.kind, ref, n, [i \in DOMAIN g.subs |-> f[g.subs[i]][q]])
                 /\ g.kind = "tuple" => n = Len(g.subs)
  <2> HIDE DEF f
  <2>1. g.subs \in Seq(AllTerms) /\ SizeMade(g) \in Nat
    BY TermFields, MadeOf
  <2>2. \A i \in DOMAIN g.subs : g.subs[i] \in AllTerms
    BY <2>1
  <2>3. [i \in DOMAIN g.subs |-> f[g.subs[i]][FALSE]] = [i \in DOMAIN g.subs |-> make_type[g.subs[i]]]
    BY <2>2, <1>1
  <2>4. f[g][r] = ContainerType(g.kind, FALSE, SizeMade(g), [i \in DOMAIN g.subs |-> f[g.subs[i]][FALSE]])
    BY <1>1, <1>3, <2>3, MadeOf
  <2>5. g.kind = "tuple" => SizeMade(g) = Len(g.subs)
    BY DEF SizeMade
  <2> QED BY <2>1, <2>4, <2>5
<1>4. \A g \in AllTerms : \A r \in BOOLEAN : f[g][r] \in Datatypes
  <2> HIDE DEF f
  <2> QED BY <1>2, <1>3, TypesOfTerms
<1>5. f[type][FALSE] \in Datatypes
  <2> HIDE DEF f
  <2> QED BY <1>4
<1> QED BY <1>1, <1>5

\* The term of an object, and the types and elements in it.
FirstOf(elems, j) == IF elems = << >> THEN << >> ELSE elems[j]

LEMMA TermOfObject ==
    ASSUME NEW type \in AllTerms, NEW elems \in Elements
    PROVE  /\ type.kind = "scalar" => TermOf[type][elems] = Promoted(type)
           /\ type.kind # "scalar" =>
                 TermOf[type][elems]
                     = [type EXCEPT !.n = Len(elems),
                                    !.subs = [j \in DOMAIN type.subs |->
                                                 TermOf[type.subs[j]][FirstOf(elems, j)]]]
<1> DEFINE terms == [j \in DOMAIN type.subs |-> TermOf[type.subs[j]]]
<1>1. TermOf[type] = TermFrom(type, terms)
  BY TermParts
<1>2. [j \in DOMAIN type.subs |-> terms[j][FirstOf(elems, j)]]
          = [j \in DOMAIN type.subs |-> TermOf[type.subs[j]][FirstOf(elems, j)]]
  OBVIOUS
<1> HIDE DEF terms
<1>3. TermOf[type][elems] =
          IF type.kind = "scalar" THEN Promoted(type)
          ELSE [type EXCEPT !.n = Len(elems), !.subs = [j \in DOMAIN type.subs |-> terms[j][FirstOf(elems, j)]]]
  BY <1>1 DEF TermFrom, FirstOf, Promoted
<1> QED BY <1>2, <1>3

LEMMA TermOfFields ==
    ASSUME NEW type \in AllTerms, NEW elems \in Elements, type.kind # "scalar",
           TermOf[type][elems] \in AllTerms
    PROVE  /\ TermOf[type][elems].kind = type.kind /\ TermOf[type][elems].ref = type.ref
           /\ TermOf[type][elems].n = Len(elems)
           /\ DOMAIN TermOf[type][elems].subs = DOMAIN type.subs
           /\ Len(TermOf[type][elems].subs) = Len(type.subs)
           /\ \A j \in DOMAIN type.subs :
                 /\ TermOf[type][elems].subs[j] = TermOf[type.subs[j]][FirstOf(elems, j)]
                 /\ TermOf[type][elems].subs[j] \in AllTerms
<1> DEFINE g == TermOf[type][elems]
           subs == [j \in DOMAIN type.subs |-> TermOf[type.subs[j]][FirstOf(elems, j)]]
<1>1. g = [type EXCEPT !.n = Len(elems), !.subs = subs]
  BY TermOfObject
<1>2. type \in TermsOver(AllTerms)
  BY TermsNested, TermsAll, Strings!StructuresOverAll
<1> HIDE DEF subs
<1>3. g.kind = type.kind /\ g.ref = type.ref /\ g.n = Len(elems) /\ g.subs = subs
  BY <1>1, <1>2 DEF TermsOver
<1>4. g.subs \in Seq(AllTerms) /\ type.subs \in Seq(AllTerms)
  BY TermFields
<1> HIDE DEF g
<1>5. DOMAIN g.subs = DOMAIN type.subs
  BY <1>3 DEF subs
<1>6. Len(g.subs) = Len(type.subs) /\ \A j \in DOMAIN g.subs : g.subs[j] \in AllTerms
  BY <1>4, <1>5
<1>7. \A j \in DOMAIN type.subs : g.subs[j] = TermOf[type.subs[j]][FirstOf(elems, j)]
  BY <1>3 DEF subs
<1> QED BY <1>3, <1>5, <1>6, <1>7 DEF g

\* What is static is made of what is static.
LEMMA StaticFields ==
    ASSUME NEW type \in AllTerms, Static[type]
    PROVE  /\ ~type.ref /\ (type.kind \in {"set", "list"} => type.n = 0)
           /\ \A j \in DOMAIN type.subs : Static[type.subs[j]]
<1> DEFINE static == [j \in DOMAIN type.subs |-> Static[type.subs[j]]]
<1>1. StaticFrom(type, static)
  BY StaticParts
<1> QED BY <1>1 DEF StaticFrom

\* An empty object means what make_type has written for it.
LEMMA EmptyMeans ==
    ASSUME NEW type \in AllTerms, Static[type], TermOf[type][<< >>] \in AllTerms
    PROVE  Meaning[TermOf[type][<< >>]][FALSE] = make_type[type]
<1> DEFINE S == {u \in AllTerms : Static[u] /\ TermOf[u][<< >>] \in AllTerms
                                      => Meaning[TermOf[u][<< >>]][FALSE] = make_type[u]}
<1>1. ASSUME NEW u \in AllTerms, \A j \in DOMAIN u.subs : u.subs[j] \in S,
             Static[u], TermOf[u][<< >>] \in AllTerms
      PROVE  Meaning[TermOf[u][<< >>]][FALSE] = make_type[u]
  <2> DEFINE g == TermOf[u][<< >>]
             made == [j \in DOMAIN u.subs |-> make_type[u.subs[j]]]
             meant == [j \in DOMAIN g.subs |-> Meaning[g.subs[j]][FALSE]]
  <2>1. ~u.ref /\ \A j \in DOMAIN u.subs : Static[u.subs[j]]
    BY <1>1, StaticFields
  <2>2. << >> \in Elements
    BY ElementsParts
  <2>3. CASE u.kind = "scalar"
    <3>1. g = Promoted(u)
      BY <2>2, <2>3, TermOfObject
    <3>2. Meaning[Promoted(u)][FALSE] = make_type[u]
      BY <2>1, <2>3, MadeOf, PromotedMeaning
    <3> QED BY <3>1, <3>2
  <2>4. CASE u.kind # "scalar"
    <3>1. /\ g.kind = u.kind /\ g.ref = u.ref /\ g.n = 0
          /\ DOMAIN g.subs = DOMAIN u.subs /\ Len(g.subs) = Len(u.subs)
          /\ \A j \in DOMAIN u.subs : g.subs[j] = TermOf[u.subs[j]][<< >>] /\ g.subs[j] \in AllTerms
      BY <1>1, <2>2, <2>4, TermOfFields DEF FirstOf
    <3>2. g \in AllTerms
      BY <1>1
    <3> HIDE DEF g
    <3>3. ASSUME NEW j \in DOMAIN u.subs PROVE Meaning[g.subs[j]][FALSE] = make_type[u.subs[j]]
      BY <1>1, <2>1, <3>1
    <3>4. meant = made
      BY <3>1, <3>3
    <3> HIDE DEF made
    <3>5. make_type[u] = ContainerType(u.kind, FALSE, SizeMade(u), made)
      BY <2>4, MadeOf DEF made
    <3>6. Meaning[g][FALSE] = ContainerType(g.kind, FALSE \/ g.ref, g.n,
                                            [j \in DOMAIN g.subs |-> Meaning[g.subs[j]][FALSE \/ g.ref]])
      BY <2>4, <3>1, <3>2, MeaningOf
    <3>7. (FALSE \/ g.ref) = FALSE
      BY <2>1, <3>1
    <3>8. Meaning[g][FALSE] = ContainerType(u.kind, FALSE, 0, meant)
      BY <3>1, <3>6, <3>7
    <3>9. SizeMade(u) = 0
      <4>1. g.kind # "range"
        BY <3>1, <3>2, TermFields
      <4>2. u.kind = "tuple" => Len(u.subs) = 0
        BY <3>1, <3>2, TermFields
      <4> QED BY <3>1, <4>1, <4>2 DEF SizeMade
    <3> HIDE DEF meant
    <3> QED BY <3>4, <3>5, <3>8, <3>9 DEF g
  <2> QED BY <2>3, <2>4
<1>2. AllTerms \subseteq S
  <2>1. ASSUME NEW u \in AllTerms, \A j \in DOMAIN u.subs : u.subs[j] \in S PROVE u \in S
    BY <1>1, <2>1
  <2> HIDE DEF S
  <2> QED BY <2>1, TermInduction
<1> QED BY <1>2

-----------------------------------------------------------------------------
\* make_value goes through the elements of a container one after the other: the partial
\* results.
MadeUpTo(upTo, elems, t, path) ==
    upTo = [j \in 0..Len(elems) |->
              IF j = 0 THEN [subs |-> << >>, subtype |-> t.subtype, blocks |-> {<< >>}]
              ELSE LET before == upTo[j - 1]
                       k == Index(t, j)
                       one == make_value[elems[j]][before.subtype[k]][Append(path, j)]
                   IN  [subs |-> Append(before.subs, one.value),
                        subtype |-> [before.subtype EXCEPT ![k] = one.dtype],
                        blocks |-> before.blocks \cup Inside(j, one.blocks)]]

\* Among allowed lists of subtypes an element leads to an allowed one.
Leads(allowed, elems, t) ==
    \A j \in 1..Len(elems) : \A subtype \in allowed : \A path \in Seq(Nat) :
        [subtype EXCEPT ![Index(t, j)] = make_value[elems[j]][subtype[Index(t, j)]][path].dtype] \in allowed

LEMMA MadeSteps ==
    ASSUME NEW elems \in Elements, NEW t, NEW allowed, t.subtype \in allowed,
           Leads(allowed, elems, t), NEW path \in Seq(Nat)
    PROVE  \E upTo : MadeUpTo(upTo, elems, t, path)
<1> DEFINE n == Len(elems)
           One(j, subtype) == make_value[elems[j]][subtype[Index(t, j)]][Append(path, j)]
           Value1(j, subtype) == One(j, subtype).value
           Blocks1(j, subtype) == Inside(j, One(j, subtype).blocks)
           V == {Value1(j, subtype) : j \in 1..n, subtype \in allowed}
           B == {<< >>} \cup UNION {Blocks1(j, subtype) : j \in 1..n, subtype \in allowed}
           D == [subs : Seq(V), subtype : allowed, blocks : SUBSET B]
           first == [subs |-> << >>, subtype |-> t.subtype, blocks |-> {<< >>}]
           More(j, before, one) ==
               [subs |-> Append(before.subs, one.value),
                subtype |-> [before.subtype EXCEPT ![Index(t, j)] = one.dtype],
                blocks |-> before.blocks \cup Inside(j, one.blocks)]
           Then(j, before) == More(j, before, One(j, before.subtype))
           then == [j \in 1..n |-> [before \in D |-> Then(j, before)]]
<1>1. n \in Nat
  BY ElementsParts
<1>2. first \in D
  <2> HIDE DEF V
  <2> QED OBVIOUS
<1>3. ASSUME NEW j \in 1..n, NEW before \in D PROVE Then(j, before) \in D
  <2>1. before.subs \in Seq(V) /\ before.subtype \in allowed /\ before.blocks \subseteq B
    <3> HIDE DEF V, B
    <3> QED OBVIOUS
  <2> DEFINE one == Value1(j, before.subtype)
             places == Blocks1(j, before.subtype)
             subtype == [before.subtype EXCEPT ![Index(t, j)] = One(j, before.subtype).dtype]
  <2>2. one \in V /\ places \subseteq B
    <3> HIDE DEF Value1, Blocks1
    <3> QED BY <2>1
  <2>3. subtype \in allowed
    <3> DEFINE place == Append(path, j)
               left == before.subtype
               lead == [left EXCEPT ![Index(t, j)] = make_value[elems[j]][left[Index(t, j)]][place].dtype]
    <3>1. place \in Seq(Nat) /\ j \in 1..Len(elems) /\ left \in allowed
      <4>1. j \in Nat
        BY <1>1
      <4> HIDE DEF D, V, B
      <4> QED BY <2>1, <4>1
    <3>2. lead = subtype
      OBVIOUS
    <3> HIDE DEF place, left, subtype, D, V, B, n
    <3> QED BY <3>1, <3>2 DEF Leads
  <2>4. Then(j, before) = [subs |-> Append(before.subs, one), subtype |-> subtype,
                           blocks |-> before.blocks \cup places]
    OBVIOUS
  <2> HIDE DEF V, B, one, places, subtype, Then
  <2>5. Append(before.subs, one) \in Seq(V)
    BY <2>1, <2>2
  <2>6. before.blocks \cup places \in SUBSET B
    BY <2>1, <2>2
  <2> QED BY <2>3, <2>4, <2>5, <2>6
<1>4. then \in Steps(n, D)
  <2> HIDE DEF n, D, Then
  <2> QED BY <1>3 DEF Steps
<1>5. \E f \in [0..n -> D] : Iterates(f, n, first, then)
  <2> HIDE DEF n, D, first, then
  <2> QED BY <1>1, <1>2, <1>4, Iteration
<1>6. PICK f \in [0..n -> D] : Iterates(f, n, first, then)
  <2> HIDE DEF n, D, first, then
  <2> QED BY <1>5
<1>7. ASSUME NEW i \in 0..n PROVE f[i] = IF i = 0 THEN first ELSE Then(i, f[i - 1])
  <2>1. CASE i = 0
    <3> HIDE DEF D, then, first, Then
    <3> QED BY <2>1, <1>6 DEF Iterates
  <2>2. CASE i # 0
    <3>1. i \in 1..n /\ i - 1 \in 0..n
      BY <1>1, <2>2
    <3>2. f[i] = then[i][f[i - 1]] /\ f[i - 1] \in D
      <4> HIDE DEF n, then, D, first
      <4> QED BY <1>6, <3>1 DEF Iterates
    <3>3. then[i][f[i - 1]] = Then(i, f[i - 1])
      <4> HIDE DEF n, D, Then
      <4> QED BY <3>1, <3>2
    <3> HIDE DEF then, Then, first, D
    <3> QED BY <2>2, <3>2, <3>3
  <2> HIDE DEF then, Then, first, D
  <2> QED BY <2>1, <2>2
<1>8. f = [i \in 0..n |-> IF i = 0 THEN first ELSE Then(i, f[i - 1])]
  <2>1. f = [i \in 0..n |-> f[i]]
    OBVIOUS
  <2> HIDE DEF n, then, Then, first, D
  <2> QED BY <1>7, <2>1
<1>9. MadeUpTo(f, elems, t, path)
  <2> HIDE DEF D, V, B, then
  <2> QED BY <1>8 DEF MadeUpTo
<1> QED BY <1>9

\* What make_value does with a container, in the same form as the code.
MadeUpToFrom(upTo, elems, t, values, path) ==
    upTo = [j \in 0..Len(elems) |->
              IF j = 0 THEN [subs |-> << >>, subtype |-> t.subtype, blocks |-> {<< >>}]
              ELSE LET before == upTo[j - 1]
                       k == Index(t, j)
                       one == values[j][before.subtype[k]][Append(path, j)]
                   IN  [subs |-> Append(before.subs, one.value),
                        subtype |-> [before.subtype EXCEPT ![k] = one.dtype],
                        blocks |-> before.blocks \cup Inside(j, one.blocks)]]

LEMMA MadeOfParts ==
    ASSUME NEW elems \in Elements, NEW t, NEW path, NEW upTo
    PROVE  MadeUpTo(upTo, elems, t, path)
               <=> MadeUpToFrom(upTo, elems, t, [j \in DOMAIN elems |-> make_value[elems[j]]], path)
<1> DEFINE values == [j \in DOMAIN elems |-> make_value[elems[j]]]
           n == Len(elems)
           first == [subs |-> << >>, subtype |-> t.subtype, blocks |-> {<< >>}]
           More(j, before, one) ==
               [subs |-> Append(before.subs, one.value),
                subtype |-> [before.subtype EXCEPT ![Index(t, j)] = one.dtype],
                blocks |-> before.blocks \cup Inside(j, one.blocks)]
           A(j) == IF j = 0 THEN first
                   ELSE More(j, upTo[j - 1],
                             make_value[elems[j]][upTo[j - 1].subtype[Index(t, j)]][Append(path, j)])
           B(j) == IF j = 0 THEN first
                   ELSE More(j, upTo[j - 1],
                             values[j][upTo[j - 1].subtype[Index(t, j)]][Append(path, j)])
<1>1. n \in Nat /\ DOMAIN elems = 1..n
  BY ElementsParts
<1>2. ASSUME NEW j \in 1..n PROVE values[j] = make_value[elems[j]]
  BY <1>1
<1>3. ASSUME NEW j \in 0..n PROVE A(j) = B(j)
  <2> HIDE DEF values, More, first
  <2>1. j # 0 => j \in 1..n
    BY <1>1
  <2> QED BY <1>2, <2>1
<1>4. MadeUpTo(upTo, elems, t, path) <=> upTo = [j \in 0..n |-> A(j)]
  <2> HIDE DEF values
  <2> QED BY DEF MadeUpTo
<1>5. MadeUpToFrom(upTo, elems, t, values, path) <=> upTo = [j \in 0..n |-> B(j)]
  <2> HIDE DEF values
  <2> QED BY DEF MadeUpToFrom
<1>6. [j \in 0..n |-> A(j)] = [j \in 0..n |-> B(j)]
  <2> HIDE DEF A, B
  <2> QED BY <1>3
<1> HIDE DEF A, B
<1> QED BY <1>4, <1>5, <1>6

LEMMA ValueOfContainer ==
    ASSUME NEW elems \in Elements, NEW t \in Datatypes, t.dtype \in ContainerTypes,
           NEW allowed, t.subtype \in allowed, Leads(allowed, elems, t), NEW path \in Seq(Nat)
    PROVE  \E upTo : /\ MadeUpTo(upTo, elems, t, path)
                     /\ make_value[elems][t][path]
                            = Made(Array(upTo[Len(elems)].subs),
                                   [t EXCEPT !.subtype = upTo[Len(elems)].subtype,
                                             !.num_elements = SizeOf(t, elems)],
                                   upTo[Len(elems)].blocks)
<1> DEFINE values == [j \in DOMAIN elems |-> make_value[elems[j]]]
           n == Len(elems)
           Whole(upTo) == Made(Array(upTo[n].subs),
                               [t EXCEPT !.subtype = upTo[n].subtype, !.num_elements = SizeOf(t, elems)],
                               upTo[n].blocks)
<1>1. PICK f : MadeUpTo(f, elems, t, path)
  BY MadeSteps
<1>2. MadeUpToFrom(f, elems, t, values, path)
  BY <1>1, MadeOfParts
<1>3. make_value[elems] = ValueFrom(elems, values)
  BY ValueParts
<1> HIDE DEF values
<1>4. \E upTo : MadeUpToFrom(upTo, elems, t, values, path) /\ ValueFrom(elems, values)[t][path] = Whole(upTo)
  BY <1>2 DEF ValueFrom, MadeUpToFrom
<1>5. PICK upTo : MadeUpToFrom(upTo, elems, t, values, path) /\ ValueFrom(elems, values)[t][path] = Whole(upTo)
  BY <1>4
<1>6. MadeUpTo(upTo, elems, t, path)
  BY <1>5, MadeOfParts DEF values
<1> HIDE DEF Whole
<1>7. make_value[elems][t][path] = Whole(upTo)
  BY <1>3, <1>5
<1> QED BY <1>6, <1>7 DEF Whole

-----------------------------------------------------------------------------
\* The places in one element more.
LEMMA UnionGrows ==
    ASSUME NEW f, NEW i \in Nat \ {0}
    PROVE  UNION {f[j] : j \in 1..i} = (UNION {f[j] : j \in 1..(i - 1)}) \cup f[i]
<1>1. ASSUME NEW x, x \in UNION {f[j] : j \in 1..i}
      PROVE  x \in (UNION {f[j] : j \in 1..(i - 1)}) \cup f[i]
  <2>1. PICK j \in 1..i : x \in f[j]
    BY <1>1
  <2>2. CASE j = i
    BY <2>1, <2>2
  <2>3. CASE j # i
    <3>1. j \in 1..(i - 1)
      BY <2>3
    <3> QED BY <2>1, <3>1
  <2> QED BY <2>2, <2>3
<1>2. ASSUME NEW x, x \in (UNION {f[j] : j \in 1..(i - 1)}) \cup f[i]
      PROVE  x \in UNION {f[j] : j \in 1..i}
  <2>1. CASE x \in f[i]
    <3>1. i \in 1..i
      OBVIOUS
    <3> QED BY <2>1, <3>1
  <2>2. CASE x \in UNION {f[j] : j \in 1..(i - 1)}
    <3>1. PICK j \in 1..(i - 1) : x \in f[j]
      BY <2>2
    <3>2. j \in 1..i
      OBVIOUS
    <3> QED BY <3>1, <3>2
  <2> QED BY <1>2, <2>1, <2>2
<1> QED BY <1>1, <1>2

\* The blocks that are freed with a container are those of its elements, and its array.
LEMMA FreedOfContainer ==
    ASSUME NEW u \in Datatypes, u.dtype \in ContainerTypes, ~u.is_reference
    PROVE  free_adiak_value_worker[u]
               = {<< >>} \cup UNION {Inside(j, free_adiak_value_worker[Element(u, j)]) : j \in 1..u.num_elements}
<1> DEFINE freed == [i \in DOMAIN u.subtype |-> free_adiak_value_worker[u.subtype[i]]]
           n == u.num_elements
<1>1. n \in Nat /\ u.num_ref_elements \in Nat
  BY DatatypeFields
<1>2. ASSUME NEW j \in 1..n PROVE freed[Index(u, j)] = free_adiak_value_worker[Element(u, j)]
  <2>1. j \in 1..Count(u)
    BY <1>1 DEF Count
  <2>2. Index(u, j) \in DOMAIN u.subtype
    BY <2>1, ElementSubtype
  <2> QED BY <2>2 DEF Element
<1>3. free_adiak_value_worker[u] = FreedFrom(u, freed)
  BY FreedParts
<1> HIDE DEF freed
<1>4. FreedFrom(u, freed) = {<< >>} \cup UNION {Inside(j, freed[Index(u, j)]) : j \in 1..n}
  <2>1. u.dtype \notin PointerTypes
    BY DEF ContainerTypes, PointerTypes, StringTypes
  <2> QED BY <2>1 DEF FreedFrom
<1> QED BY <1>2, <1>3, <1>4

\* The value that a record keeps for the data at a path of the object now.
KeptAs(v, meant, path) == \A data \in AllData : data.path = path /\ Now(data) => v = Kept[meant][data]

\* What make_value leaves: the datatype meant, the blocks that will be freed by it, an
\* array of all elements, and the value that adiak_namevalue keeps of the same data.
AsMeant(made, meant, path) ==
    /\ made.dtype = meant
    /\ made.blocks = free_adiak_value_worker[meant]
    /\ Len(made.value.subs) = meant.num_elements
    /\ KeptAs(made.value, meant, path)

\* Every element makes the subtype meant, whether make_value finds that or the one made.
ElementsAsMeant(elems, t, made, meant) ==
    /\ \A k \in DOMAIN t.subtype : t.subtype[k] \in {made[k], meant[k]}
    /\ \A j \in 1..Len(elems) : Index(t, j) \in DOMAIN t.subtype
    /\ \A j \in 1..Len(elems) : \A subtype \in {made[Index(t, j)], meant[Index(t, j)]} :
           \A place \in Seq(Nat) : AsMeant(make_value[elems[j]][subtype][place], meant[Index(t, j)], place)

\* What is left of all elements together.
MadeOfAll(all, elems, t, made, meant, path) ==
    /\ Len(all.subs) = Len(elems)
    /\ \E V : all.subs \in Seq(V)
    /\ \A j \in 1..Len(elems) : KeptAs(all.subs[j], meant[Index(t, j)], Append(path, j))
    /\ all.blocks = {<< >>} \cup
          UNION {Inside(j, free_adiak_value_worker[meant[Index(t, j)]]) : j \in 1..Len(elems)}
    /\ all.subtype = [k \in DOMAIN t.subtype |-> all.subtype[k]]
    /\ \A k \in DOMAIN t.subtype : all.subtype[k] \in {made[k], meant[k]}
    /\ Len(elems) = 0 => all.subtype = t.subtype
    /\ \A j \in 1..Len(elems) : all.subtype[Index(t, j)] = meant[Index(t, j)]

\* The elements are made one after the other, and each overwrites the subtype that the
\* next one finds.
LEMMA MadeElements ==
    ASSUME NEW elems \in Elements, NEW t \in Datatypes, t.dtype \in ContainerTypes,
           NEW made, NEW meant, ElementsAsMeant(elems, t, made, meant), NEW path \in Seq(Nat)
    PROVE  \E all :
              /\ make_value[elems][t][path]
                     = Made(Array(all.subs),
                            [t EXCEPT !.subtype = all.subtype, !.num_elements = SizeOf(t, elems)],
                            all.blocks)
              /\ MadeOfAll(all, elems, t, made, meant, path)
<1>0. /\ \A k \in DOMAIN t.subtype : t.subtype[k] \in {made[k], meant[k]}
      /\ \A j \in 1..Len(elems) : Index(t, j) \in DOMAIN t.subtype
      /\ \A j \in 1..Len(elems) : \A subtype \in {made[Index(t, j)], meant[Index(t, j)]} :
             \A place \in Seq(Nat) :
                 AsMeant(make_value[elems[j]][subtype][place], meant[Index(t, j)], place)
  BY DEF ElementsAsMeant
<1> DEFINE n == Len(elems)
           K == DOMAIN t.subtype
           X == {made[k] : k \in K} \cup {meant[k] : k \in K}
           allowed == {s \in [K -> X] : \A k \in K : s[k] \in {made[k], meant[k]}}
<1>1. n \in Nat
  BY ElementsParts
<1>2. t.subtype \in allowed
  <2>1. t.subtype = [k \in K |-> t.subtype[k]]
    BY DatatypeFields
  <2>2. \A k \in K : t.subtype[k] \in X
    BY <1>0
  <2> HIDE DEF K, X
  <2>3. t.subtype \in [K -> X]
    BY <2>1, <2>2
  <2> QED BY <1>0, <2>3 DEF K
<1>3. ASSUME NEW s \in allowed, NEW k \in K
      PROVE  [s EXCEPT ![k] = meant[k]] \in allowed
  <2>1. meant[k] \in X
    OBVIOUS
  <2> HIDE DEF K, X
  <2>2. [s EXCEPT ![k] = meant[k]] \in [K -> X]
    BY <2>1
  <2> QED BY <2>2
<1>4. Leads(allowed, elems, t)
  <2> SUFFICES ASSUME NEW j \in 1..Len(elems), NEW s \in allowed, NEW place \in Seq(Nat)
               PROVE  [s EXCEPT ![Index(t, j)] = make_value[elems[j]][s[Index(t, j)]][place].dtype] \in allowed
    BY DEF Leads
  <2> DEFINE k == Index(t, j)
  <2>1. k \in K /\ s[k] \in {made[k], meant[k]}
    BY <1>0
  <2>2. AsMeant(make_value[elems[j]][s[k]][place], meant[k], place)
    BY <1>0, <2>1
  <2>3. make_value[elems[j]][s[k]][place].dtype = meant[k]
    BY <2>2 DEF AsMeant
  <2> HIDE DEF allowed, K, k
  <2> QED BY <1>3, <2>1, <2>3 DEF k
<1>5. PICK upTo : /\ MadeUpTo(upTo, elems, t, path)
                  /\ make_value[elems][t][path]
                         = Made(Array(upTo[n].subs),
                                [t EXCEPT !.subtype = upTo[n].subtype,
                                          !.num_elements = SizeOf(t, elems)],
                                upTo[n].blocks)
  <2> HIDE DEF allowed
  <2> QED BY <1>2, <1>4, ValueOfContainer
<1> DEFINE freed == [j \in 1..n |-> Inside(j, free_adiak_value_worker[meant[Index(t, j)]])]
           Good(i) == /\ Len(upTo[i].subs) = i
                      /\ \E V : upTo[i].subs \in Seq(V)
                      /\ upTo[i].subtype \in allowed
                      /\ i = 0 => upTo[i].subtype = t.subtype
                      /\ \A j \in 1..i : KeptAs(upTo[i].subs[j], meant[Index(t, j)], Append(path, j))
                      /\ \A j \in 1..i : upTo[i].subtype[Index(t, j)] = meant[Index(t, j)]
                      /\ upTo[i].blocks = {<< >>} \cup UNION {freed[j] : j \in 1..i}
           S == {i \in 0..n : Good(i)}
<1>6. Good(0)
  <2>1. upTo[0] = [subs |-> << >>, subtype |-> t.subtype, blocks |-> {<< >>}]
    <3>1. 0 \in 0..Len(elems)
      BY <1>1
    <3>2. MadeUpTo(upTo, elems, t, path)
      BY <1>5
    <3> HIDE DEF freed, allowed, n
    <3> QED BY <3>1, <3>2 DEF MadeUpTo
  <2>2. UNION {freed[j] : j \in 1..0} = {} /\ \A j \in 1..0 : FALSE
    OBVIOUS
  <2>3. << >> \in Seq({}) /\ Len(<< >>) = 0
    OBVIOUS
  <2> HIDE DEF freed, allowed
  <2> QED BY <1>2, <2>1, <2>2, <2>3
<1>7. ASSUME NEW i \in 1..n, Good(i - 1) PROVE Good(i)
  <2>1. i \in 0..n /\ i # 0 /\ i \in Nat \ {0} /\ i \in 1..Len(elems)
    BY <1>1
  <2> DEFINE before == upTo[i - 1]
             k == Index(t, i)
             place == Append(path, i)
             one == make_value[elems[i]][before.subtype[k]][place]
  <2>2. upTo[i] = [subs |-> Append(before.subs, one.value),
                   subtype |-> [before.subtype EXCEPT ![k] = one.dtype],
                   blocks |-> before.blocks \cup Inside(i, one.blocks)]
    BY <1>5, <2>1 DEF MadeUpTo
  <2>3. /\ Len(before.subs) = i - 1 /\ before.subtype \in allowed
        /\ \A j \in 1..(i - 1) : before.subtype[Index(t, j)] = meant[Index(t, j)]
        /\ \A j \in 1..(i - 1) : KeptAs(before.subs[j], meant[Index(t, j)], Append(path, j))
        /\ before.blocks = {<< >>} \cup UNION {freed[j] : j \in 1..(i - 1)}
    <3> HIDE DEF allowed, freed
    <3> QED BY <1>7
  <2>4. PICK V : before.subs \in Seq(V)
    <3> HIDE DEF allowed, freed
    <3> QED BY <1>7
  <2>5. k \in K /\ before.subtype[k] \in {made[k], meant[k]} /\ place \in Seq(Nat)
    <3>1. k \in K
      BY <1>0, <2>1
    <3>2. place \in Seq(Nat)
      BY <2>1
    <3> HIDE DEF K, X, before, place, k
    <3> QED BY <2>3, <3>1, <3>2
  <2>6. AsMeant(one, meant[k], place)
    <3> HIDE DEF place, before
    <3> QED BY <1>0, <2>1, <2>5
  <2>7. /\ one.dtype = meant[k] /\ Inside(i, one.blocks) = freed[i]
        /\ KeptAs(one.value, meant[k], place)
    <3> HIDE DEF one, place
    <3> QED BY <2>6 DEF AsMeant
  <2> HIDE DEF one, before
  <2>8. Append(before.subs, one.value) \in Seq(V \cup {one.value})
        /\ Len(Append(before.subs, one.value)) = i
    BY <2>1, <2>3, <2>4
  <2>9. [before.subtype EXCEPT ![k] = one.dtype] \in allowed
    <3> HIDE DEF allowed, K, k
    <3> QED BY <1>3, <2>3, <2>5, <2>7
  <2>10. ASSUME NEW j \in 1..i
         PROVE  [before.subtype EXCEPT ![k] = one.dtype][Index(t, j)] = meant[Index(t, j)]
    <3>1. Index(t, j) \in K /\ DOMAIN before.subtype = K
      <4>1. j \in 1..n
        BY <1>1
      <4>2. Index(t, j) \in K
        BY <1>0, <4>1
      <4> HIDE DEF K, X
      <4> QED BY <2>3, <4>2
    <3>2. CASE Index(t, j) = k
      <4> HIDE DEF K, X, k, allowed
      <4> QED BY <2>7, <3>1, <3>2
    <3>3. CASE Index(t, j) # k
      <4>1. j # i
        BY <3>3
      <4>2. j \in 1..(i - 1)
        BY <2>1, <4>1
      <4>3. before.subtype[Index(t, j)] = meant[Index(t, j)]
        BY <2>3, <4>2
      <4> HIDE DEF K, X, k, allowed
      <4> QED BY <3>1, <3>3, <4>3
    <3> QED BY <3>2, <3>3
  <2>11. before.blocks \cup Inside(i, one.blocks) = {<< >>} \cup UNION {freed[j] : j \in 1..i}
    <3>1. UNION {freed[j] : j \in 1..i} = (UNION {freed[j] : j \in 1..(i - 1)}) \cup freed[i]
      <4> HIDE DEF freed
      <4> QED BY <2>1, UnionGrows
    <3> HIDE DEF freed
    <3> QED BY <2>3, <2>7, <3>1
  <2>12. ASSUME NEW j \in 1..i
         PROVE  KeptAs(Append(before.subs, one.value)[j], meant[Index(t, j)], Append(path, j))
    <3>1. CASE j = i
      <4>1. Append(before.subs, one.value)[j] = one.value
        BY <2>1, <2>3, <2>4, <3>1
      <4> QED BY <2>7, <3>1, <4>1
    <3>2. CASE j # i
      <4>1. j \in 1..(i - 1)
        BY <2>1, <3>2
      <4>2. Append(before.subs, one.value)[j] = before.subs[j]
        BY <2>1, <2>3, <2>4, <4>1
      <4>3. KeptAs(before.subs[j], meant[Index(t, j)], Append(path, j))
        <5> HIDE DEF allowed, freed
        <5> QED BY <2>3, <4>1
      <4> QED BY <4>2, <4>3
    <3> QED BY <3>1, <3>2
  <2> HIDE DEF freed, allowed, k
  <2> QED BY <2>1, <2>2, <2>8, <2>9, <2>10, <2>11, <2>12
<1>8. \A i \in 0..n : i \in S
  <2>1. S \subseteq 0..n /\ 0 \in 0..n
    BY <1>1
  <2>2. \A i \in 1..n : i - 1 \in S => i \in S
    <3> HIDE DEF Good
    <3> QED BY <1>1, <1>7
  <2>3. 0 \in S
    <3> HIDE DEF Good
    <3> QED BY <1>6, <2>1
  <2> HIDE DEF S, n
  <2> QED BY <1>1, <2>1, <2>2, <2>3, Induction
<1>9. Good(n)
  <2>1. n \in 0..n
    BY <1>1
  <2> HIDE DEF Good
  <2> QED BY <1>8, <2>1
<1> DEFINE all == upTo[n]
<1>10. /\ Len(all.subs) = n /\ all.subtype \in allowed
       /\ n = 0 => all.subtype = t.subtype
       /\ \A j \in 1..n : all.subtype[Index(t, j)] = meant[Index(t, j)]
       /\ all.blocks = {<< >>} \cup UNION {freed[j] : j \in 1..n}
       /\ \E V : all.subs \in Seq(V)
       /\ \A j \in 1..n : KeptAs(all.subs[j], meant[Index(t, j)], Append(path, j))
  <2> HIDE DEF freed, allowed
  <2> QED BY <1>9
<1>11. UNION {freed[j] : j \in 1..n} = UNION {Inside(j, free_adiak_value_worker[meant[Index(t, j)]]) : j \in 1..n}
  OBVIOUS
<1>12. all.subtype = [k \in K |-> all.subtype[k]] /\ \A k \in K : all.subtype[k] \in {made[k], meant[k]}
  <2> HIDE DEF K, X, all
  <2> QED BY <1>10
<1> HIDE DEF freed, allowed, K, all
<1>13. MadeOfAll(all, elems, t, made, meant, path)
  BY <1>10, <1>11, <1>12 DEF MadeOfAll, K
<1> QED BY <1>5, <1>13 DEF all

\* What an object that is a container makes, if its elements make what they mean.
LEMMA RectangularFields ==
    ASSUME NEW type \in AllTerms, NEW elems \in Elements, type.kind # "scalar",
           Rectangular[type][elems], \A j \in DOMAIN elems : PartOf(type, j) \in DOMAIN type.subs
    PROVE  \A j \in DOMAIN elems :
              /\ Rectangular[type.subs[PartOf(type, j)]][elems[j]]
              /\ type.kind # "tuple" => TermOf[type.subs[1]][elems[j]] = TermOf[type.subs[1]][elems[1]]
<1> DEFINE rectangular == [j \in DOMAIN type.subs |-> Rectangular[type.subs[j]]]
<1>1. Rectangular[type] = RectangularFrom(type, rectangular)
  BY RectangularParts
<1>2. \A j \in DOMAIN elems : rectangular[PartOf(type, j)] = Rectangular[type.subs[PartOf(type, j)]]
  OBVIOUS
<1> HIDE DEF rectangular
<1>3. \A j \in DOMAIN elems :
         /\ rectangular[PartOf(type, j)][elems[j]]
         /\ type.kind # "tuple" => TermOf[type.subs[1]][elems[j]] = TermOf[type.subs[1]][elems[1]]
  BY <1>1 DEF RectangularFrom
<1> QED BY <1>2, <1>3

\* The datatypes that make_value may find for an object.
MayFind(type, g) == {make_type[type], Meaning[g][FALSE]}

\* make_value leaves the datatype that the term of the object means.
MakesMeaning(type, elems) ==
    \A t \in MayFind(type, TermOf[type][elems]) : \A path \in Seq(Nat) :
        AsMeant(make_value[elems][t][path], Meaning[TermOf[type][elems]][FALSE], path)

LEMMA LeafMade ==
    ASSUME NEW elems \in Elements, NEW t \in Datatypes, t.dtype \notin ContainerTypes,
           NEW path \in Seq(Nat)
    PROVE  make_value[elems][t][path]
               = Made(NewLeaf(t, path), t, IF t.dtype \in PointerTypes THEN {<< >>} ELSE {})
<1> DEFINE values == [j \in DOMAIN elems |-> make_value[elems[j]]]
           leaf == Made(NewLeaf(t, path), t, IF t.dtype \in PointerTypes THEN {<< >>} ELSE {})
<1>1. make_value[elems] = ValueFrom(elems, values)
  BY ValueParts
<1> HIDE DEF values
<1>2. ValueFrom(elems, values)[t][path] = leaf
  BY DEF ValueFrom
<1> QED BY <1>1, <1>2

LEMMA ScalarMakesMeaning ==
    ASSUME NEW type \in AllTerms, Static[type], type.kind = "scalar", NEW elems \in Elements
    PROVE  MakesMeaning(type, elems)
<1> DEFINE spec == Widened(type.spec)
           t == base_ref(spec, FALSE)
<1>1. TermOf[type][elems] = Promoted(type) /\ make_type[type] = t
  BY TermOfObject, MadeOf
<1>2. Meaning[Promoted(type)][FALSE] = t
  BY StaticFields, PromotedMeaning
<1>3. t \in Datatypes
  BY <1>1, MadeType
<1>4. /\ t.dtype \in NumberTypes \cup PointerTypes \cup ContainerTypes
      /\ t.num_elements \in Nat /\ t.num_ref_elements \in Nat
      /\ t.dtype \notin ContainerTypes => t.num_elements = 0
  <2> HIDE DEF t
  <2> QED BY <1>3, DatatypeFields DEF Count
<1>5. t.dtype \notin ContainerTypes /\ t.is_reference = FALSE
  <2>1. spec \in Specifiers
    BY TermFields, WidenedSpec
  <2> HIDE DEF spec
  <2> DEFINE name == base[spec].dtype
             bytes == base[spec].num_bytes
  <2>2. base[spec] = BaseType(name, bytes) /\ name \in NumberTypes \cup PointerTypes
    BY <2>1, BaseFields
  <2> HIDE DEF name, bytes
  <2>3. t = Type(name, bytes, FALSE /\ name \in StringTypes, 0, 0, << >>)
    BY <2>2 DEF base_ref, BaseType, Type
  <2>4. (FALSE /\ name \in StringTypes) = FALSE
    OBVIOUS
  <2> HIDE DEF t
  <2>5. t.dtype = name /\ t.is_reference = FALSE
    BY <2>3, <2>4 DEF Type
  <2> QED BY <2>2, <2>5 DEF NumberTypes, PointerTypes, StringTypes, ContainerTypes
<1> HIDE DEF t
<1>6. free_adiak_value_worker[t] = IF t.dtype \in PointerTypes THEN {<< >>} ELSE {}
  <2> DEFINE freed == [i \in DOMAIN t.subtype |-> free_adiak_value_worker[t.subtype[i]]]
  <2>1. free_adiak_value_worker[t] = FreedFrom(t, freed)
    BY <1>3, FreedParts
  <2> HIDE DEF freed
  <2>2. CASE t.dtype \in PointerTypes
    BY <1>5, <2>1, <2>2 DEF FreedFrom
  <2>3. CASE t.dtype \notin PointerTypes
    BY <1>5, <2>1, <2>3 DEF FreedFrom
  <2> QED BY <2>2, <2>3
<1>7. ASSUME NEW path \in Seq(Nat) PROVE AsMeant(make_value[elems][t][path], t, path)
  <2>2. make_value[elems][t][path] = Made(NewLeaf(t, path), t, IF t.dtype \in PointerTypes THEN {<< >>} ELSE {})
    BY <1>3, <1>5, LeafMade
  <2>3. NewLeaf(t, path).subs = << >>
    BY DEF NewLeaf, Value
  <2>4. \A x, y, z : Made(x, y, z).value = x /\ Made(x, y, z).dtype = y /\ Made(x, y, z).blocks = z
    BY DEF Made
  <2>5. KeptAs(NewLeaf(t, path), t, path)
    <3> SUFFICES ASSUME NEW data \in AllData, data.path = path, Now(data)
                 PROVE  NewLeaf(t, path) = Kept[t][data]
      BY DEF KeptAs
    <3>1. data.version = object /\ data.leads = targets
      BY DEF Now
    <3>2. CASE t.dtype \in PointerTypes
      <4>1. (~t.is_reference) = TRUE
        BY <1>5
      <4> QED BY <1>3, <3>1, <3>2, <4>1, KeptOf DEF NewLeaf
    <3>3. CASE t.dtype \notin PointerTypes
      BY <1>3, <1>5, <3>1, <3>3, KeptOf DEF NewLeaf
    <3> QED BY <3>2, <3>3
  <2> HIDE DEF t
  <2> QED BY <1>4, <1>5, <1>6, <2>2, <2>3, <2>4, <2>5 DEF AsMeant
<1> QED BY <1>1, <1>2, <1>7 DEF MakesMeaning, MayFind

\* A datatype with other subtypes and another size, as make_value assigns them.
Resized(t, subtype, size) == [t EXCEPT !.subtype = subtype, !.num_elements = size]

LEMMA ResizedType ==
    ASSUME NEW name, NEW bytes, NEW ref, NEW n, NEW refs, NEW subtype, NEW meant, NEW size
    PROVE  Resized(Type(name, bytes, ref, n, refs, subtype), meant, size)
               = Type(name, bytes, ref, size, refs, meant)
<1> DEFINE t == Type(name, bytes, ref, n, refs, subtype)
           u == [t EXCEPT !.subtype = meant, !.num_elements = size]
           fields == {"dtype", "num_bytes", "is_reference", "num_elements", "num_ref_elements", "subtype"}
<1>1. DOMAIN t = fields /\ DOMAIN u = fields
  BY DEF Type
<1>2. /\ u.dtype = name /\ u.num_bytes = bytes /\ u.is_reference = ref
      /\ u.num_elements = size /\ u.num_ref_elements = refs /\ u.subtype = meant
  BY DEF Type
<1>3. u = [field \in fields |-> u[field]]
  BY <1>1
<1> HIDE DEF u
<1>4. u = Type(name, bytes, ref, size, refs, meant)
  BY <1>2, <1>3 DEF Type
<1> QED BY <1>4 DEF u, Resized

CopyType(kind, size, subtype) == ContainerType(kind, FALSE, size, subtype)

LEMMA ResizedContainer ==
    ASSUME NEW kind, NEW n, NEW subtype, NEW meant, NEW size
    PROVE  Resized(CopyType(kind, n, subtype), meant, size) = CopyType(kind, size, meant)
<1> DEFINE ref == FALSE
<1> HIDE DEF ref
<1>1. Resized(Type(kind, 0, ref, n, 0, subtype), meant, size) = Type(kind, 0, ref, size, 0, meant)
  BY ResizedType
<1> QED BY <1>1 DEF ref, ContainerType, CopyType

\* The elements of such an object are such objects, of the types that its own has as parts.
LEMMA ElementTerms ==
    ASSUME NEW type \in AllTerms, type.kind # "scalar", NEW elems \in Elements,
           TermOf[type][elems] \in AllTerms, Rectangular[type][elems], NEW j \in 1..Len(elems)
    PROVE  /\ PartOf(type, j) \in DOMAIN type.subs /\ elems[j] \in Elements
           /\ TermOf[type.subs[PartOf(type, j)]][elems[j]] \in AllTerms
           /\ Rectangular[type.subs[PartOf(type, j)]][elems[j]]
           /\ TermOf[type][elems].subs[PartOf(type, j)] = TermOf[type.subs[PartOf(type, j)]][elems[j]]
<1> DEFINE g == TermOf[type][elems]
           K == DOMAIN type.subs
           n == Len(elems)
           k == PartOf(type, j)
           part == elems[j]
<1>1. /\ g.kind = type.kind /\ g.n = n /\ Len(g.subs) = Len(type.subs)
      /\ \A i \in K : g.subs[i] = TermOf[type.subs[i]][FirstOf(elems, i)] /\ g.subs[i] \in AllTerms
  BY TermOfFields
<1>2. g \in AllTerms /\ type.kind \in ContainerTypes /\ n \in Nat /\ DOMAIN elems = 1..n
      /\ \A i \in 1..n : elems[i] \in Elements
  BY TermFields, ElementsParts
<1> HIDE DEF g
<1>3. /\ K = 1..Len(type.subs) /\ Len(type.subs) \in Nat
      /\ type.kind = "tuple" => Len(type.subs) = n
      /\ type.kind # "tuple" => Len(type.subs) = 1
  <2>1. type.subs \in Seq(AllTerms)
    BY TermFields
  <2>2. g.kind = "tuple" => Len(g.subs) = g.n
    BY <1>2, TermFields
  <2>3. type.kind # "tuple" => Len(type.subs) = 1
    BY <1>2, TermFields DEF ContainerTypes
  <2> HIDE DEF n
  <2> QED BY <1>1, <2>1, <2>2, <2>3
<1>4. \A i \in 1..n : PartOf(type, i) \in K
  <2> HIDE DEF n, K
  <2>1. CASE type.kind = "tuple"
    BY <1>3, <2>1 DEF PartOf
  <2>2. CASE type.kind # "tuple"
    <3>1. Len(type.subs) = 1 /\ 1 \in 1..1
      BY <1>3, <2>2
    <3>2. 1 \in K
      BY <1>3, <3>1
    <3> QED BY <2>2, <3>2 DEF PartOf
  <2> QED BY <2>1, <2>2
<1>5. k \in K
  BY <1>4
<1>6. Rectangular[type.subs[k]][part]
      /\ (type.kind # "tuple" => TermOf[type.subs[1]][part] = TermOf[type.subs[1]][elems[1]])
  BY <1>2, <1>4, RectangularFields
<1>7. g.subs[k] = TermOf[type.subs[k]][part]
  <2>1. elems # << >>
    BY <1>2
  <2>2. g.subs[k] = TermOf[type.subs[k]][elems[k]]
    <3> HIDE DEF k, K
    <3> QED BY <1>1, <1>5, <2>1 DEF FirstOf
  <2>3. CASE type.kind = "tuple"
    BY <2>2, <2>3 DEF PartOf
  <2>4. CASE type.kind # "tuple"
    <3>1. k = 1
      BY <2>4 DEF PartOf
    <3> QED BY <1>6, <2>2, <2>4, <3>1
  <2> QED BY <2>3, <2>4
<1>8. TermOf[type.subs[k]][part] \in AllTerms
  <2> HIDE DEF k, K
  <2> QED BY <1>1, <1>5, <1>7
<1> QED BY <1>2, <1>5, <1>6, <1>7, <1>8 DEF g

LEMMA ContainerMakesMeaning ==
    ASSUME NEW type \in AllTerms, Static[type], type.kind # "scalar", NEW elems \in Elements,
           TermOf[type][elems] \in AllTerms, Rectangular[type][elems],
           \A k \in DOMAIN type.subs : \A part \in Elements :
               TermOf[type.subs[k]][part] \in AllTerms /\ Rectangular[type.subs[k]][part]
                   => MakesMeaning(type.subs[k], part)
    PROVE  MakesMeaning(type, elems)
<1> DEFINE g == TermOf[type][elems]
           K == DOMAIN type.subs
           n == Len(elems)
           made == [k \in K |-> make_type[type.subs[k]]]
           meant == [k \in K |-> Meaning[g.subs[k]][FALSE]]
           m == Meaning[g][FALSE]
<1>1. /\ g.kind = type.kind /\ g.ref = type.ref /\ g.n = n
      /\ DOMAIN g.subs = K /\ Len(g.subs) = Len(type.subs)
      /\ \A k \in K : g.subs[k] = TermOf[type.subs[k]][FirstOf(elems, k)] /\ g.subs[k] \in AllTerms
  BY TermOfFields
<1>2. g \in AllTerms /\ type.kind \in ContainerTypes /\ n \in Nat /\ DOMAIN elems = 1..n
      /\ \A j \in 1..n : elems[j] \in Elements
  BY TermFields, ElementsParts
<1> HIDE DEF g
<1>3. /\ K = 1..Len(type.subs) /\ Len(type.subs) \in Nat
      /\ type.kind = "tuple" => Len(type.subs) = n
      /\ type.kind # "tuple" => Len(type.subs) = 1
      /\ type.kind = "range" => n = 2
      /\ \A k \in K : type.subs[k] \in AllTerms
  <2>1. type.subs \in Seq(AllTerms)
    BY TermFields
  <2>2. g.kind = "tuple" => Len(g.subs) = g.n
    BY <1>2, TermFields
  <2>3. g.kind = "range" => g.n = 2
    BY <1>2, TermFields
  <2>4. type.kind # "tuple" => Len(type.subs) = 1
    BY <1>2, TermFields DEF ContainerTypes
  <2> HIDE DEF n
  <2> QED BY <1>1, <2>1, <2>2, <2>3, <2>4
<1>4. ~type.ref /\ \A k \in K : Static[type.subs[k]]
  BY StaticFields
\* The type made and the type meant differ in their sizes and subtypes.
<1>5. make_type[type] = ContainerType(type.kind, FALSE, SizeMade(type), made)
  BY MadeOf
<1>6. m = ContainerType(type.kind, FALSE, n, meant)
  <2>1. (FALSE \/ g.ref) = FALSE
    BY <1>1, <1>4
  <2>2. m = ContainerType(g.kind, FALSE \/ g.ref, g.n, [k \in DOMAIN g.subs |-> Meaning[g.subs[k]][FALSE \/ g.ref]])
    BY <1>1, <1>2, MeaningOf
  <2> QED BY <1>1, <2>1, <2>2
<1>7. make_type[type] \in Datatypes /\ m \in Datatypes
  BY <1>2, MadeType, MeaningType
\* Every element makes the subtype that is meant.
<1>8. ASSUME NEW j \in 1..n
      PROVE  /\ PartOf(type, j) \in K
             /\ \A subtype \in {made[PartOf(type, j)], meant[PartOf(type, j)]} : \A place \in Seq(Nat) :
                    AsMeant(make_value[elems[j]][subtype][place], meant[PartOf(type, j)], place)
  <2> DEFINE k == PartOf(type, j)
             part == elems[j]
  <2>1. /\ k \in K /\ part \in Elements
        /\ TermOf[type.subs[k]][part] \in AllTerms /\ Rectangular[type.subs[k]][part]
        /\ g.subs[k] = TermOf[type.subs[k]][part]
    BY ElementTerms DEF g
  <2>5. MakesMeaning(type.subs[k], part)
    <3> HIDE DEF k, part
    <3> QED BY <2>1
  <2>6. made[k] = make_type[type.subs[k]] /\ meant[k] = Meaning[TermOf[type.subs[k]][part]][FALSE]
    <3> HIDE DEF k, K, part
    <3> QED BY <2>1
  <2>7. \A subtype \in {made[k], meant[k]} : \A place \in Seq(Nat) :
            AsMeant(make_value[part][subtype][place], meant[k], place)
    <3> HIDE DEF made, meant, k, part
    <3> QED BY <2>5, <2>6 DEF MakesMeaning, MayFind
  <2> QED BY <2>1, <2>7
<1>9. ASSUME NEW t \in MayFind(type, g), NEW path \in Seq(Nat)
      PROVE  AsMeant(make_value[elems][t][path], m, path)
  <2> DEFINE size == IF t = m THEN n ELSE SizeMade(type)
  <2>1. \E size1 \in Nat : \E subtype1 \in {made, meant} :
            /\ t = ContainerType(type.kind, FALSE, size1, subtype1)
            /\ type.kind \in {"range", "tuple"} => size1 = n
    <3>1. CASE t = make_type[type]
      <4>1. SizeMade(type) \in Nat /\ (type.kind \in {"range", "tuple"} => SizeMade(type) = n)
        BY <1>3, MadeOf DEF SizeMade
      <4> HIDE DEF made, meant, n
      <4> QED BY <1>5, <3>1, <4>1
    <3>2. CASE t = m
      <4> HIDE DEF made, meant, n, m
      <4> QED BY <1>2, <1>6, <3>2
    <3> QED BY <1>9, <3>1, <3>2 DEF MayFind
  <2>2. PICK size1 \in Nat, subtype1 \in {made, meant} :
            /\ t = ContainerType(type.kind, FALSE, size1, subtype1)
            /\ type.kind \in {"range", "tuple"} => size1 = n
    <3> HIDE DEF made, meant, n
    <3> QED BY <2>1
  <2>3. t \in Datatypes
    <3> HIDE DEF m
    <3> QED BY <1>7, <1>9 DEF MayFind, m
  <2>4. /\ t.dtype = type.kind /\ t.is_reference = FALSE /\ t.num_bytes = 0
        /\ t.num_elements = size1 /\ t.num_ref_elements = 0 /\ t.subtype = subtype1
    <3> HIDE DEF made, meant, n
    <3> QED BY <2>2 DEF ContainerType, Type
  <2>5. DOMAIN t.subtype = K /\ \A k \in K : t.subtype[k] \in {made[k], meant[k]}
    BY <2>2, <2>4
  <2>6. \A j \in 1..n : Index(t, j) = PartOf(type, j)
    BY <2>4 DEF Index, PartOf
  <2> HIDE DEF made, meant, n, K, m
  <2>15. t.dtype \in ContainerTypes
    BY <1>2, <2>4
  <2>16. ElementsAsMeant(elems, t, made, meant)
    <3>1. \A k \in DOMAIN t.subtype : t.subtype[k] \in {made[k], meant[k]}
      BY <2>5
    <3>2. \A j \in 1..Len(elems) : Index(t, j) \in DOMAIN t.subtype
      BY <1>8, <2>5, <2>6 DEF n
    <3>3. \A j \in 1..Len(elems) : \A subtype \in {made[Index(t, j)], meant[Index(t, j)]} :
             \A place \in Seq(Nat) :
                 AsMeant(make_value[elems[j]][subtype][place], meant[Index(t, j)], place)
      BY <1>8, <2>6 DEF n
    <3> QED BY <3>1, <3>2, <3>3 DEF ElementsAsMeant
  <2>17. PICK all :
            /\ make_value[elems][t][path]
                   = Made(Array(all.subs),
                          [t EXCEPT !.subtype = all.subtype, !.num_elements = SizeOf(t, elems)],
                          all.blocks)
            /\ MadeOfAll(all, elems, t, made, meant, path)
    BY <2>3, <2>15, <2>16, MadeElements
  <2>7. /\ Len(all.subs) = Len(elems)
        /\ \E V : all.subs \in Seq(V)
        /\ \A j \in 1..Len(elems) : KeptAs(all.subs[j], meant[Index(t, j)], Append(path, j))
        /\ all.blocks = {<< >>} \cup
              UNION {Inside(j, free_adiak_value_worker[meant[Index(t, j)]]) : j \in 1..Len(elems)}
        /\ all.subtype = [k \in DOMAIN t.subtype |-> all.subtype[k]]
        /\ \A k \in DOMAIN t.subtype : all.subtype[k] \in {made[k], meant[k]}
        /\ Len(elems) = 0 => all.subtype = t.subtype
        /\ \A j \in 1..Len(elems) : all.subtype[Index(t, j)] = meant[Index(t, j)]
    BY <2>17 DEF MadeOfAll
  <2>8. all.subtype = meant
    <3>1. ASSUME NEW k \in K PROVE all.subtype[k] = meant[k]
      <4>1. CASE n = 0
        <5>1. g.subs[k] = TermOf[type.subs[k]][<< >>] /\ g.subs[k] \in AllTerms
          <6>1. elems = << >>
            BY <1>2, <4>1 DEF n
          <6> QED BY <1>1, <6>1 DEF FirstOf
        <5>2. Meaning[g.subs[k]][FALSE] = make_type[type.subs[k]]
          BY <1>3, <1>4, <5>1, EmptyMeans
        <5>3. made[k] = meant[k]
          BY <5>2 DEF made, meant
        <5> QED BY <2>5, <2>7, <5>3
      <4>2. CASE n # 0
        <5>1. \E j \in 1..n : PartOf(type, j) = k
          <6>1. CASE type.kind = "tuple"
            <7>1. k \in 1..n
              BY <1>3, <6>1
            <7> QED BY <6>1, <7>1 DEF PartOf
          <6>2. CASE type.kind # "tuple"
            <7>1. k = 1 /\ 1 \in 1..n
              BY <1>2, <1>3, <4>2, <6>2
            <7> QED BY <6>2, <7>1 DEF PartOf
          <6> QED BY <6>1, <6>2
        <5>2. PICK j \in 1..n : PartOf(type, j) = k
          BY <5>1
        <5>3. Index(t, j) = k /\ j \in 1..Len(elems)
          BY <2>6, <5>2 DEF n
        <5> QED BY <2>7, <5>3
      <4> QED BY <4>1, <4>2
    <3>2. meant = [k \in K |-> meant[k]]
      BY DEF meant
    <3> QED BY <2>5, <2>7, <3>1, <3>2
  <2>9. SizeOf(t, elems) = n
    <3>1. type.kind \in {"set", "list"} \/ type.kind \in {"range", "tuple"}
      BY <1>2 DEF ContainerTypes
    <3> QED BY <2>2, <2>4, <3>1 DEF SizeOf, n
  <2>10. [t EXCEPT !.subtype = meant, !.num_elements = n] = m
    <3> DEFINE kind == type.kind
    <3>1. t = CopyType(kind, size1, subtype1) /\ m = CopyType(kind, n, meant)
      BY <1>6, <2>2 DEF CopyType
    <3> HIDE DEF kind
    <3>2. Resized(CopyType(kind, size1, subtype1), meant, n) = CopyType(kind, n, meant)
      BY ResizedContainer
    <3>3. Resized(t, meant, n) = m
      BY <3>1, <3>2
    <3> HIDE DEF m
    <3> QED BY <3>3 DEF Resized
  <2>11. all.blocks = free_adiak_value_worker[m]
    <3>1. m.dtype = type.kind /\ m.num_elements = n /\ m.is_reference = FALSE /\ m.subtype = meant
      BY <1>6 DEF ContainerType, Type
    <3>2. free_adiak_value_worker[m]
             = {<< >>} \cup UNION {Inside(j, free_adiak_value_worker[Element(m, j)]) : j \in 1..m.num_elements}
      BY <1>2, <1>7, <3>1, FreedOfContainer
    <3>3. \A j \in 1..n : Element(m, j) = meant[Index(t, j)]
      BY <2>4, <3>1 DEF Element, Index
    <3> QED BY <2>7, <3>1, <3>2, <3>3 DEF n
  <2>12. Len(Array(all.subs).subs) = m.num_elements
    <3>1. m.num_elements = n
      BY <1>6 DEF ContainerType, Type
    <3> QED BY <2>7, <3>1 DEF Array, Value, n
  <2>13. \A x, y, z : Made(x, y, z).value = x /\ Made(x, y, z).dtype = y /\ Made(x, y, z).blocks = z
    BY DEF Made
  <2>14. make_value[elems][t][path] = Made(Array(all.subs), m, all.blocks)
    BY <2>17, <2>8, <2>9, <2>10
  <2>18. KeptAs(Array(all.subs), m, path)
    <3> SUFFICES ASSUME NEW data \in AllData, data.path = path, Now(data)
                 PROVE  Array(all.subs) = Kept[m][data]
      BY DEF KeptAs
    <3> DEFINE kept == [j \in 1..n |-> Kept[Element(m, j)][DataPart(m, data, j)]]
    <3>1. m.dtype = type.kind /\ m.num_elements = n /\ m.is_reference = FALSE /\ m.subtype = meant
      BY <1>6 DEF ContainerType, Type
    <3>2. m.dtype \in ContainerTypes /\ m.dtype \notin PointerTypes
      BY <1>2, <3>1 DEF ContainerTypes, PointerTypes, StringTypes
    <3>3. Kept[m][data] = Array(kept)
      BY <1>7, <3>1, <3>2, KeptOf
    <3>4. ASSUME NEW j \in 1..n PROVE all.subs[j] = kept[j]
      <4>1. Element(m, j) = meant[Index(t, j)]
        BY <2>4, <3>1 DEF Element, Index
      <4> DEFINE part == DataPart(m, data, j)
      <4>2. part \in AllData /\ part.path = Append(path, j) /\ Now(part)
        <5>1. m.num_ref_elements \in Nat
          BY <1>7, DatatypeFields
        <5>2. j \in 1..Count(m)
          BY <1>2, <3>1, <5>1 DEF Count
        <5> QED BY <1>7, <3>2, <5>2, DataParts DEF Now, DataPart, Data
      <4>3. KeptAs(all.subs[j], meant[Index(t, j)], Append(path, j))
        BY <2>7 DEF n
      <4> HIDE DEF part
      <4>4. all.subs[j] = Kept[Element(m, j)][part]
        BY <4>1, <4>2, <4>3 DEF KeptAs
      <4> QED BY <4>4 DEF part
    <3>5. all.subs = [j \in 1..n |-> all.subs[j]]
      <4>1. PICK V : all.subs \in Seq(V)
        BY <2>7
      <4>2. Len(all.subs) = n
        BY <2>7 DEF n
      <4> DEFINE subs == all.subs
      <4>3. subs \in Seq(V) /\ Len(subs) = n
        BY <4>1, <4>2
      <4> HIDE DEF subs
      <4>4. subs = [j \in 1..n |-> subs[j]]
        BY <4>3
      <4> QED BY <4>4 DEF subs
    <3>6. all.subs = kept
      <4> HIDE DEF kept
      <4>1. kept = [j \in 1..n |-> kept[j]]
        BY DEF kept
      <4> QED BY <3>4, <3>5, <4>1
    <3> QED BY <3>3, <3>6
  <2> QED BY <2>11, <2>12, <2>13, <2>14, <2>18 DEF AsMeant
<1> QED BY <1>9 DEF MakesMeaning, g

\* adiak::value and the C functions agree about every object whose elements are all as
\* long as the first ones: the datatype it leaves in the record is the one that a C
\* program would describe by a type string for the same data, with char, short and float
\* promoted, the blocks it has allocated are those that
\* will be released by that datatype, its array has all elements, and the value is the one
\* that adiak_namevalue keeps of the same data.
THEOREM ObjectsAreMeant ==
    ASSUME NEW type \in AllTerms, Static[type], NEW elems \in Elements,
           TermOf[type][elems] \in AllTerms, Rectangular[type][elems]
    PROVE  AsMeant(make_value[elems][make_type[type]][<< >>], Meaning[TermOf[type][elems]][FALSE], << >>)
<1> DEFINE S == {u \in AllTerms : Static[u] =>
                    \A e \in Elements : TermOf[u][e] \in AllTerms /\ Rectangular[u][e] => MakesMeaning(u, e)}
<1>1. ASSUME NEW u \in AllTerms, \A k \in DOMAIN u.subs : u.subs[k] \in S, Static[u],
             NEW e \in Elements, TermOf[u][e] \in AllTerms, Rectangular[u][e]
      PROVE  MakesMeaning(u, e)
  <2>1. CASE u.kind = "scalar"
    BY <1>1, <2>1, ScalarMakesMeaning
  <2>2. CASE u.kind # "scalar"
    <3>1. \A k \in DOMAIN u.subs : Static[u.subs[k]]
      BY <1>1, StaticFields
    <3>2. \A k \in DOMAIN u.subs : \A part \in Elements :
              TermOf[u.subs[k]][part] \in AllTerms /\ Rectangular[u.subs[k]][part]
                  => MakesMeaning(u.subs[k], part)
      BY <1>1, <3>1
    <3> QED BY <1>1, <2>2, <3>2, ContainerMakesMeaning
  <2> QED BY <2>1, <2>2
<1>2. AllTerms \subseteq S
  <2>1. ASSUME NEW u \in AllTerms, \A k \in DOMAIN u.subs : u.subs[k] \in S PROVE u \in S
    BY <1>1, <2>1
  <2> HIDE DEF S
  <2> QED BY <2>1, TermInduction
<1>3. MakesMeaning(type, elems)
  BY <1>2
<1>4. << >> \in Seq(Nat)
  OBVIOUS
<1> QED BY <1>3, <1>4 DEF MakesMeaning, MayFind

-----------------------------------------------------------------------------
\* The inductive invariant, with registrations from C++ as well.

\* All vectors in one object of the application are equally long (CxxRagged shows what
\* happens otherwise).
AllRectangular == \A o \in CxxObjects : Rectangular[o.type][o.elems]

\* Only a reference has no elements of its own.
LEMMA MeaningSize ==
    ASSUME NEW g \in AllTerms
    PROVE  Meaning[g][FALSE].is_reference = FALSE \/ Meaning[g][FALSE].num_elements = 0
<1>1. CASE g.kind = "scalar"
  <2>1. Meaning[g][FALSE] = base_ref(g.spec, FALSE \/ g.ref)
    BY <1>1, MeaningOf
  <2>2. base[g.spec] = BaseType(base[g.spec].dtype, base[g.spec].num_bytes)
    BY <1>1, TermFields, BaseFields
  <2> DEFINE name == base[g.spec].dtype
             bytes == base[g.spec].num_bytes
  <2>3. base[g.spec] = BaseType(name, bytes)
    BY <2>2
  <2> HIDE DEF name, bytes
  <2>4. base_ref(g.spec, FALSE \/ g.ref).num_elements = 0
    BY <2>3 DEF base_ref, BaseType, Type
  <2> QED BY <2>1, <2>4
<1>2. CASE g.kind # "scalar"
  <2> DEFINE ref == FALSE \/ g.ref
             meant == [i \in DOMAIN g.subs |-> Meaning[g.subs[i]][ref]]
  <2>1. Meaning[g][FALSE] = ContainerType(g.kind, ref, g.n, meant) /\ ref \in BOOLEAN
    BY <1>2, MeaningOf, TermFields
  <2> HIDE DEF ref, meant
  <2>2. ref = TRUE \/ ref = FALSE
    BY <2>1
  <2>3. CASE ref = TRUE
    BY <2>1, <2>3 DEF ContainerType, Type
  <2>4. CASE ref = FALSE
    BY <2>1, <2>4 DEF ContainerType, Type
  <2> QED BY <2>2, <2>3, <2>4
<1> QED BY <1>1, <1>2

\* What adiak::value leaves is like what adiak_namevalue leaves.
LEMMA ValueInvObject ==
    ASSUME ValueInv, AllRectangular, NEW o \in CxxObjects, adiak_value(o)
    PROVE  ValueInv'
<1> DEFINE new == make_value[o.elems][make_type[o.type]][<< >>]
           t == Meaning[term][FALSE]
<1>1. /\ TermOf[o.type][o.elems] = term
      /\ object # 0 /\ targets # 0 /\ registered < MaxRegistrations
      /\ registered' = registered + 1
      /\ dtype' = new.dtype /\ value' = new.value
      /\ of' = term /\ heap' = (heap \cup Blocks(registered + 1, new.blocks)) \ OldBlocks
      /\ term' = term /\ object' = object /\ targets' = targets
  BY DEF adiak_value, appVars
<1>2. term \in Terms /\ term \in AllTerms
  BY <1>1, ValueAssumption DEF ValueInv, DataOfTerm
<1>3. o.type \in AllTerms /\ Static[o.type] /\ o.elems \in Elements /\ Rectangular[o.type][o.elems]
  BY ObjectsAssumption DEF AllRectangular
<1>4. AsMeant(new, t, << >>)
  BY <1>1, <1>2, <1>3, ObjectsAreMeant
<1>5. t \in Datatypes
  BY <1>2, MeaningType
<1>6. toplevel_type(Written[term]) = t.dtype
  BY <1>2, WrittenTop
<1>7. t.is_reference = FALSE \/ t.num_elements = 0
  BY <1>2, MeaningSize
<1> HIDE DEF t, new
<1>8. new.dtype = t /\ new.blocks = free_adiak_value_worker[t] /\ Len(new.value.subs) = t.num_elements
  BY <1>4 DEF AsMeant
<1>9. registered \in Nat /\ registered + 1 \in 0..MaxRegistrations /\ registered + 1 \in 1..(registered + 1)
  BY <1>1, ValueAssumption DEF ValueInv, TypeOK
<1>10. t # NullType
  BY <1>5, NullIsNone
<1>11. heap' = Blocks(registered + 1, free_adiak_value_worker[t])
  <2>1. heap = OldBlocks
    BY DEF ValueInv, HeapIsRecord
  <2>2. OldBlocks \cap Blocks(registered + 1, new.blocks) = {}
    BY <1>9, BlocksApart DEF OldBlocks
  <2> QED BY <1>1, <1>8, <2>1, <2>2
<1>12. OldBlocks' = Blocks(registered + 1, free_adiak_value_worker[t])
  BY <1>1, <1>8, <1>10 DEF OldBlocks
<1>13. HeapIsRecord'
  BY <1>11, <1>12 DEF HeapIsRecord
<1>14. \A block \in heap' : block[1] \in 1..registered'
  <2>1. \A block \in Blocks(registered + 1, free_adiak_value_worker[t]) : block[1] = registered + 1
    BY DEF Blocks
  <2> QED BY <1>1, <1>9, <1>11, <2>1
<1>15. Len(value'.subs) = (IF dtype'.is_reference THEN 0 ELSE dtype'.num_elements)
  BY <1>1, <1>7, <1>8
<1>16. TypeOK'
  BY <1>1, <1>2, <1>9, <1>14, <1>15 DEF ValueInv, TypeOK
<1>17. DataOfTerm' /\ RecordOK'
  BY <1>1, <1>2, <1>5, <1>8, <1>9 DEF DataOfTerm, RecordOK
<1>18. TopTypeAgrees'
  BY <1>1, <1>6, <1>8 DEF TopTypeAgrees
<1> QED BY <1>13, <1>16, <1>17, <1>18 DEF ValueInv

LEMMA CxxInvNext == AllRectangular /\ ValueInv /\ [CxxNext]_cxxVars => ValueInv'
<1> SUFFICES ASSUME AllRectangular, ValueInv, [CxxNext]_cxxVars PROVE ValueInv'
  OBVIOUS
<1>1. ASSUME NEW o \in CxxObjects, adiak_value(o) PROVE ValueInv'
  BY <1>1, ValueInvObject
<1>2. CASE Next
  BY <1>2, ValueInvNext
<1>3. CASE UNCHANGED cxxVars
  <2>1. UNCHANGED vars
    BY <1>3 DEF cxxVars
  <2> QED BY <2>1, ValueInvNext
<1> QED BY <1>1, <1>2, <1>3 DEF CxxNext, Next

LEMMA CxxInvAlways ==
    ASSUME AllRectangular
    PROVE  CxxSpec => []ValueInv
<1>1. CxxInit => ValueInv
  BY ValueInvInit DEF CxxInit
<1>2. ValueInv /\ [CxxNext]_cxxVars => ValueInv'
  BY CxxInvNext
<1> QED BY <1>1, <1>2, PTL DEF CxxSpec

\* With registrations from C++ as well, the record, its value and the heap are well
\* formed if the vectors in each object are equally long.
THEOREM CxxValueTypes ==
    ASSUME AllRectangular
    PROVE  CxxSpec => []TypeOK
<1>1. ValueInv => TypeOK
  BY DEF ValueInv
<1>2. CxxSpec => []ValueInv
  BY CxxInvAlways
<1> QED BY <1>1, <1>2, PTL

\* What adiak::value has allocated is exactly what replacing the record by either
\* interface, or cleaning, will release.
THEOREM CxxBlocksReleased ==
    ASSUME AllRectangular
    PROVE  CxxSpec => []HeapIsRecord
<1>1. ValueInv => HeapIsRecord
  BY DEF ValueInv
<1>2. CxxSpec => []ValueInv
  BY CxxInvAlways
<1> QED BY <1>1, <1>2, PTL

\* A record made by adiak::value has the type by which adiak_namevalue would read the
\* first argument of a C program with the same data.
THEOREM CxxTopTypes ==
    ASSUME AllRectangular
    PROVE  CxxSpec => []TopTypeAgrees
<1>1. ValueInv => TopTypeAgrees
  BY DEF ValueInv
<1>2. CxxSpec => []ValueInv
  BY CxxInvAlways
<1> QED BY <1>1, <1>2, PTL

LEMMA CxxParsedInvNext ==
    AllRectangular /\ AllTuplesLast /\ ParsedInv /\ [CxxNext]_cxxVars => ParsedInv'
<1> SUFFICES ASSUME AllRectangular, AllTuplesLast, ParsedInv, [CxxNext]_cxxVars PROVE ParsedInv'
  OBVIOUS
<1>1. ASSUME NEW o \in CxxObjects, adiak_value(o) PROVE ParsedInv'
  <2> DEFINE new == make_value[o.elems][make_type[o.type]][<< >>]
             t == Meaning[term][FALSE]
  <2>1. /\ TermOf[o.type][o.elems] = term
        /\ object # 0 /\ of' = term /\ dtype' = new.dtype
    BY <1>1 DEF adiak_value
  <2>2. term \in AllTerms
    BY <2>1, ValueAssumption DEF ParsedInv, ValueInv, DataOfTerm
  <2>3. o.type \in AllTerms /\ Static[o.type] /\ o.elems \in Elements /\ Rectangular[o.type][o.elems]
    BY ObjectsAssumption DEF AllRectangular
  <2>4. AsMeant(new, t, << >>)
    BY <2>1, <2>2, <2>3, ObjectsAreMeant
  <2> HIDE DEF new
  <2>5. ParsesAsWritten'
    BY <2>1, <2>4 DEF AsMeant, ParsesAsWritten
  <2>6. ValueInv'
    BY <1>1, ValueInvObject DEF ParsedInv
  <2> QED BY <2>5, <2>6 DEF ParsedInv
<1>2. CASE Next
  BY <1>2, ParsedInvNext
<1>3. CASE UNCHANGED cxxVars
  <2>1. UNCHANGED vars
    BY <1>3 DEF cxxVars
  <2> QED BY <2>1, ParsedInvNext
<1> QED BY <1>1, <1>2, <1>3 DEF CxxNext, Next

\* Whichever interface made the record, it has the datatype that the type string of
\* a C program describes for the same data.
THEOREM CxxParsedAsWritten ==
    ASSUME AllRectangular, AllTuplesLast
    PROVE  CxxSpec => []ParsesAsWritten
<1>1. CxxInit => ParsedInv
  BY ParsedInvInit DEF CxxInit
<1>2. ParsedInv /\ [CxxNext]_cxxVars => ParsedInv'
  BY CxxParsedInvNext
<1>3. ParsedInv => ParsesAsWritten
  BY DEF ParsedInv
<1> QED BY <1>1, <1>2, <1>3, PTL DEF CxxSpec

\* That holds of the types of C++ objects as well.
THEOREM CxxStringsParse ==
    ASSUME AllRectangular, AllTuplesLast
    PROVE  CxxSpec => []StringParsesBack
<1>1. CxxInit => ParsedInv
  BY ParsedInvInit DEF CxxInit
<1>2. ParsedInv /\ [CxxNext]_cxxVars => ParsedInv'
  BY CxxParsedInvNext
<1>3. ParsedInv => StringParsesBack
  BY ParsedStrings
<1> QED BY <1>1, <1>2, <1>3, PTL DEF CxxSpec

-----------------------------------------------------------------------------
\* The inductive invariant, with what the record keeps of objects from C++ as well.
LEMMA CxxKeptInvNext ==
    AllRectangular /\ AllTuplesLast /\ AllGapless /\ NarrowLow /\ KeptInv /\ [CxxNext]_cxxVars => KeptInv'
<1> SUFFICES ASSUME AllRectangular, AllTuplesLast, AllGapless, NarrowLow, KeptInv, [CxxNext]_cxxVars
             PROVE  KeptInv'
  OBVIOUS
<1>1. ASSUME NEW o \in CxxObjects, adiak_value(o) PROVE KeptInv'
  <2> DEFINE new == make_value[o.elems][make_type[o.type]][<< >>]
             t == Meaning[term][FALSE]
             data == ObjectData(object, targets)
  <2>1. /\ TermOf[o.type][o.elems] = term
        /\ object # 0 /\ of' = term /\ dtype' = new.dtype /\ value' = new.value
        /\ since' = <<object, targets>> /\ term' = term /\ object' = object
    BY <1>1 DEF adiak_value, appVars
  <2>2. term \in AllTerms /\ object \in Nat /\ targets \in Nat
    BY <2>1, ValueAssumption DEF KeptInv, ParsedInv, ValueInv, TypeOK, DataOfTerm
  <2>3. o.type \in AllTerms /\ Static[o.type] /\ o.elems \in Elements /\ Rectangular[o.type][o.elems]
    BY ObjectsAssumption DEF AllRectangular
  <2>4. AsMeant(new, t, << >>)
    BY <2>1, <2>2, <2>3, ObjectsAreMeant
  <2>5. data \in AllData /\ data.path = << >> /\ Now(data)
    BY <2>2, ObjectDataType DEF Now, NoPath
  <2>6. new.dtype = t /\ KeptAs(new.value, t, << >>)
    <3> HIDE DEF new, t
    <3> QED BY <2>4 DEF AsMeant
  <2>7. new.value = Kept[t][data]
    <3> HIDE DEF new, t, data
    <3> QED BY <2>5, <2>6 DEF KeptAs
  <2> HIDE DEF new, t
  <2>8. since'[1] = object /\ since'[2] = targets
    BY <2>1
  <2>9. ValueKept'
    BY <2>1, <2>2, <2>6, <2>7, <2>8 DEF ValueKept, ObjectKept
  <2>10. [CxxNext]_cxxVars /\ ParsedInv
    BY DEF KeptInv
  <2>11. ParsedInv'
    BY <2>10, CxxParsedInvNext
  <2> QED BY <2>9, <2>11 DEF KeptInv
<1>2. CASE Next
  BY <1>2, KeptInvNext
<1>3. CASE UNCHANGED cxxVars
  <2>1. UNCHANGED vars
    BY <1>3 DEF cxxVars
  <2> QED BY <2>1, KeptInvNext
<1> QED BY <1>1, <1>2, <1>3 DEF CxxNext, Next

LEMMA CxxKeptAlways ==
    ASSUME AllRectangular, AllTuplesLast, AllGapless, NarrowLow
    PROVE  CxxSpec => []KeptInv
<1>1. CxxInit => KeptInv
  BY ParsedInvInit DEF CxxInit, Init, KeptInv, ValueKept
<1>2. KeptInv /\ [CxxNext]_cxxVars => KeptInv'
  BY CxxKeptInvNext
<1> QED BY <1>1, <1>2, PTL DEF CxxSpec

\* Whichever interface made the record, tools find in it what the documentation promises
\* of the data registered.
THEOREM CxxValuesReadBack ==
    ASSUME AllRectangular, AllTuplesLast, AllGapless, NarrowLow
    PROVE  CxxSpec => []ReadBack
<1>1. KeptInv => ReadBack
  BY KeptReadsBack
<1> QED BY <1>1, CxxKeptAlways, PTL

-----------------------------------------------------------------------------
\* The leaves of an object, and those promised of the term it is an object of.
Foliage == INSTANCE Nesting WITH
    MaxDepth <- MaxLength, Over <- TermsOver, Parts <- Subterms, Step <- LeavesFrom

LEMMA LeavesParts ==
    ASSUME NEW type \in AllTerms
    PROVE  LeavesOf[type] = LeavesFrom(type, [j \in DOMAIN type.subs |-> LeavesOf[type.subs[j]]])
<1>1. Foliage!Nested /\ Foliage!All = AllTerms
  BY TermsNested DEF Foliage!Nested, Strings!Nested, Foliage!All, Foliage!UpTo, AllTerms, TermsUpTo
<1>2. Foliage!Result = LeavesOf
  BY <1>1 DEF Foliage!Result, Foliage!Computes, LeavesOf, Subterms
<1>3. Foliage!Computes(LeavesOf, AllTerms)
  BY <1>1, <1>2, Foliage!NestingRecursion
<1> QED BY <1>3 DEF Foliage!Computes, Subterms

LEMMA LeavesOfObject ==
    ASSUME NEW type \in AllTerms, NEW elems \in Elements
    PROVE  /\ type.kind = "scalar" =>
                 LeavesOf[type][elems]
                     = {IF base[type.spec].dtype \in PointerTypes THEN Leaf(<< >>, << >>, 0, since[2])
                        ELSE Leaf(<< >>, << >>, TypedNumber(base[Widened(type.spec)]), since[1])}
           /\ type.kind # "scalar" /\ (\A j \in DOMAIN elems : PartOf(type, j) \in DOMAIN type.subs) =>
                 LeavesOf[type][elems]
                     = UNION {InElements(j, LeavesOf[type.subs[PartOf(type, j)]][elems[j]]) : j \in DOMAIN elems}
<1> DEFINE leaves == [j \in DOMAIN type.subs |-> LeavesOf[type.subs[j]]]
           A(j) == {[leaf EXCEPT !.place = <<j>> \o @, !.path = <<j>> \o @] :
                        leaf \in leaves[PartOf(type, j)][elems[j]]}
           B(j) == InElements(j, LeavesOf[type.subs[PartOf(type, j)]][elems[j]])
<1>1. LeavesOf[type][elems] = LeavesFrom(type, leaves)[elems]
  BY LeavesParts
<1>2. ASSUME type.kind # "scalar", \A j \in DOMAIN elems : PartOf(type, j) \in DOMAIN type.subs
      PROVE  LeavesOf[type][elems] = UNION {B(j) : j \in DOMAIN elems}
  <2>1. LeavesFrom(type, leaves)[elems] = UNION {A(j) : j \in DOMAIN elems}
    <3> HIDE DEF leaves
    <3> QED BY <1>2 DEF LeavesFrom
  <2>2. ASSUME NEW j \in DOMAIN elems PROVE A(j) = B(j)
    <3>1. leaves[PartOf(type, j)] = LeavesOf[type.subs[PartOf(type, j)]]
      BY <1>2
    <3> HIDE DEF leaves
    <3> QED BY <3>1 DEF InElements, InElement
  <2> HIDE DEF A, B, leaves
  <2> QED BY <1>1, <2>1, <2>2
<1>3. type.kind = "scalar" =>
         LeavesFrom(type, leaves)[elems]
             = {IF base[type.spec].dtype \in PointerTypes THEN Leaf(<< >>, << >>, 0, since[2])
                ELSE Leaf(<< >>, << >>, TypedNumber(base[Widened(type.spec)]), since[1])}
  <2> HIDE DEF leaves
  <2> QED BY DEF LeavesFrom
<1> HIDE DEF leaves
<1> QED BY <1>1, <1>2, <1>3

\* A tool finds the leaves that the object had.
LeavesMeant(type, elems) ==
    Promised[Meaning[TermOf[type][elems]][FALSE]][FALSE] = LeavesOf[type][elems]

LEMMA ScalarLeavesMeant ==
    ASSUME NEW type \in AllTerms, Static[type], type.kind = "scalar", NEW elems \in Elements
    PROVE  LeavesMeant(type, elems)
<1> DEFINE spec == Widened(type.spec)
           t == base[spec]
           r == FALSE
           made == [j \in DOMAIN type.subs |-> make_type[type.subs[j]]]
<1>0. spec \in Specifiers /\ t.dtype = base[type.spec].dtype
      /\ adiak_get_basetype(base[type.spec].dtype) = t
  BY TermFields, WidenedSpec
<1>1. make_type[type] = t
  <2>1. make_type[type] = MadeFrom(type, made)
    BY MadeParts
  <2> HIDE DEF made, t
  <2> QED BY <1>0, <2>1 DEF MadeFrom
<1>2. MakesMeaning(type, elems)
  BY ScalarMakesMeaning
<1>3. << >> \in Seq(Nat) /\ make_type[type] \in MayFind(type, TermOf[type][elems])
  BY DEF MayFind
<1>4. Meaning[TermOf[type][elems]][r] = t
  <2>1. TermOf[type][elems] = Promoted(type) /\ make_type[type] = base_ref(spec, FALSE)
    BY TermOfObject, MadeOf
  <2>2. Meaning[Promoted(type)][FALSE] = base_ref(spec, FALSE)
    BY StaticFields, PromotedMeaning
  <2> QED BY <1>1, <2>1, <2>2
<1>5. t \in Datatypes
  BY <1>1, MadeType
<1>6. t.dtype \in NumberTypes \cup PointerTypes /\ t.is_reference = FALSE
  <2> DEFINE name == t.dtype
             bytes == t.num_bytes
  <2>1. t = BaseType(name, bytes) /\ name \in NumberTypes \cup PointerTypes
    <3> HIDE DEF spec
    <3> QED BY <1>0, BaseFields
  <2> HIDE DEF name, bytes, t
  <2>2. t.is_reference = FALSE
    BY <2>1 DEF BaseType, Type
  <2> QED BY <2>1, <2>2 DEF name
<1>7. r \in BOOLEAN /\ r = FALSE /\ (r \/ t.is_reference) = FALSE
  BY <1>6
<1>8. t.dtype \notin ContainerTypes
  BY <1>6 DEF NumberTypes, PointerTypes, StringTypes, ContainerTypes
<1>9. LeavesOf[type][elems] = {IF t.dtype \in PointerTypes THEN Leaf(<< >>, << >>, 0, since[2])
                               ELSE Leaf(<< >>, << >>, TypedNumber(t), since[1])}
  <2>1. LeavesOf[type][elems] = {IF base[type.spec].dtype \in PointerTypes THEN Leaf(<< >>, << >>, 0, since[2])
                                 ELSE Leaf(<< >>, << >>, TypedNumber(t), since[1])}
    BY LeavesOfObject
  <2> HIDE DEF t
  <2> QED BY <1>0, <2>1
<1> HIDE DEF t, r
<1>10. Promised[t][r] = LeavesOf[type][elems]
  <2>1. CASE t.dtype \in PointerTypes
    BY <1>5, <1>7, <1>9, <2>1, PromisedOf
  <2>2. CASE t.dtype \notin PointerTypes
    BY <1>5, <1>7, <1>8, <1>9, <2>2, PromisedOf
  <2> QED BY <2>1, <2>2
<1> QED BY <1>4, <1>7, <1>10 DEF LeavesMeant

LEMMA ContainerLeavesMeant ==
    ASSUME NEW type \in AllTerms, Static[type], type.kind # "scalar", NEW elems \in Elements,
           TermOf[type][elems] \in AllTerms, Rectangular[type][elems],
           \A k \in DOMAIN type.subs : \A part \in Elements :
               TermOf[type.subs[k]][part] \in AllTerms /\ Rectangular[type.subs[k]][part]
                   => LeavesMeant(type.subs[k], part)
    PROVE  LeavesMeant(type, elems)
<1> DEFINE g == TermOf[type][elems]
           n == Len(elems)
           r == FALSE
           meant == [k \in DOMAIN g.subs |-> Meaning[g.subs[k]][FALSE]]
           m == Meaning[g][r]
           k(j) == PartOf(type, j)
           A(j) == InElements(j, Promised[Element(m, j)][r \/ m.is_reference])
           B(j) == InElements(j, LeavesOf[type.subs[k(j)]][elems[j]])
<1>1. g.kind = type.kind /\ g.ref = type.ref /\ g.n = n /\ DOMAIN g.subs = DOMAIN type.subs
  BY TermOfFields
<1>2. g \in AllTerms /\ type.kind \in ContainerTypes /\ n \in Nat /\ DOMAIN elems = 1..n
  BY TermFields, ElementsParts
<1>3. r \in BOOLEAN /\ ~r /\ r = FALSE
  OBVIOUS
<1>4. m = ContainerType(type.kind, FALSE, n, meant)
  <2>1. (FALSE \/ g.ref) = FALSE
    BY <1>1, StaticFields
  <2>2. m = ContainerType(g.kind, FALSE \/ g.ref, g.n, [i \in DOMAIN g.subs |-> Meaning[g.subs[i]][FALSE \/ g.ref]])
    <3> HIDE DEF g
    <3> QED BY <1>1, <1>2, MeaningOf
  <2> HIDE DEF g
  <2> QED BY <1>1, <2>1, <2>2
<1> HIDE DEF g
<1>5. m \in Datatypes
  BY <1>2, <1>3, MeaningType
<1>6. /\ m.dtype = type.kind /\ m.is_reference = FALSE /\ Count(m) = n /\ m.subtype = meant
      /\ (r \/ m.is_reference) = FALSE
  <2> HIDE DEF m, meant
  <2>1. /\ m.dtype = type.kind /\ m.is_reference = FALSE /\ m.subtype = meant
        /\ m.num_elements = n /\ m.num_ref_elements = 0
    BY <1>4 DEF ContainerType, Type
  <2>2. Count(m) = n
    BY <1>2, <2>1 DEF Count
  <2> QED BY <1>3, <2>1, <2>2
<1>7. ASSUME NEW j \in 1..n
      PROVE  k(j) \in DOMAIN type.subs /\ A(j) = B(j)
  <2> DEFINE u == type.subs[k(j)]
             part == elems[j]
  <2>1. /\ k(j) \in DOMAIN type.subs /\ part \in Elements
        /\ TermOf[u][part] \in AllTerms /\ Rectangular[u][part]
        /\ g.subs[k(j)] = TermOf[u][part]
    BY ElementTerms DEF g
  <2>2. LeavesMeant(u, part)
    <3> HIDE DEF part
    <3> QED BY <2>1
  <2>3. Element(m, j) = Meaning[TermOf[u][part]][FALSE]
    <3>1. Index(m, j) = k(j)
      BY <1>6 DEF Index, PartOf
    <3>2. meant[k(j)] = Meaning[g.subs[k(j)]][FALSE]
      BY <1>1, <2>1
    <3> HIDE DEF meant, m, u, part
    <3> QED BY <1>6, <2>1, <3>1, <3>2 DEF Element
  <2> HIDE DEF u, part, m
  <2>4. Promised[Element(m, j)][r \/ m.is_reference] = LeavesOf[u][part]
    BY <1>6, <2>2, <2>3 DEF LeavesMeant
  <2> QED BY <2>1, <2>4 DEF u, part
<1>8. Promised[m][r] = UNION {A(j) : j \in 1..n}
  <2> HIDE DEF m, r
  <2> QED BY <1>2, <1>3, <1>5, <1>6, PromisedOf
<1>9. LeavesOf[type][elems] = UNION {B(j) : j \in 1..n}
  <2>1. \A j \in DOMAIN elems : PartOf(type, j) \in DOMAIN type.subs
    <3> HIDE DEF A, B
    <3> QED BY <1>2, <1>7
  <2> QED BY <1>2, <2>1, LeavesOfObject
<1> HIDE DEF A, B
<1>10. Promised[m][r] = LeavesOf[type][elems]
  <2> HIDE DEF m, r
  <2> QED BY <1>7, <1>8, <1>9
<1> QED BY <1>10 DEF LeavesMeant, g

LEMMA ObjectLeaves ==
    ASSUME NEW type \in AllTerms, Static[type], NEW elems \in Elements,
           TermOf[type][elems] \in AllTerms, Rectangular[type][elems]
    PROVE  LeavesMeant(type, elems)
<1> DEFINE S == {u \in AllTerms : Static[u] =>
                    \A e \in Elements : TermOf[u][e] \in AllTerms /\ Rectangular[u][e] => LeavesMeant(u, e)}
<1>1. ASSUME NEW u \in AllTerms, \A k \in DOMAIN u.subs : u.subs[k] \in S, Static[u],
             NEW e \in Elements, TermOf[u][e] \in AllTerms, Rectangular[u][e]
      PROVE  LeavesMeant(u, e)
  <2>1. CASE u.kind = "scalar"
    BY <1>1, <2>1, ScalarLeavesMeant
  <2>2. CASE u.kind # "scalar"
    <3>1. \A k \in DOMAIN u.subs : Static[u.subs[k]]
      BY <1>1, StaticFields
    <3>2. \A k \in DOMAIN u.subs : \A part \in Elements :
              TermOf[u.subs[k]][part] \in AllTerms /\ Rectangular[u.subs[k]][part]
                  => LeavesMeant(u.subs[k], part)
      BY <1>1, <3>1
    <3> QED BY <1>1, <2>2, <3>2, ContainerLeavesMeant
  <2> QED BY <2>1, <2>2
<1>2. AllTerms \subseteq S
  <2>1. ASSUME NEW u \in AllTerms, \A k \in DOMAIN u.subs : u.subs[k] \in S PROVE u \in S
    BY <1>1, <2>1
  <2> HIDE DEF S
  <2> QED BY <2>1, TermInduction
<1> QED BY <1>2

\* The object that the record was made from is one of the data that the record is of.
ObjectOfRecord ==
    cxx # NoObject => cxx \in CxxObjects /\ dtype # NullType /\ of = TermOf[cxx.type][cxx.elems]
CxxKeptInv == KeptInv /\ ObjectOfRecord

LEMMA CxxObjectNext ==
    AllRectangular /\ AllTuplesLast /\ AllGapless /\ NarrowLow /\ CxxKeptInv /\ [CxxNext]_cxxVars
        => CxxKeptInv'
<1> SUFFICES ASSUME AllRectangular, AllTuplesLast, AllGapless, NarrowLow, CxxKeptInv, [CxxNext]_cxxVars
             PROVE  CxxKeptInv'
  OBVIOUS
<1>1. KeptInv /\ ObjectOfRecord
  BY DEF CxxKeptInv
<1>2. KeptInv'
  BY <1>1, CxxKeptInvNext
<1>3. ASSUME NEW o \in CxxObjects, adiak_value(o) PROVE ObjectOfRecord'
  <2>1. TermOf[o.type][o.elems] = term /\ of' = term /\ cxx' = o /\ registered' = registered + 1
        /\ dtype' = make_value[o.elems][make_type[o.type]][<< >>].dtype /\ object # 0
    BY <1>3 DEF adiak_value
  <2>2. o.type \in AllTerms /\ Static[o.type] /\ o.elems \in Elements /\ Rectangular[o.type][o.elems]
    BY ObjectsAssumption DEF AllRectangular
  <2>3. term \in AllTerms
    BY <1>1, <2>1, ValueAssumption DEF KeptInv, ParsedInv, ValueInv, DataOfTerm
  <2> DEFINE new == make_value[o.elems][make_type[o.type]][<< >>]
             t == Meaning[term][FALSE]
  <2>4. AsMeant(new, t, << >>)
    BY <2>1, <2>2, <2>3, ObjectsAreMeant
  <2>5. new.dtype = t /\ t \in Datatypes
    <3>1. t \in Datatypes
      BY <2>3, MeaningType
    <3> HIDE DEF new, t
    <3> QED BY <2>4, <3>1 DEF AsMeant
  <2>6. dtype' # NullType
    BY <2>1, <2>5, NullIsNone
  <2> QED BY <2>1, <2>6 DEF ObjectOfRecord
<1>4. ASSUME cxx' = NoObject PROVE ObjectOfRecord'
  BY <1>4 DEF ObjectOfRecord
<1>5. ASSUME UNCHANGED recordVars, UNCHANGED cxx PROVE ObjectOfRecord'
  BY <1>1, <1>5 DEF ObjectOfRecord, recordVars
<1>6. (\E g \in Terms : PrepareData(g)) \/ ChangeData \/ FreeData \/ UNCHANGED cxxVars => UNCHANGED recordVars
  BY DEF PrepareData, ChangeData, FreeData, cxxVars, vars
<1>7. UNCHANGED cxxVars => UNCHANGED cxx
  BY DEF cxxVars
<1>8. ObjectOfRecord'
  BY <1>3, <1>4, <1>5, <1>6, <1>7 DEF CxxNext
<1> QED BY <1>2, <1>8 DEF CxxKeptInv

\* A tool that goes through the value of a C++ object finds the elements the object had,
\* each in its place, however deep vectors, maps and tuples are nested.
THEOREM CxxObjectsReadBack ==
    ASSUME AllRectangular, AllTuplesLast, AllGapless, NarrowLow
    PROVE  CxxSpec => []CxxReadBack
<1>1. CxxInit => CxxKeptInv
  BY ParsedInvInit DEF CxxInit, Init, CxxKeptInv, KeptInv, ValueKept, ObjectOfRecord
<1>2. CxxKeptInv /\ [CxxNext]_cxxVars => CxxKeptInv'
  BY CxxObjectNext
<1>3. CxxKeptInv => CxxReadBack
  <2> SUFFICES ASSUME CxxKeptInv, cxx # NoObject
               PROVE  Seen[dtype][value] = LeavesOf[cxx.type][cxx.elems]
    BY DEF CxxReadBack
  <2>1. KeptInv /\ cxx \in CxxObjects /\ dtype # NullType /\ of = TermOf[cxx.type][cxx.elems]
    BY DEF CxxKeptInv, ObjectOfRecord
  <2>2. Seen[dtype][value] = Promised[Meaning[of][FALSE]][FALSE]
    BY <2>1, KeptReadsBack DEF ReadBack
  <2>3. of \in AllTerms
    BY <2>1, ValueAssumption DEF KeptInv, ParsedInv, ValueInv, RecordOK
  <2>4. cxx.type \in AllTerms /\ Static[cxx.type] /\ cxx.elems \in Elements /\ Rectangular[cxx.type][cxx.elems]
    BY <2>1, ObjectsAssumption DEF AllRectangular
  <2>5. LeavesMeant(cxx.type, cxx.elems)
    BY <2>1, <2>3, <2>4, ObjectLeaves
  <2> QED BY <2>1, <2>2, <2>5 DEF LeavesMeant
<1> QED BY <1>1, <1>2, <1>3, PTL DEF CxxSpec

-----------------------------------------------------------------------------
\* What a tool in Python gets of a value, and the kinds of datatypes there are in one.
Conversions == INSTANCE Nesting WITH
    MaxDepth <- MaxLength, Over <- TypesOver, Parts <- Subtypes, Step <- ConvertFrom
KindSets == INSTANCE Nesting WITH
    MaxDepth <- MaxLength, Over <- TypesOver, Parts <- Subtypes, Step <- KindsFrom

LEMMA ConvertParts ==
    ASSUME NEW t \in Datatypes
    PROVE  convert_adiak_value_to_python[t]
               = ConvertFrom(t, [i \in DOMAIN t.subtype |-> convert_adiak_value_to_python[t.subtype[i]]])
<1>1. Conversions!Nested /\ Conversions!All = Datatypes
  BY TypesNested DEF Conversions!Nested, Types!Nested, Conversions!All, Conversions!UpTo, Datatypes, TypesUpTo
<1>2. Conversions!Result = convert_adiak_value_to_python
  BY <1>1 DEF Conversions!Result, Conversions!Computes, convert_adiak_value_to_python, Subtypes
<1>3. Conversions!Computes(convert_adiak_value_to_python, Datatypes)
  BY <1>1, <1>2, Conversions!NestingRecursion
<1> QED BY <1>3 DEF Conversions!Computes, Subtypes

LEMMA KindsParts ==
    ASSUME NEW t \in Datatypes
    PROVE  Kinds[t] = KindsFrom(t, [i \in DOMAIN t.subtype |-> Kinds[t.subtype[i]]])
<1>1. KindSets!Nested /\ KindSets!All = Datatypes
  BY TypesNested DEF KindSets!Nested, Types!Nested, KindSets!All, KindSets!UpTo, Datatypes, TypesUpTo
<1>2. KindSets!Result = Kinds
  BY <1>1 DEF KindSets!Result, KindSets!Computes, Kinds, Subtypes
<1>3. KindSets!Computes(Kinds, Datatypes)
  BY <1>1, <1>2, KindSets!NestingRecursion
<1> QED BY <1>3 DEF KindSets!Computes, Subtypes

LEMMA KindsInside ==
    ASSUME NEW t \in Datatypes
    PROVE  t.dtype \in Kinds[t] /\ \A j \in DOMAIN t.subtype : Kinds[t.subtype[j]] \subseteq Kinds[t]
<1> DEFINE kinds == [i \in DOMAIN t.subtype |-> Kinds[t.subtype[i]]]
<1>1. Kinds[t] = KindsFrom(t, kinds)
  BY KindsParts
<1>2. t.dtype \in Kinds[t]
  <2> HIDE DEF kinds
  <2> QED BY <1>1 DEF KindsFrom
<1>3. ASSUME NEW j \in DOMAIN t.subtype PROVE Kinds[t.subtype[j]] \subseteq Kinds[t]
  <2>1. kinds[j] = Kinds[t.subtype[j]] /\ j \in DOMAIN kinds
    OBVIOUS
  <2>2. kinds[j] \in Range(kinds)
    <3> HIDE DEF kinds
    <3> QED BY <2>1 DEF Range
  <2> HIDE DEF kinds
  <2> QED BY <1>1, <2>1, <2>2 DEF KindsFrom
<1> QED BY <1>2, <1>3

\* Element i of a value as a Python object.
ElementObject(t, v, i) == convert_adiak_value_to_python[Element(t, i)][SubValue(t, v, i)]
Throws(t, v) == Raises(t) \/ \E i \in 1..Count(t) : ElementObject(t, v, i) = Raised

LEMMA ConversionOf ==
    ASSUME NEW t \in Datatypes, NEW v \in Values
    PROVE  /\ t.dtype \notin ContainerTypes =>
                 convert_adiak_value_to_python[t][v] = {LeafOf(t, v, CastNumber(t, v.number))}
           /\ t.dtype \in ContainerTypes /\ Throws(t, v) => convert_adiak_value_to_python[t][v] = Raised
           /\ t.dtype \in ContainerTypes /\ ~Throws(t, v) =>
                 convert_adiak_value_to_python[t][v]
                     = UNION {LeavesInside(i, ElementObject(t, v, i)) : i \in 1..Count(t)}
<1> DEFINE converts == [i \in DOMAIN t.subtype |-> convert_adiak_value_to_python[t.subtype[i]]]
           n == Count(t)
           elements == [i \in 1..n |-> converts[Subtype(t, i)][SubValue(t, v, i)]]
<1>1. convert_adiak_value_to_python[t][v] = ConvertFrom(t, converts)[v]
  BY ConvertParts
<1> HIDE DEF converts
<1>2. t.dtype \notin ContainerTypes =>
         ConvertFrom(t, converts)[v] = {LeafOf(t, v, CastNumber(t, v.number))}
  BY DEF ConvertFrom
<1>3. t.dtype \in ContainerTypes =>
         ConvertFrom(t, converts)[v]
             = IF Raises(t) \/ Raised \in Range(elements) THEN Raised
               ELSE UNION {LeavesInside(i, elements[i]) : i \in DOMAIN elements}
  BY DEF ConvertFrom
<1>4. ASSUME t.dtype \in ContainerTypes, NEW i \in 1..n PROVE elements[i] = ElementObject(t, v, i)
  <2>1. Index(t, i) \in DOMAIN t.subtype /\ Subtype(t, i) = Index(t, i)
    BY <1>4, ElementSubtype DEF Subtype, Index
  <2>2. converts[Subtype(t, i)] = convert_adiak_value_to_python[Element(t, i)]
    BY <2>1 DEF converts, Element
  <2> QED BY <2>2 DEF ElementObject
<1>5. DOMAIN elements = 1..n
  OBVIOUS
<1> HIDE DEF elements
<1>6. ASSUME t.dtype \in ContainerTypes
      PROVE  Raised \in Range(elements) <=> \E i \in 1..n : ElementObject(t, v, i) = Raised
  <2>1. Raised \in Range(elements) <=> \E i \in 1..n : elements[i] = Raised
    BY <1>5 DEF Range
  <2> QED BY <1>4, <1>6, <2>1
<1>7. ASSUME t.dtype \in ContainerTypes
      PROVE  UNION {LeavesInside(i, elements[i]) : i \in DOMAIN elements}
                 = UNION {LeavesInside(i, ElementObject(t, v, i)) : i \in 1..n}
  BY <1>4, <1>5, <1>7
<1> QED BY <1>1, <1>2, <1>3, <1>6, <1>7 DEF Throws

\* Only ranges, and sets of what does not compare or hash, raise an exception by themselves.
LEMMA RaisingTypes ==
    ASSUME NEW t \in Datatypes, t.dtype \in ContainerTypes, Raises(t)
    PROVE  t.dtype \in {"range", "set"}
<1>1. Len(t.subtype) = Arity(t)
  BY DatatypeFields
<1>2. t.dtype = "list" => Len(t.subtype) = 1
  BY <1>1 DEF Arity
<1>3. t.dtype = "tuple" => Len(t.subtype) = Count(t)
  BY <1>1 DEF Arity
<1> QED BY <1>2, <1>3 DEF Raises, ContainerTypes

\* Leaves that are elements of elements, counted from the outside.
HasPlace(leaf) ==
    \E place \in Seq(Nat) : \E path, number, version : leaf = Leaf(place, path, number, version)
HavePlaces(leaves) == \A leaf \in leaves : HasPlace(leaf)

LEMMA InsideHasPlace ==
    ASSUME NEW leaf, HasPlace(leaf), NEW i \in Nat
    PROVE  HasPlace(AtPlace(i, leaf))
<1>1. PICK place \in Seq(Nat) : \E path, number, version : leaf = Leaf(place, path, number, version)
  BY DEF HasPlace
<1>2. PICK path, number, version : leaf = Leaf(place, path, number, version)
  BY <1>1
<1> DEFINE deeper == <<i>> \o place
<1>3. deeper \in Seq(Nat)
  OBVIOUS
<1>4. AtPlace(i, leaf) = Leaf(deeper, path, number, version)
  BY <1>2, PlaceOfLeaf
<1> HIDE DEF deeper
<1> QED BY <1>3, <1>4 DEF HasPlace

LEMMA InsideHavePlaces ==
    ASSUME NEW leaves, HavePlaces(leaves), NEW i \in Nat
    PROVE  HavePlaces(LeavesInside(i, leaves))
BY InsideHasPlace, PlaceOfLeaves DEF HavePlaces

\* An exception is not mistaken for a value.
LEMMA RaisedIsNoValue ==
    ASSUME NEW leaves, HavePlaces(leaves)
    PROVE  leaves # Raised
<1> SUFFICES ASSUME leaves = Raised PROVE FALSE
  OBVIOUS
<1> DEFINE out == <<-1>>
           raised == Leaf(out, << >>, 0, 0)
<1>1. HasPlace(raised)
  BY DEF HavePlaces, Raised
<1>2. PICK place \in Seq(Nat) : \E path, number, version : raised = Leaf(place, path, number, version)
  BY <1>1 DEF HasPlace
<1>3. PICK path, number, version : raised = Leaf(place, path, number, version)
  BY <1>2
<1>4. raised.place = out
  <2> HIDE DEF out
  <2> QED BY DEF Leaf
<1>5. raised.place = place
  <2> HIDE DEF raised
  <2> QED BY <1>3 DEF Leaf
<1>6. out \in Seq(Nat)
  BY <1>2, <1>4, <1>5
<1>7. out[1] \in Nat
  <2>1. Len(out) = 1 /\ 1 \in 1..1
    OBVIOUS
  <2> HIDE DEF out
  <2>2. out \in [1..Len(out) -> Nat]
    BY <1>6
  <2> QED BY <2>1, <2>2
<1> QED BY <1>7

\* Python and C get the same of a value without references to containers.
Agree(t, v) ==
    /\ HavePlaces(Seen[t][v])
    /\ \/ convert_adiak_value_to_python[t][v] = Seen[t][v]
       \/ convert_adiak_value_to_python[t][v] = Raised /\ Kinds[t] \cap {"range", "set"} # {}

LEMMA ScalarAgrees ==
    ASSUME NEW t \in Datatypes, t.dtype \notin ContainerTypes, t.dtype # "ulonglong", NEW v \in Values
    PROVE  Agree(t, v)
<1> DEFINE none == << >>
           version == IF t.dtype \in PointerTypes /\ ~v.own THEN targets ELSE v.version
           number == DocumentedNumber(t, v.number)
<1>1. Seen[t][v] = {Leaf(none, v.path, number, version)}
  BY SeenOf
<1>2. none \in Seq(Nat)
  OBVIOUS
<1>3. CastNumber(t, v.number) = number
  BY DEF CastNumber, DocumentedNumber, UnsignedTypes
<1>4. convert_adiak_value_to_python[t][v] = {Leaf(none, v.path, number, version)}
  <2>1. convert_adiak_value_to_python[t][v] = {LeafOf(t, v, number)}
    BY <1>3, ConversionOf
  <2> HIDE DEF number
  <2>2. LeafOf(t, v, number) = Leaf(none, v.path, number, version)
    BY DEF LeafOf
  <2> QED BY <2>1, <2>2
<1> HIDE DEF none, version, number
<1>5. HavePlaces(Seen[t][v])
  BY <1>1, <1>2 DEF HavePlaces, HasPlace
<1> QED BY <1>1, <1>4, <1>5 DEF Agree

LEMMA ContainerAgrees ==
    ASSUME NEW t \in Datatypes, t.dtype \in ContainerTypes, ~t.is_reference, NEW v \in Values,
           \A i \in 1..Count(t) : \A part \in Values : Agree(Element(t, i), part)
    PROVE  Agree(t, v)
<1> DEFINE n == Count(t)
           A(i) == LeavesInside(i, ElementObject(t, v, i))
           B(i) == LeavesInside(i, Seen[Element(t, i)][adiak_get_subval(t, v, i)])
<1>1. ASSUME NEW i \in 1..n
      PROVE  /\ Index(t, i) \in DOMAIN t.subtype /\ Element(t, i) = t.subtype[Index(t, i)]
             /\ HavePlaces(Seen[Element(t, i)][adiak_get_subval(t, v, i)])
             /\ \/ ElementObject(t, v, i) = Seen[Element(t, i)][adiak_get_subval(t, v, i)]
                \/ ElementObject(t, v, i) = Raised /\ Kinds[Element(t, i)] \cap {"range", "set"} # {}
  <2>1. Sub(v, i) \in Values
    BY SubIsValue
  <2>2. SubValue(t, v, i) = Sub(v, i)
    BY DEF SubValue
  <2>3. adiak_get_subval(t, v, i) = Sub(v, i)
    BY DEF adiak_get_subval
  <2>4. Agree(Element(t, i), Sub(v, i))
    BY <2>1
  <2> QED BY <2>2, <2>3, <2>4, ElementSubtype DEF Agree, ElementObject, Element
<1>2. Seen[t][v] = UNION {B(i) : i \in 1..n}
  BY SeenOf
<1>3. HavePlaces(Seen[t][v])
  <2>1. ASSUME NEW i \in 1..n PROVE HavePlaces(B(i))
    <3>1. i \in Nat
      BY DatatypeFields DEF Count
    <3> QED BY <1>1, <3>1, InsideHavePlaces
  <2> HIDE DEF B
  <2> QED BY <1>2, <2>1 DEF HavePlaces
<1>4. ASSUME Throws(t, v)
      PROVE  convert_adiak_value_to_python[t][v] = Raised /\ Kinds[t] \cap {"range", "set"} # {}
  <2>1. convert_adiak_value_to_python[t][v] = Raised
    BY <1>4, ConversionOf
  <2>2. CASE Raises(t)
    BY <2>1, <2>2, RaisingTypes, KindsInside
  <2>3. CASE \E i \in 1..n : ElementObject(t, v, i) = Raised
    <3>1. PICK i \in 1..n : ElementObject(t, v, i) = Raised
      BY <2>3
    <3>2. Seen[Element(t, i)][adiak_get_subval(t, v, i)] # Raised
      BY <1>1, RaisedIsNoValue
    <3>3. Kinds[Element(t, i)] \cap {"range", "set"} # {}
      BY <1>1, <3>1, <3>2
    <3>4. Kinds[Element(t, i)] \subseteq Kinds[t]
      BY <1>1, KindsInside
    <3> QED BY <2>1, <3>3, <3>4
  <2> QED BY <1>4, <2>2, <2>3 DEF Throws
<1>5. ASSUME ~Throws(t, v)
      PROVE  convert_adiak_value_to_python[t][v] = Seen[t][v]
  <2>1. convert_adiak_value_to_python[t][v] = UNION {A(i) : i \in 1..n}
    BY <1>5, ConversionOf
  <2>2. ASSUME NEW i \in 1..n PROVE A(i) = B(i)
    <3>1. ElementObject(t, v, i) # Raised
      BY <1>5 DEF Throws
    <3> QED BY <1>1, <3>1
  <2> HIDE DEF A, B
  <2> QED BY <1>2, <2>1, <2>2
<1> QED BY <1>3, <1>4, <1>5 DEF Agree

LEMMA AllAgree ==
    ASSUME NEW t \in Datatypes, ~HasReference(t, ContainerTypes), "ulonglong" \notin Kinds[t],
           NEW v \in Values
    PROVE  Agree(t, v)
<1> DEFINE S == {u \in Datatypes : ~HasReference(u, ContainerTypes) /\ "ulonglong" \notin Kinds[u]
                                     => \A w \in Values : Agree(u, w)}
<1>1. ASSUME NEW u \in Datatypes, \A i \in DOMAIN u.subtype : u.subtype[i] \in S,
             ~HasReference(u, ContainerTypes), "ulonglong" \notin Kinds[u], NEW w \in Values
      PROVE  Agree(u, w)
  <2>1. CASE u.dtype \notin ContainerTypes
    <3>1. u.dtype # "ulonglong"
      BY <1>1, KindsInside
    <3> QED BY <2>1, <3>1, ScalarAgrees
  <2>2. CASE u.dtype \in ContainerTypes
    <3>1. ~u.is_reference
      BY <1>1, <2>2, ReferencesInside
    <3>2. ASSUME NEW i \in 1..Count(u) PROVE \A part \in Values : Agree(Element(u, i), part)
      <4>1. Index(u, i) \in DOMAIN u.subtype
        BY <2>2, ElementSubtype
      <4>2. ~HasReference(u.subtype[Index(u, i)], ContainerTypes)
        BY <1>1, <4>1, ReferencesInside
      <4>3. "ulonglong" \notin Kinds[u.subtype[Index(u, i)]]
        BY <1>1, <4>1, KindsInside
      <4> QED BY <1>1, <4>1, <4>2, <4>3 DEF Element
    <3> QED BY <2>2, <3>1, <3>2, ContainerAgrees
  <2> QED BY <2>1, <2>2
<1>2. Datatypes \subseteq S
  <2>1. ASSUME NEW u \in Datatypes, \A i \in DOMAIN u.subtype : u.subtype[i] \in S PROVE u \in S
    BY <1>1, <2>1
  <2> HIDE DEF S
  <2> QED BY <2>1, TypeInduction
<1> QED BY <1>2

\* A tool in Python gets what a tool in C finds, for values of any depth whose containers
\* are all copies and whose numbers are no unsigned long longs, or an exception where there
\* is a range or a set.
THEOREM PythonReadsTheSame ==
    ASSUME AllRectangular, AllTuplesLast, AllGapless, NarrowLow
    PROVE  CxxSpec => []PythonAgrees
<1>1. KeptInv => PythonAgrees
  <2> SUFFICES ASSUME KeptInv, dtype # NullType, ~HasReference(dtype, ContainerTypes),
                      "ulonglong" \notin Kinds[dtype]
               PROVE  \/ convert_adiak_value_to_python[dtype][value] = Seen[dtype][value]
                      \/ /\ convert_adiak_value_to_python[dtype][value] = Raised
                         /\ Kinds[dtype] \cap {"range", "set"} # {}
    BY DEF PythonAgrees, ConvertsAsSeen
  <2>1. /\ dtype \in Datatypes /\ since[1] \in Nat /\ since[2] \in Nat
        /\ value = Kept[dtype][ObjectData(since[1], since[2])]
    BY DEF KeptInv, ParsedInv, ValueInv, RecordOK, ValueKept
  <2> DEFINE data == ObjectData(since[1], since[2])
  <2>2. data \in AllData
    BY <2>1, ObjectDataType
  <2> HIDE DEF data
  <2>3. value \in Values
    BY <2>1, <2>2, KeptType DEF data
  <2> QED BY <2>1, <2>3, AllAgree DEF Agree
<1> QED BY <1>1, CxxKeptAlways, PTL
================================================================================
