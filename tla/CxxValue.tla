------------------------------- MODULE CxxValue -------------------------------
(***************************************************************************)
(* The C++ interface as a second way of registering: adiak::value builds a *)
(* datatype from the static type of its argument and a value from the      *)
(* argument itself (src/include/adiak.hpp, src/include/adiak_internal.hpp),*)
(* and the record is then read, replaced and released by the code that     *)
(* AdiakValue models.                                                      *)
(*                                                                         *)
(* An object has a type, a term without references whose containers have   *)
(* no sizes, and elems: the elements of a container, each with its own     *)
(* elements.  A pair of arguments is an object of type range.              *)
(***************************************************************************)
EXTENDS AdiakValue

CONSTANT CxxObjects   \* the objects that the application passes to adiak::value

VARIABLE cxx          \* the object that the record was made from, NoObject if there is none

cxxVars == <<vars, cxx>>

Object(type, elems) == [type |-> type, elems |-> elems]
NoObject == Object(NoTerm, << >>)

\* The elements of objects: sequences, nested as deep as the type is.
ElementsUpTo[depth \in 0..MaxLength] == Seq(IF depth = 0 THEN {} ELSE ElementsUpTo[depth - 1])
Elements == ElementsUpTo[MaxLength]

\* The static types: terms without references whose sets and lists have no sizes.
StaticFrom(type, static) ==
    ~type.ref /\ (type.kind \in {"set", "list"} => type.n = 0) /\ \A j \in DOMAIN static : static[j]
Static[type \in AllTerms] == StaticFrom(type, [j \in DOMAIN type.subs |-> Static[type.subs[j]]])

ASSUME ObjectsAssumption ==
    CxxObjects \subseteq [type : {type \in AllTerms : Static[type]}, elems : Elements]

\* The subtype that element j of an object has.
PartOf(type, j) == IF type.kind = "tuple" THEN j ELSE 1

\* The specifier for data promoted to the longest of their kind: there are no
\* datatypes for char, short and float.
Widened(spec) == Simple[base[spec].dtype]

\* The term that a C program would register for an object whose elements are all
\* as long as the first ones, and its numbers promoted.
TermFrom(type, terms) ==
    [elems \in Elements |->
        IF type.kind = "scalar" THEN [type EXCEPT !.spec = Widened(type.spec)]
        ELSE [type EXCEPT !.n = Len(elems),
                          !.subs = [j \in DOMAIN type.subs |->
                                        terms[j][IF elems = << >> THEN << >> ELSE elems[j]]]]]
TermOf[type \in AllTerms] == TermFrom(type, [j \in DOMAIN type.subs |-> TermOf[type.subs[j]]])

\* Objects whose elements are all as long as the first ones.
RectangularFrom(type, rectangular) ==
    [elems \in Elements |->
        type.kind # "scalar" =>
            \A j \in DOMAIN elems :
                /\ rectangular[PartOf(type, j)][elems[j]]
                /\ type.kind # "tuple" =>
                       TermOf[type.subs[1]][elems[j]] = TermOf[type.subs[1]][elems[1]]]
Rectangular[type \in AllTerms] ==
    RectangularFrom(type, [j \in DOMAIN type.subs |-> Rectangular[type.subs[j]]])

\* A range has two elements, a tuple as many as its type says, and another
\* container none until it gets its value.
MadeFrom(type, subtypes) ==
    IF type.kind = "scalar" THEN adiak_get_basetype(base[type.spec].dtype)
    ELSE ContainerType(type.kind, FALSE,
                       CASE type.kind = "range" -> 2
                         [] type.kind = "tuple" -> Len(type.subs)
                         [] OTHER -> 0,
                       subtypes)
make_type[type \in AllTerms] == MadeFrom(type, [j \in DOMAIN type.subs |-> make_type[type.subs[j]]])

\* element_type<T>::set: strings and timevals are copied.
NewLeaf(t, path) ==
    IF t.dtype \in PointerTypes THEN Value(0, path, 0, TRUE, targets, << >>)
    ELSE Value(Field(t), path, 0, FALSE, object, << >>)

\* Mutant: make_value leaves the size that make_type has written.
SizeUnset(t, elems) == t.num_elements

\* The number of elements that make_value leaves in the datatype.
SizeOf(t, elems) == IF t.dtype \in {"set", "list"} THEN Len(elems) ELSE t.num_elements

\* What make_value leaves: the value, its datatype, and the places in the value whose
\* blocks it has allocated.
Made(made, t, blocks) == [value |-> made, dtype |-> t, blocks |-> blocks]

\* The value of an object that has datatype t, and the datatype, which make_value
\* changes: a container writes its own size, and all its elements share one subtype.
ValueFrom(elems, values) ==
    [t \in Datatypes |-> [path \in Seq(Nat) |->
        LET upTo[j \in 0..Len(elems)] ==
                IF j = 0 THEN [subs |-> << >>, subtype |-> t.subtype, blocks |-> {<< >>}]
                ELSE LET before == upTo[j - 1]
                         k == Index(t, j)
                         one == values[j][before.subtype[k]][Append(path, j)]
                     IN  [subs |-> Append(before.subs, one.value),
                          subtype |-> [before.subtype EXCEPT ![k] = one.dtype],
                          blocks |-> before.blocks \cup Inside(j, one.blocks)]
            all == upTo[Len(elems)]
        IN  IF t.dtype \notin ContainerTypes
            THEN Made(NewLeaf(t, path), t, IF t.dtype \in PointerTypes THEN {<< >>} ELSE {})
            ELSE Made(Array(all.subs),
                      [t EXCEPT !.subtype = all.subtype, !.num_elements = SizeOf(t, elems)],
                      all.blocks)]]
make_value[elems \in Elements] == ValueFrom(elems, [j \in DOMAIN elems |-> make_value[elems[j]]])

CxxInit == Init /\ cxx = NoObject

\* adiak::value of an object that holds the data the application has.
adiak_value(o) ==
    /\ TermOf[o.type][o.elems] = term
    /\ object # 0 /\ targets # 0 /\ registered < MaxRegistrations
    /\ LET new == make_value[o.elems][make_type[o.type]][<< >>]
       IN  /\ dtype' = new.dtype /\ value' = new.value
           /\ heap' = (heap \cup Blocks(registered + 1, new.blocks)) \ OldBlocks
    /\ registered' = registered + 1
    /\ of' = term /\ since' = <<object, targets>> /\ cxx' = o
    /\ UNCHANGED appVars

CxxNext ==
    \/ (\E stray \in 0..1 : adiak_namevalue(stray)) /\ cxx' = NoObject
    \/ adiak_clean /\ cxx' = NoObject
    \/ \E o \in CxxObjects : adiak_value(o)
    \/ \E g \in Terms : PrepareData(g) /\ UNCHANGED cxx
    \/ ChangeData /\ UNCHANGED cxx
    \/ FreeData /\ UNCHANGED cxx

CxxSpec == CxxInit /\ [][CxxNext]_cxxVars

-----------------------------------------------------------------------------
\* The leaves of an object: all are copies, as old as the registration, and numbers
\* are those of the promoted data.
LeavesFrom(type, leaves) ==
    [elems \in Elements |->
        IF type.kind = "scalar"
        THEN {IF base[type.spec].dtype \in PointerTypes THEN Leaf(<< >>, << >>, 0, since[2])
              ELSE Leaf(<< >>, << >>, TypedNumber(base[Widened(type.spec)]), since[1])}
        ELSE UNION {{[leaf EXCEPT !.place = <<j>> \o @, !.path = <<j>> \o @] :
                        leaf \in leaves[PartOf(type, j)][elems[j]]} : j \in DOMAIN elems}]
LeavesOf[type \in AllTerms] ==
    LeavesFrom(type, [j \in DOMAIN type.subs |-> LeavesOf[type.subs[j]]])

\* "Containers can be nested and mixed" (BasicUsage.rst:188): a tool that goes
\* through the value of a C++ object finds the elements the object had, each in
\* its place (create_container_type::make_value).
CxxReadBack == cxx # NoObject => Seen[dtype][value] = LeavesOf[cxx.type][cxx.elems]

\* The numerical field of the record's datatype: make_range_t does not set it.
numerical ==
    IF cxx # NoObject /\ cxx.type.kind = "range" THEN "unset"
    ELSE adiak_numerical_from_type(dtype.dtype)

\* The table of types in adiak.h gives each its value category, by which a tool may
\* decide what to do with values it knows nothing else of: containers, ranges among
\* them, are categorical, whichever interface registered them.  make_range_t leaves the
\* field unset.
ContainersCategorical == dtype # NullType /\ dtype.dtype \in ContainerTypes => numerical = "categorical"
==============================================================================
