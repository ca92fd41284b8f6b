------------------------------ MODULE AdiakValue ------------------------------
(***************************************************************************)
(* The life of a value in Adiak: adiak_namevalue parses its type, copies   *)
(* or references the application's data (copy_value), tools read it        *)
(* element by element (adiak_get_subval), and it is released when its name *)
(* is registered again or Adiak is cleaned (free_adiak_value), all in      *)
(* src/src/adiak.c.  There is one name.                                    *)
(*                                                                         *)
(* The application's data are the C object of the term it registers, the   *)
(* cells of the object's memory, and what the pointers among them lead to. *)
(* A cell or target is known by its path in the object.  The application   *)
(* may change or free either part when the documentation lets it; their    *)
(* versions are counted.                                                   *)
(***************************************************************************)
EXTENDS TypeGrammar

CONSTANTS
    Terms,             \* the terms the application registers
    LaterTerms,        \* those it registers after the first one
    UnsignedHigh,      \* the sizes, in bytes, of unsigned integers whose top bit is set
    IntMax,            \* the greatest int and the greatest long, scaled down
    LongMax,
    MaxVersion,        \* bound on the versions of the application's data
    MaxRegistrations   \* bound on the registrations of one behaviour

ASSUME ValueAssumption ==
    /\ Terms \subseteq AllTerms /\ LaterTerms \subseteq Terms
    /\ \A g \in Terms : Len(Written[g]) <= MaxLength
    /\ UnsignedHigh \subseteq {1, 2, 4, 8}
    /\ IntMax \in Nat /\ LongMax \in Nat /\ 65535 <= IntMax /\ IntMax <= LongMax
    /\ MaxVersion \in Nat \ {0} /\ MaxRegistrations \in Nat

VARIABLES
    term,        \* the term whose data the application has
    object,      \* the version of the C object, 0 once it is freed
    targets,     \* the version of what its pointers lead to, 0 once they are freed
    registered,  \* the number of registrations
    dtype,       \* the datatype of the record, NullType if there is none
    value,       \* the value of the record
    of,          \* the term that was registered, and the versions of its data then
    since,
    heap         \* the blocks that Adiak has allocated for values

appVars == <<term, object, targets>>
recordVars == <<registered, dtype, value, of, since, heap>>
vars == <<appVars, recordVars>>

NoTerm == ScalarTerm("none", FALSE)

-----------------------------------------------------------------------------
\* The application's memory.

SignedTypes == {"int", "long", "longlong", "date"}
UnsignedTypes == {"uint", "ulong", "ulonglong"}

\* Half of the numbers that fit in so many bytes, and the number whose bits are
\* those of another one, read as signed and as unsigned.
Half(bytes) ==
    CASE bytes = 1 -> 128 [] bytes = 2 -> 32768 [] bytes = 4 -> IntMax + 1 [] OTHER -> LongMax + 1
Signed(number, bytes) == IF number >= Half(bytes) THEN number - 2 * Half(bytes) ELSE number
Unsigned(number, bytes) == IF number < 0 THEN number + 2 * Half(bytes) ELSE number

\* The bits of a leaf, as an unsigned number: small signed integers are negative,
\* unsigned ones have their top bit set if the instance says so.
Bits(t) ==
    IF \/ t.dtype = "int" /\ t.num_bytes <= 2
       \/ t.dtype \in UnsignedTypes /\ t.num_bytes \in UnsignedHigh
    THEN 2 * Half(t.num_bytes) - 56
    ELSE 100

Cell(at, size, path, bits) == [at |-> at, size |-> size, path |-> path, bits |-> bits]

\* The cells of the C object of datatype t that begins at address at.
CellsFrom(t, cells) ==
    [at \in Nat |->
        IF t.dtype \in ContainerTypes
        THEN UNION {{[c EXCEPT !.path = <<i>> \o @] : c \in cells[Index(t, i)][at + COffset(t, i)]} :
                    i \in 1..Count(t)}
        ELSE {Cell(at, t.num_bytes, << >>, Bits(t))}]
CellsOf[t \in Datatypes] == CellsFrom(t, [i \in DOMAIN t.subtype |-> CellsOf[t.subtype[i]]])

Memory == CellsOf[Meaning[term][FALSE]][0]

\* What is between the cells.
Garbage(at) == Cell(at, 0, <<-1>>, 0)

Load(at, size) ==
    LET found == {c \in Memory : c.at = at /\ c.size = size}
    IN  IF found = {} THEN Garbage(at) ELSE CHOOSE c \in found : TRUE

-----------------------------------------------------------------------------
\* adiak_value_t: the number in v_int, v_long or v_double; or the target of a
\* pointer, or the application's address of a container; or the v_subval array.
\* own marks a block that Adiak allocated, and version that of the data copied.
Value(number, path, at, own, version, subs) ==
    [number |-> number, path |-> path, at |-> at, own |-> own, version |-> version, subs |-> subs]

Numeric(cell, number) == Value(number, cell.path, 0, FALSE, object, << >>)
Pointer(cell, own) == Value(0, cell.path, 0, own, targets, << >>)
Reference(at) == Value(0, << >>, at, FALSE, 0, << >>)
Array(subs) == Value(0, << >>, 0, TRUE, 0, subs)

\* *((int8_t *) ptr), *((int16_t *) ptr), *((int *) ptr), *((long *) ptr): for signed
\* and unsigned integers alike.
SignExtended(t, bits) ==
    IF t.dtype \in SignedTypes \cup UnsignedTypes THEN Signed(bits, t.num_bytes) ELSE bits

\* Mutant: the elements of a tuple lie as far apart as its first is long.
SizeFromFirst(t, sizes) ==
    IF t.dtype \in ContainerTypes THEN Count(t) * sizes[1] ELSE t.num_bytes

SizeFrom(t, sizes) ==
    LET sum[i \in 0..Len(sizes)] == IF i = 0 THEN 0 ELSE sum[i - 1] + sizes[i]
    IN  CASE t.dtype \in ContainerTypes \ {"tuple"} -> Count(t) * sizes[1]
          [] t.dtype = "tuple" -> sum[Len(sizes)]
          [] OTHER -> t.num_bytes
calc_size[t \in Datatypes] == SizeFrom(t, [i \in DOMAIN t.subtype |-> calc_size[t.subtype[i]]])

\* Places in an element i, as places in the container.
Inside(i, places) == {<<i>> \o place : place \in places}

\* What copy_value leaves: the value, the number of bytes read, and the places in
\* the value whose blocks it has allocated.
Copied(copied, bytes, blocks) == [value |-> copied, bytes |-> bytes, blocks |-> blocks]

\* The value copied from the application's address at.
CopyFrom(t, copies) ==
    [at \in Nat |->
        LET cell == Load(at, t.num_bytes)
            upTo[i \in 0..t.num_elements] ==
                IF i = 0 THEN [subs |-> << >>, bytes |-> 0, blocks |-> {<< >>}]
                ELSE LET before == upTo[i - 1]
                         one == copies[Index(t, i)][at + before.bytes]
                     IN  [subs |-> Append(before.subs, one.value),
                          bytes |-> before.bytes + one.bytes,
                          blocks |-> before.blocks \cup Inside(i, one.blocks)]
            all == upTo[t.num_elements]
        IN  CASE t.dtype \in PointerTypes ->
                    Copied(Pointer(cell, ~t.is_reference), 8, IF t.is_reference THEN {} ELSE {<< >>})
              [] t.dtype \in ContainerTypes /\ t.is_reference -> Copied(Reference(at), calc_size[t], {})
              [] t.dtype \in ContainerTypes /\ ~t.is_reference -> Copied(Array(all.subs), all.bytes, all.blocks)
              [] OTHER -> Copied(Numeric(cell, SignExtended(t, cell.bits)), t.num_bytes, {})]
copy_value[t \in Datatypes] == CopyFrom(t, [i \in DOMAIN t.subtype |-> copy_value[t.subtype[i]]])

\* An element of a v_subval array, or what lies behind its end.
Sub(v, i) == IF i \in DOMAIN v.subs THEN v.subs[i] ELSE Reference(-1)

\* Mutant: the strings of a container are not freed.
FreedWithoutElements(t, freed) ==
    IF t.is_reference THEN {} ELSE IF t.dtype \in PointerTypes \cup ContainerTypes THEN {<< >>} ELSE {}

\* The places in a value whose blocks free_adiak_value_worker frees.
FreedFrom(t, freed) ==
    CASE t.is_reference -> {}
      [] ~t.is_reference /\ t.dtype \in PointerTypes -> {<< >>}
      [] ~t.is_reference /\ t.dtype \in ContainerTypes ->
            {<< >>} \cup UNION {Inside(i, freed[Index(t, i)]) : i \in 1..t.num_elements}
      [] OTHER -> {}
free_adiak_value_worker[t \in Datatypes] ==
    FreedFrom(t, [i \in DOMAIN t.subtype |-> free_adiak_value_worker[t.subtype[i]]])

\* A block of registration k, the adiak_value_t itself in place <<0>>; free_adiak_value
\* frees that as well.
Blocks(k, paths) == {<<k, <<0>>>>} \cup {<<k, path>> : path \in paths}
OldBlocks ==
    IF dtype = NullType THEN {} ELSE Blocks(registered, free_adiak_value_worker[dtype])

-----------------------------------------------------------------------------
\* What tools see.

\* adiak_get_subval of element elem, counted from 1, which exists.
adiak_get_subval(t, v, elem) ==
    LET at == IF t.dtype = "tuple"
              THEN LET sum[i \in 0..(elem - 1)] ==
                           IF i = 0 THEN 0 ELSE sum[i - 1] + calc_size[t.subtype[i]]
                   IN  v.at + sum[elem - 1]
              ELSE v.at + (elem - 1) * calc_size[t.subtype[1]]
        sub == Element(t, elem)
        cell == Load(at, sub.num_bytes)
    IN  IF ~t.is_reference THEN Sub(v, elem)
        ELSE CASE sub.dtype \in ContainerTypes -> Reference(at)
               [] sub.dtype \in PointerTypes -> Pointer(cell, FALSE)
               [] OTHER -> Numeric(cell, SignExtended(sub, cell.bits))

\* A leaf as a tool sees it: what a pointer leads to is as old as the copy, or
\* as the application's data now.
Leaf(place, path, number, version) ==
    [place |-> place, path |-> path, number |-> number, version |-> version]

\* The values whose parts are in S.
ValuesOver(S) ==
    [number : Int, path : Seq(Int), at : Int, own : BOOLEAN, version : Nat, subs : Seq(S)]
ValuesUpTo[depth \in 0..MaxLength] ==
    ValuesOver(IF depth = 0 THEN {} ELSE ValuesUpTo[depth - 1])
Values == ValuesUpTo[MaxLength]

\* Leaves of element i, by their place in the container.
LeavesInside(i, leaves) == {[leaf EXCEPT !.place = <<i>> \o @] : leaf \in leaves}

\* v_int and v_long.
FieldBytes(t) == IF t.dtype \in {"int", "uint"} THEN 4 ELSE 8

\* What a tool gets that reads a value as adiak.h says: unsigned integers are cast.
DocumentedNumber(t, number) ==
    IF t.dtype \in UnsignedTypes THEN Unsigned(number, FieldBytes(t)) ELSE number

\* The leaf that a scalar value is, with its number as the tool takes it.
LeafOf(t, v, number) ==
    Leaf(<< >>, v.path, number, IF t.dtype \in PointerTypes /\ ~v.own THEN targets ELSE v.version)

\* The leaves found by going through adiak_get_subval, by their place.
SeenFrom(t, seen) ==
    [v \in Values |->
        IF t.dtype \in ContainerTypes
        THEN UNION {LeavesInside(i, seen[Index(t, i)][adiak_get_subval(t, v, i)]) : i \in 1..Count(t)}
        ELSE {LeafOf(t, v, DocumentedNumber(t, v.number))}]
Seen[t \in Datatypes] == SeenFrom(t, [i \in DOMAIN t.subtype |-> Seen[t.subtype[i]]])

-----------------------------------------------------------------------------
\* The number that the application's variable holds.
TypedNumber(t) == IF t.dtype \in SignedTypes THEN Signed(Bits(t), t.num_bytes) ELSE Bits(t)

\* That number as an argument of its type is taken into v_int or v_long.
Field(t) ==
    IF t.dtype \in SignedTypes \cup UnsignedTypes THEN Signed(TypedNumber(t), FieldBytes(t))
    ELSE TypedNumber(t)

NoValue == Reference(0)

\* Mutant: containers are kept as the application's pointer, copies too.
NewValueUncopied(t) ==
    IF t.dtype \in ContainerTypes THEN Copied(Reference(0), 0, {})
    ELSE IF t.dtype \in PointerTypes
    THEN Copied(Pointer(Load(0, 8), ~t.is_reference), 8, IF t.is_reference THEN {} ELSE {<< >>})
    ELSE Copied(Value(Field(t), << >>, 0, FALSE, object, << >>), t.num_bytes, {})

\* The value that adiak_namevalue makes for a datatype: scalars are passed as they
\* are, a timeval is always copied.
NewValue(t) ==
    CASE t.dtype \in ContainerTypes -> copy_value[t][0]
      [] t.dtype \in PointerTypes ->
            Copied(Pointer(Load(0, 8), ~t.is_reference), 8, IF t.is_reference THEN {} ELSE {<< >>})
      [] OTHER -> Copied(Value(Field(t), << >>, 0, FALSE, object, << >>), t.num_bytes, {})

Init ==
    /\ term = NoTerm /\ object = 0 /\ targets = 0
    /\ registered = 0 /\ dtype = NullType /\ value = NoValue
    /\ of = NoTerm /\ since = <<0, 0>>
    /\ heap = {}

\* adiak_namevalue with the application's data and their type string; the value it
\* replaces is released by record_nameval.  A type that does not parse is an
\* error, which changes nothing.
adiak_namevalue(stray) ==
    /\ object # 0 /\ targets # 0 /\ registered < MaxRegistrations
    /\ LET t == parse_typestr(Written[term], Dimensions[term], stray)
           new == NewValue(t)
       IN  /\ toplevel_type(Written[term]) # "unset" /\ t # NullType
           /\ registered' = registered + 1
           /\ dtype' = t /\ value' = new.value
           /\ of' = term /\ since' = <<object, targets>>
           /\ heap' = (heap \cup Blocks(registered + 1, new.blocks)) \ OldBlocks
    /\ UNCHANGED appVars

\* The part of adiak_clean that releases the record.
adiak_clean ==
    /\ dtype # NullType
    /\ heap' = heap \ OldBlocks
    /\ dtype' = NullType /\ value' = NoValue
    /\ UNCHANGED <<appVars, registered, of, since>>

-----------------------------------------------------------------------------
\* The application.  "Any objects stored as references must be retained in memory"
\* (ApplicationAPI.rst): the C object if a container is stored as a reference, what
\* its pointers lead to if that or a string is.
ReferencesFrom(t, references) ==
    (IF t.is_reference THEN {t.dtype} ELSE {}) \cup UNION Range(references)
References[t \in Datatypes] ==
    ReferencesFrom(t, [i \in DOMAIN t.subtype |-> References[t.subtype[i]]])
HasReference(t, dtypes) == References[t] \cap dtypes # {}

ObjectRetained == dtype # NullType /\ HasReference(Meaning[of][FALSE], ContainerTypes)
TargetsRetained == dtype # NullType /\ HasReference(Meaning[of][FALSE], ContainerTypes \cup StringTypes)

PrepareData(g) ==
    /\ object = 0 /\ targets = 0
    /\ term # g /\ (registered > 0 => g \in LaterTerms)
    /\ term' = g /\ object' = 1 /\ targets' = 1
    /\ UNCHANGED recordVars

\* Changing data that were never registered makes no difference.
ChangeData ==
    /\ registered > 0
    /\ \/ object \in 1..(MaxVersion - 1) /\ object' = object + 1 /\ UNCHANGED targets
       \/ targets \in 1..(MaxVersion - 1) /\ targets' = targets + 1 /\ UNCHANGED object
    /\ UNCHANGED <<term, recordVars>>

FreeData ==
    /\ \/ object # 0 /\ ~ObjectRetained /\ object' = 0 /\ UNCHANGED targets
       \/ targets # 0 /\ ~TargetsRetained /\ targets' = 0 /\ UNCHANGED object
    /\ UNCHANGED <<term, recordVars>>

Next ==
    \/ \E stray \in 0..1 : adiak_namevalue(stray)
    \/ adiak_clean
    \/ \E g \in Terms : PrepareData(g)
    \/ ChangeData
    \/ FreeData

Spec == Init /\ [][Next]_vars

-----------------------------------------------------------------------------
\* The leaves that the documentation promises a tool for a term: a copy is as old
\* as the registration, a reference as new as the application's data.
PromisedFrom(t, promised) ==
    [inside \in BOOLEAN |->
        LET reference == inside \/ t.is_reference
        IN  IF t.dtype \in ContainerTypes
            THEN UNION {{[leaf EXCEPT !.place = <<i>> \o @, !.path = <<i>> \o @] :
                            leaf \in promised[Index(t, i)][reference]} : i \in 1..Count(t)}
            ELSE {IF t.dtype \in PointerTypes
                  THEN Leaf(<< >>, << >>, 0, IF reference THEN targets ELSE since[2])
                  ELSE Leaf(<< >>, << >>, TypedNumber(t), IF reference THEN object ELSE since[1])}]
Promised[t \in Datatypes] == PromisedFrom(t, [i \in DOMAIN t.subtype |-> Promised[t.subtype[i]]])

TypeOK ==
    /\ term \in Terms \cup {NoTerm} /\ of \in Terms \cup {NoTerm}
    /\ {object, targets} \subseteq 0..MaxVersion
    /\ registered \in 0..MaxRegistrations
    /\ \A block \in heap : block[1] \in 1..registered
    /\ dtype # NullType => Len(value.subs) = (IF dtype.is_reference THEN 0 ELSE dtype.num_elements)

\* The datatype of a record is the one its type string describes: brackets, "&"
\* and dimensions are matched as written, at any depth (parse_typestr_helper).
ParsesAsWritten == dtype # NullType => dtype = Meaning[of][FALSE]

\* adiak_namevalue reads its first argument as the type that parse_typestr then
\* gives the record (two readings of one string).
TopTypeAgrees == dtype # NullType => toplevel_type(Written[of]) = dtype.dtype

\* Going through a value with adiak_get_subval, a tool finds every element in its
\* place with the data promised, whatever mix of copies and references it is and
\* whatever the application has since done with what it need not retain.
ReadBack == dtype # NullType => Seen[dtype][value] = Promised[Meaning[of][FALSE]][FALSE]

\* Adiak holds exactly the blocks that it will release with the record: copying and
\* releasing agree for every mix of copies and references, so that none is leaked,
\* and none released twice, by registering again or cleaning.
HeapIsRecord == heap = OldBlocks

\* The datatype that the short string of adiak_type_to_string describes: the string
\* does not tell references and lengths of numbers.
PlainFrom(t, plain) ==
    IF t.dtype \in DOMAIN Simple THEN base[Simple[t.dtype]]
    ELSE ContainerType(t.dtype, FALSE, Count(t), plain)
Plain[t \in Datatypes] == PlainFrom(t, [i \in DOMAIN t.subtype |-> Plain[t.subtype[i]]])

HasRangeFrom(t, ranges) == t.dtype = "range" \/ TRUE \in Range(ranges)
HasRange[t \in Datatypes] == HasRangeFrom(t, [i \in DOMAIN t.subtype |-> HasRange[t.subtype[i]]])

\* The string printed for a datatype is "in the printf-style format" (adiak_tool.h):
\* parsed again, it describes the same datatype; a range is printed without its
\* closing bracket.
StringParsesBack ==
    dtype # NullType /\ ~HasRange[dtype] =>
        parse_typestr(adiak_type_to_string[dtype], Dimensions[of], 0) = Plain[dtype]
=============================================================================
