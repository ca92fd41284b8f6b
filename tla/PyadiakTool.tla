----------------------------- MODULE PyadiakTool ------------------------------
(***************************************************************************)
(* The values that tools written in Python get:                            *)
(* convert_adiak_value_to_python of                                        *)
(* src/src/interface/python/pyadiak_tool.cpp reads a value by itself,      *)
(* without adiak_get_subval.                                               *)
(*                                                                         *)
(* Elements of different data are different Python objects, and the order  *)
(* of a Python set is not looked at.                                       *)
(***************************************************************************)
EXTENDS CxxValue

Raised == {Leaf(<<-1>>, << >>, 0, 0)}   \* the result if an exception is thrown

\* A tuple has a subtype for each element.
Subtype(t, i) == IF t.dtype = "tuple" THEN i ELSE 1

\* The v_subval array is read also where the value is the application's address:
\* its bytes are then taken for adiak_value_t, of 8 bytes each.
SubValue(t, v, i) ==
    LET sub == t.subtype[Subtype(t, i)]
        cell == Load(v.at + 8 * (i - 1), FieldBytes(sub))
    IN  CASE ~t.is_reference -> Sub(v, i)
          [] t.is_reference /\ sub.dtype \in ContainerTypes -> Reference(-1)
          [] t.is_reference /\ sub.dtype \in PointerTypes -> Pointer(cell, FALSE)
          [] OTHER -> Numeric(cell, SignExtended(sub, cell.bits))

\* The elements of a std::set<py::object> are compared with "<", tuples by their
\* first elements that differ, and those of a Python set are hashed.
Numbers == {"long", "ulong", "longlong", "ulonglong", "int", "uint", "double"}
OrderedFrom(t, ordered) ==
    \/ t.dtype \in Numbers \cup {"string", "list", "set"}
    \/ t.dtype = "tuple" /\ (ordered = << >> \/ ordered[1])
Ordered[t \in Datatypes] == OrderedFrom(t, [i \in DOMAIN t.subtype |-> Ordered[t.subtype[i]]])
HashableFrom(t, hashable) == t.dtype \notin {"list", "set"} /\ FALSE \notin Range(hashable)
Hashable[t \in Datatypes] == HashableFrom(t, [i \in DOMAIN t.subtype |-> Hashable[t.subtype[i]]])

\* A range is asked for two subtypes, other containers for one, a tuple for as many
\* as it has elements.
Raises(t) ==
    \/ t.dtype = "range" /\ Len(t.subtype) # 2
    \/ t.dtype \in {"set", "list"} /\ Len(t.subtype) # 1
    \/ t.dtype = "tuple" /\ Len(t.subtype) # Count(t)
    \/ t.dtype = "set" /\ Count(t) > 0 /\ ~Hashable[t.subtype[1]]
    \/ t.dtype = "set" /\ Count(t) > 1 /\ ~Ordered[t.subtype[1]]

\* Mutant: no number is cast.
CastNone(t, number) == number

\* v_int and v_long are cast if the type is unsigned, v_longlong is not.
CastNumber(t, number) ==
    IF t.dtype \in {"uint", "ulong"} THEN Unsigned(number, FieldBytes(t)) ELSE number

\* The leaves of the Python object, or Raised.
ConvertFrom(t, converts) ==
    [v \in Values |->
        LET elements == [i \in 1..Count(t) |-> converts[Subtype(t, i)][SubValue(t, v, i)]]
        IN  CASE t.dtype \notin ContainerTypes -> {LeafOf(t, v, CastNumber(t, v.number))}
              [] t.dtype \in ContainerTypes /\ (Raises(t) \/ Raised \in Range(elements)) -> Raised
              [] OTHER -> UNION {LeavesInside(i, elements[i]) : i \in DOMAIN elements}]
convert_adiak_value_to_python[t \in Datatypes] ==
    ConvertFrom(t, [i \in DOMAIN t.subtype |-> convert_adiak_value_to_python[t.subtype[i]]])
-----------------------------------------------------------------------------
KindsFrom(t, kinds) == {t.dtype} \cup UNION Range(kinds)
Kinds[t \in Datatypes] == KindsFrom(t, [i \in DOMAIN t.subtype |-> Kinds[t.subtype[i]]])

\* A tool in Python gets what a tool in C finds, or an exception if the type has a
\* range or a set in it.
ConvertsAsSeen ==
    LET converted == convert_adiak_value_to_python[dtype][value]
    IN  \/ converted = Seen[dtype][value]
        \/ converted = Raised /\ Kinds[dtype] \cap {"range", "set"} # {}

\* Where all containers are copies and no number is an unsigned long long, a tool in
\* Python gets what a tool in C finds, at every depth (pyadiak_tool_nameval_cb).
PythonAgrees ==
    /\ dtype # NullType /\ ~HasReference(dtype, ContainerTypes)
    /\ "ulonglong" \notin Kinds[dtype]
    => ConvertsAsSeen

\* "adiak_ulonglong | v_longlong (as unsigned long long)" (adiak.h:235): a tool in
\* Python gets the number that a tool in C casts v_longlong to
\* (convert_adiak_value_to_python).  From 2^63 on it does not.
PythonReadsUnsigned ==
    /\ dtype # NullType /\ ~HasReference(dtype, ContainerTypes)
    /\ "ulonglong" \in Kinds[dtype]
    => ConvertsAsSeen
==============================================================================
