----------------------------- MODULE TypeString ------------------------------
(***************************************************************************)
(* Datatypes and the strings that describe them: parse_typestr_helper,     *)
(* find_end_brace, toplevel_type and adiak_type_to_string of               *)
(* src/src/adiak.c.                                                        *)
(*                                                                         *)
(* A type string is a sequence of tokens: a bracket, a separator, "&", or  *)
(* a whole scalar specifier such as "%d" or "%i16".  The int arguments     *)
(* that follow it in the va_list are a sequence of numbers.                *)
(*                                                                         *)
(* The recursive functions of the code are recursive functions here: the   *)
(* value of ...From is what the code computes for a datatype from what its *)
(* calls for the subtypes return.                                          *)
(***************************************************************************)
EXTENDS Integers, Sequences, SequencesExt

CONSTANT MaxLength   \* bound on the length of type strings, and so on how deep types nest

ASSUME LengthAssumption == MaxLength \in Nat

StringTypes == {"version", "string", "catstring", "jsonstring", "path"}
PointerTypes == StringTypes \cup {"timeval"}
ContainerTypes == {"range", "set", "list", "tuple"}
NumberTypes ==
    {"long", "ulong", "longlong", "ulonglong", "int", "uint", "double", "date", "unset"}

\* adiak_datatype_t.  subtype lists the num_subtypes subtypes.
Type(dtype, num_bytes, is_reference, num_elements, num_ref_elements, subtype) ==
    [dtype |-> dtype, num_bytes |-> num_bytes, is_reference |-> is_reference,
     num_elements |-> num_elements, num_ref_elements |-> num_ref_elements,
     subtype |-> subtype]

BaseType(dtype, num_bytes) == Type(dtype, num_bytes, FALSE, 0, 0, << >>)
NullType == BaseType("NULL", 0)
UnsetType == BaseType("unset", 0)

\* The elements of a container, and the subtype that element i has.
Count(t) == t.num_elements + t.num_ref_elements
Index(t, i) == IF t.dtype = "tuple" THEN i ELSE 1
Element(t, i) == t.subtype[Index(t, i)]

\* The datatypes whose subtypes are in S: a tuple has one for each element, other
\* containers have one.
Arity(t) ==
    CASE t.dtype = "tuple" -> Count(t)
      [] t.dtype \in ContainerTypes \ {"tuple"} -> 1
      [] t.dtype \notin ContainerTypes -> 0
TypesOver(S) ==
    {t \in [dtype : NumberTypes \cup PointerTypes \cup ContainerTypes, num_bytes : Nat,
            is_reference : BOOLEAN, num_elements : Nat, num_ref_elements : Nat,
            subtype : Seq(S)] :
        Len(t.subtype) = Arity(t) /\ (t.dtype \notin ContainerTypes => Count(t) = 0)}
TypesUpTo[depth \in 0..MaxLength] ==
    TypesOver(IF depth = 0 THEN {} ELSE TypesUpTo[depth - 1])
Datatypes == TypesUpTo[MaxLength]

\* The base types, by the specifier that parse_typestr_helper reads.
Specifiers ==
    {"%d", "%i", "%i8", "%i16", "%i32", "%i64", "%u", "%u8", "%u16", "%u32", "%u64",
     "%ld", "%lu", "%lld", "%llu", "%f", "%f32", "%f64", "%D", "%t", "%v", "%s", "%r",
     "%j", "%p"}
base ==
    [spec \in Specifiers |->
        CASE spec \in {"%d", "%i", "%i32"} -> BaseType("int", 4)
          [] spec = "%i8"                  -> BaseType("int", 1)
          [] spec = "%i16"                 -> BaseType("int", 2)
          [] spec \in {"%u", "%u32"}       -> BaseType("uint", 4)
          [] spec = "%u8"                  -> BaseType("uint", 1)
          [] spec = "%u16"                 -> BaseType("uint", 2)
          [] spec = "%ld"                  -> BaseType("long", 8)
          [] spec = "%lu"                  -> BaseType("ulong", 8)
          [] spec \in {"%lld", "%i64"}     -> BaseType("longlong", 8)
          [] spec \in {"%llu", "%u64"}     -> BaseType("ulonglong", 8)
          [] spec \in {"%f", "%f64"}       -> BaseType("double", 8)
          [] spec = "%f32"                 -> BaseType("double", 4)
          [] spec = "%D"                   -> BaseType("date", 8)
          [] spec = "%t"                   -> BaseType("timeval", 8)
          [] spec = "%v"                   -> BaseType("version", 8)
          [] spec = "%s"                   -> BaseType("string", 8)
          [] spec = "%r"                   -> BaseType("catstring", 8)
          [] spec = "%j"                   -> BaseType("jsonstring", 8)
          [] spec = "%p"                   -> BaseType("path", 8)]

\* A string type in a reference has a base type of its own; no other base type
\* is a reference.
base_ref(spec, is_reference) ==
    [base[spec] EXCEPT !.is_reference = is_reference /\ base[spec].dtype \in StringTypes]

\* Specifiers with a digit that parse_scalar_len_spec refuses.
BadLengths ==
    [spec \in {"%i7", "%u7", "%f7"} |->
        CASE spec = "%i7" -> "int" [] spec = "%u7" -> "uint" [] spec = "%f7" -> "double"]

Opening ==
    [b \in {"[", "{", "<", "("} |->
        CASE b = "[" -> "set" [] b = "{" -> "list" [] b = "<" -> "range" [] b = "(" -> "tuple"]
Closing ==
    [b \in {"[", "{", "<", "("} |->
        CASE b = "[" -> "]" [] b = "{" -> "}" [] b = "<" -> ">" [] b = "(" -> ")"]
Separators == {" ", ","}

\* The token at a position, and the end of the string.
At(typestr, i) == IF i <= Len(typestr) THEN typestr[i] ELSE "NUL"

FirstFrom(typestr, start, skipped) ==
    CHOOSE i \in start..(Len(typestr) + 1) :
        /\ At(typestr, i) \notin skipped
        /\ \A j \in start..(i - 1) : typestr[j] \in skipped

-----------------------------------------------------------------------------
\* depth++ and depth-- of find_end_brace.
Deeper(token) ==
    CASE token \in DOMAIN Closing -> 1
      [] token \in {"]", "}", ">", ")"} -> -1
      [] OTHER -> 0

\* How deep in brackets of any kind each token from start on is.
Depths(typestr, start) ==
    LET depth[i \in 0..Len(typestr)] ==
            IF i < start THEN 0 ELSE depth[i - 1] + Deeper(typestr[i])
    IN  depth

NoBrace == 0

\* The position of the bracket that closes the one at start.
find_end_brace(typestr, endchar, start, end) ==
    LET closes(i) == typestr[i] = endchar /\ Depths(typestr, start)[i] = 0
    IN  IF \E i \in start..(end - 1) : closes(i)
        THEN CHOOSE i \in start..(end - 1) : closes(i) /\ \A j \in start..(i - 1) : ~closes(j)
        ELSE NoBrace

\* Mutant: the length of an integer is not looked at.
toplevel_type_without_length(typestr) ==
    LET token == At(typestr, FirstFrom(typestr, 1, Separators \cup {"&"}))
    IN  CASE token \in {"%u", "%u8", "%u16", "%u32", "%u64"} -> "uint"
          [] token \in DOMAIN base   -> base[token].dtype
          [] token \in DOMAIN Opening -> Opening[token]
          [] OTHER -> "unset"

\* The type by which adiak_namevalue reads its first argument.
toplevel_type(typestr) ==
    LET token == At(typestr, FirstFrom(typestr, 1, Separators \cup {"&"}))
    IN  CASE token \in DOMAIN base       -> base[token].dtype
          [] token \in DOMAIN BadLengths -> BadLengths[token]
          [] token \in DOMAIN Opening    -> Opening[token]
          [] OTHER                       -> "unset"

-----------------------------------------------------------------------------
\* va_arg(*ap, int) when ap arguments have been taken.  What it yields when none is
\* left is not defined: stray.
NextInt(args, ap, stray) == IF ap < Len(args) THEN args[ap + 1] ELSE stray
\* Mutant: the callee takes the argument from a copy of the va_list.
AfterNextOfCopy(ap) == ap
AfterNext(ap) == ap + 1

\* A call of parse_typestr_helper, and what it leaves: the type, the caller's
\* position, the number of arguments taken.
Call(start, is_reference, ap) == [start |-> start, is_reference |-> is_reference, ap |-> ap]
Calls(typestr) == [start : 1..(Len(typestr) + 1), is_reference : BOOLEAN, ap : Nat]
Parsed(t, cur, ap) == [t |-> t, cur |-> cur, ap |-> ap]

\* A container of n elements.
ContainerType(dtype, is_reference, n, subtype) ==
    Type(dtype, 0, is_reference, IF is_reference THEN 0 ELSE n,
         IF is_reference THEN n ELSE 0, subtype)

\* The n elements of a tuple, each parsed from where the one before has left the
\* position.
ParseElements(parse, start, is_reference, ap, n) ==
    LET upTo[i \in 0..n] ==
            IF i = 0 THEN [ts |-> << >>, cur |-> start, ap |-> ap]
            ELSE LET before == upTo[i - 1]
                     one == parse[Call(before.cur, is_reference, before.ap)]
                 IN  [ts |-> Append(before.ts, one.t), cur |-> one.cur, ap |-> one.ap]
    IN  upTo[n]

\* The calls that parse up to end: parse[e] are those up to a bracket e before it.
\* The caller's position is passed by reference as the start of what is parsed; the
\* branch for tuples does not move it.
parse_typestr_helper(typestr, args, stray, end, parse) ==
    [call \in Calls(typestr) |->
        LET first == FirstFrom(typestr, call.start, Separators)
            is_reference == call.is_reference \/ At(typestr, first) = "&"
            cur == IF At(typestr, first) = "&" THEN first + 1 ELSE first
            token == At(typestr, cur)
            end_brace == find_end_brace(typestr, Closing[token], cur, end)
            num_elements == IF token = "<" THEN 2 ELSE NextInt(args, call.ap, stray)
            ap == IF token = "<" THEN call.ap ELSE AfterNext(call.ap)
            elements ==
                ParseElements(parse[end_brace], cur + 1, is_reference, ap,
                              IF token = "(" THEN num_elements ELSE 1)
        IN  CASE call.start # end /\ token \in DOMAIN base ->
                    Parsed(base_ref(token, is_reference), cur + 1, call.ap)
              [] call.start # end /\ token = "NUL" -> Parsed(UnsetType, call.start, call.ap)
              [] /\ call.start # end /\ token \in DOMAIN Opening /\ end_brace # NoBrace
                 /\ \A i \in DOMAIN elements.ts : elements.ts[i] # NullType ->
                    Parsed(ContainerType(Opening[token], is_reference, num_elements, elements.ts),
                           IF token = "(" THEN call.start ELSE end_brace + 1, elements.ap)
              [] OTHER -> Parsed(NullType, call.start, call.ap)]

parse_typestr(typestr, args, stray) ==
    LET parse[end \in 1..(Len(typestr) + 1)] ==
            parse_typestr_helper(typestr, args, stray, end, [e \in 1..(end - 1) |-> parse[e]])
    IN  parse[Len(typestr) + 1][Call(1, FALSE, 0)].t

-----------------------------------------------------------------------------
\* adiak_type_to_string in its short form.
Simple ==
    [long |-> "%ld", ulong |-> "%lu", longlong |-> "%lld", ulonglong |-> "%llu",
     int |-> "%d", uint |-> "%u", double |-> "%f", date |-> "%D", timeval |-> "%t",
     version |-> "%v", string |-> "%s", catstring |-> "%r", jsonstring |-> "%j",
     path |-> "%p", unset |-> "unset"]

\* The datatype of scalars whose length is not looked at.
adiak_get_basetype(dtype) == base[Simple[dtype]]

\* What arithmetic the values of a type allow.  parse_typestr_helper and the base
\* types give datatypes the same as adiak_numerical_from_type.
adiak_numerical_from_type(dtype) ==
    CASE dtype \in {"long", "ulong", "longlong", "ulonglong", "int", "uint", "double"} -> "rational"
      [] dtype \in {"date", "timeval"} -> "interval"
      [] dtype \in {"version", "string"} -> "ordinal"
      [] dtype \in {"catstring", "jsonstring", "path"} \cup ContainerTypes -> "categorical"
      [] dtype = "unset" -> "unset"

\* Mutant: sets and lists are swapped.
LeftBracketSwapped == [range |-> <<"<">>, set |-> <<"{">>, list |-> <<"[">>, tuple |-> <<"(">>]
LeftBracket == [range |-> <<"<">>, set |-> <<"[">>, list |-> <<"{">>, tuple |-> <<"(">>]
RightBracket == [range |-> << >>, set |-> <<"]">>, list |-> <<"}">>, tuple |-> <<")">>]

\* The strings of elements, one after the other.
Listed(strings) ==
    FlattenSeq([i \in DOMAIN strings |->
                   IF i = 1 THEN strings[i] ELSE <<",", " ">> \o strings[i]])

StringFrom(t, strings) ==
    IF t.dtype \in DOMAIN Simple THEN <<Simple[t.dtype]>>
    ELSE LeftBracket[t.dtype] \o Listed(strings) \o RightBracket[t.dtype]
adiak_type_to_string[t \in Datatypes] ==
    StringFrom(t, [i \in DOMAIN t.subtype |-> adiak_type_to_string[t.subtype[i]]])
==============================================================================
