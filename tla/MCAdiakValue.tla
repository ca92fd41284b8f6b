---------------------------- MODULE MCAdiakValue -----------------------------
(***************************************************************************)
(* Instances of AdiakValue, with the C++ interface and tools in Python:    *)
(* terms of depth up to three.                                             *)
(***************************************************************************)
EXTENDS PyadiakTool

\* Scalars and strings, all of one size so that structs have no gaps.
Wide == {ScalarTerm("%lld", FALSE), ScalarTerm("%t", FALSE), ScalarTerm("%s", FALSE), ScalarTerm("%s", TRUE)}
Narrow == {ScalarTerm(spec, FALSE) : spec \in {"%d", "%u", "%u8", "%i16", "%f32"}}
Others == {ScalarTerm(spec, FALSE) : spec \in {"%ld", "%lu", "%u64", "%D"}}
          \cup {ScalarTerm(spec, TRUE) : spec \in {"%t", "%v", "%r", "%j", "%p"}}

TwoOf(kind, refs, subs) ==
    {ContainerTerm(kind, 2, ref, g) : ref \in refs, g \in subs}
Pairs(refs, firsts, seconds) ==
    {TupleTerm(ref, <<g, h>>) : ref \in refs, g \in firsts, h \in seconds}

\* Containers of scalars, one of them empty; tuples of two and three elements.
Flat ==
    TwoOf("list", BOOLEAN, Wide \cup Narrow)
    \cup {ContainerTerm("set", n, FALSE, ScalarTerm("%s", FALSE)) : n \in {0, 1}}
    \cup TwoOf("range", BOOLEAN, {ScalarTerm("%t", FALSE), ScalarTerm("%s", FALSE)})
    \cup Pairs(BOOLEAN, Wide, Wide)
    \cup Pairs(BOOLEAN, {ScalarTerm("%d", FALSE)}, {ScalarTerm("%f32", FALSE)})
    \cup {TupleTerm(ref, <<ScalarTerm("%s", FALSE), ScalarTerm("%t", FALSE), g>>) :
              ref \in BOOLEAN, g \in Wide}

\* Containers of those, and tuples with a container in first or a tuple in last
\* place.
Lists == TwoOf("list", BOOLEAN, {ScalarTerm("%s", FALSE)})
Couples == Pairs(BOOLEAN, {ScalarTerm("%s", FALSE)}, {ScalarTerm("%lld", FALSE), ScalarTerm("%s", TRUE)})
Nested ==
    {ContainerTerm("set", 3, ref, g) : ref \in BOOLEAN, g \in Couples \cup Lists}
    \cup TwoOf("range", BOOLEAN, Lists)
    \cup Pairs(BOOLEAN, Lists, {ScalarTerm("%s", FALSE)})
    \cup Pairs(BOOLEAN, {ScalarTerm("%t", FALSE)}, Couples \cup Lists)

\* Three deep.
Deep ==
    TwoOf("list", BOOLEAN,
          {TupleTerm(ref, <<ScalarTerm("%s", FALSE), ContainerTerm("list", 2, FALSE, g)>>) :
               ref \in BOOLEAN, g \in Couples})

\* C++ types without sizes, and objects whose elements are all equally long: scalars,
\* also of short and float, a pair, containers with two elements and none, tuples, and two and three levels.
\* The elements of a std::set are const, and only those of scalar types compile.
Leaf0 == << >>
Two == <<Leaf0, Leaf0>>
Of(kind, type) == ContainerTerm(kind, IF kind = "range" THEN 2 ELSE 0, FALSE, type)
String == ScalarTerm("%s", FALSE)
Long == ScalarTerm("%lld", FALSE)
Entry == TupleTerm(FALSE, <<String, Of("list", Long)>>)
MCCxxObjects ==
    {Object(t, Leaf0) : t \in {String, Long} \cup {ScalarTerm(spec, FALSE) : spec \in {"%t", "%i16", "%u"}}}
    \cup {Object(Of(kind, t), Two) : kind \in {"list", "set", "range"}, t \in {String, Long}}
    \cup {Object(Of("list", ScalarTerm("%f32", FALSE)), Two)}
    \cup {Object(Of("list", String), << >>), Object(TupleTerm(FALSE, <<String, Long>>), Two),
          Object(Of("list", Of("list", String)), <<Two, Two>>),
          Object(Of("range", Of("list", String)), <<Two, Two>>),
          Object(Of("list", Entry), <<<<Leaf0, Two>>, <<Leaf0, Two>>>>),
          Object(Of("list", Of("list", Of("set", Long))), <<<<Two, Two>>, <<Two, Two>>>>)}
ASSUME MCRectangular == \A o \in MCCxxObjects : Rectangular[o.type][o.elems]
CxxTerms == {TermOf[o.type][o.elems] : o \in MCCxxObjects}

MCTerms == Wide \cup Narrow \cup Others \cup Flat \cup Nested \cup Deep \cup CxxTerms
ASSUME MCTuplesLast == \A g \in MCTerms : TuplesLast[g]

\* A vector of a vector of one string and one of two.
Ragged == {Object(Of("list", Of("list", String)), <<<<Leaf0>>, Two>>)}
RaggedTerms == {TermOf[o.type][o.elems] : o \in Ragged}
NoObjects == {}

\* A copied structure with a string that is not, a container that is not copied, and
\* one that C++ objects are as well.
MCLaterTerms ==
    {TupleTerm(FALSE, <<ScalarTerm("%s", FALSE), ScalarTerm("%t", FALSE), ScalarTerm("%s", TRUE)>>)}
    \cup TwoOf("list", BOOLEAN, {ScalarTerm("%s", FALSE)})

ASSUME TermsGapless == \A g \in MCTerms : Gapless[Meaning[g][FALSE]]

NoTerms == {}

\* The example of adiak.h: an array of struct { int pos; const char *val; }.
Letters ==
    {ContainerTerm("set", 2, FALSE,
         TupleTerm(FALSE, <<ScalarTerm("%d", FALSE), ScalarTerm("%s", FALSE)>>))}

\* A tuple of a tuple and a string.
TupleFirst ==
    {TupleTerm(FALSE, <<TupleTerm(FALSE, <<ScalarTerm("%lld", FALSE)>>), ScalarTerm("%s", FALSE)>>)}

\* Strings that are no type: each is refused.
Malformed ==
    {<<"{", "%d">>, <<"[", "}">>, <<"(", "%d", "]">>, <<"{", "}">>, <<"&">>, <<"%i7">>,
     <<"[", "&", " ", "%d", "]">>, <<"<", "(", ">", ")">>, <<"&", "&", "%d">>, << >>}
ASSUME MalformedRefused ==
    \A s \in Malformed : toplevel_type(s) = "unset" \/ parse_typestr(s, <<1, 1>>, 0) = NullType
==============================================================================
