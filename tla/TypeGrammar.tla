----------------------------- MODULE TypeGrammar -----------------------------
(***************************************************************************)
(* What the documentation says of type strings (src/include/adiak.h,       *)
(* src/docs/sphinx/ApplicationAPI.rst), apart from how the code parses     *)
(* them: a term is the structure a user has in mind; it is written as a    *)
(* type string followed by its dimensions, outermost first, and it means a *)
(* datatype.  The C compiler lays out the data that goes with it.          *)
(***************************************************************************)
EXTENDS TypeString

\* A scalar, or a container of n elements; ref marks a "&" in front of it.
ScalarTerm(spec, ref) == [kind |-> "scalar", spec |-> spec, ref |-> ref, n |-> 0, subs |-> << >>]
ContainerTerm(kind, n, ref, sub) == [kind |-> kind, spec |-> "none", ref |-> ref, n |-> n, subs |-> <<sub>>]
RangeTerm(ref, sub) == ContainerTerm("range", 2, ref, sub)
TupleTerm(ref, subs) == [kind |-> "tuple", spec |-> "none", ref |-> ref, n |-> Len(subs), subs |-> subs]

\* The terms whose parts are in S.
TermsOver(S) ==
    {g \in [kind : ContainerTypes \cup {"scalar"}, spec : Specifiers \cup {"none"}, ref : BOOLEAN,
            n : Nat, subs : Seq(S)] :
        /\ g.kind = "scalar" => g.spec # "none" /\ g.subs = << >>
        /\ g.kind \in {"list", "set", "range"} => Len(g.subs) = 1
        /\ g.kind = "range" => g.n = 2
        /\ g.kind = "tuple" => Len(g.subs) = g.n}
TermsUpTo[depth \in 0..MaxLength] ==
    TermsOver(IF depth = 0 THEN {} ELSE TermsUpTo[depth - 1])
AllTerms == TermsUpTo[MaxLength]

Bracket(kind) == CHOOSE b \in DOMAIN Opening : Opening[b] = kind

\* The type string of a term.
WrittenFrom(g, strings) ==
    (IF g.ref THEN <<"&">> ELSE << >>) \o
    (IF g.kind = "scalar" THEN <<g.spec>>
     ELSE <<Bracket(g.kind)>> \o Listed(strings) \o <<Closing[Bracket(g.kind)]>>)
Written[g \in AllTerms] == WrittenFrom(g, [i \in DOMAIN g.subs |-> Written[g.subs[i]]])

\* The dimensions that follow the value; a range has none.
DimensionsFrom(g, dimensions) ==
    (IF g.kind \in {"list", "set", "tuple"} THEN <<g.n>> ELSE << >>) \o FlattenSeq(dimensions)
Dimensions[g \in AllTerms] ==
    DimensionsFrom(g, [i \in DOMAIN g.subs |-> Dimensions[g.subs[i]]])

\* The datatype of a term in a reference or not; "&" applies to what is inside as well.
MeaningFrom(g, meanings) ==
    [inherited \in BOOLEAN |->
        LET ref == inherited \/ g.ref
        IN  IF g.kind = "scalar" THEN base_ref(g.spec, ref)
            ELSE ContainerType(g.kind, ref, g.n, [i \in DOMAIN g.subs |-> meanings[i][ref]])]
Meaning[g \in AllTerms] == MeaningFrom(g, [i \in DOMAIN g.subs |-> Meaning[g.subs[i]]])

\* Terms in which no tuple stands before another element of a tuple: TypeNestedTuple
\* shows what the parser makes of others.
TuplesLastFrom(g, last) ==
    /\ \A i \in DOMAIN last : last[i]
    /\ g.kind = "tuple" => \A i \in 1..(g.n - 1) : g.subs[i].kind # "tuple"
TuplesLast[g \in AllTerms] == TuplesLastFrom(g, [i \in DOMAIN g.subs |-> TuplesLast[g.subs[i]]])

-----------------------------------------------------------------------------
\* The size and alignment of the C object of a datatype (64 bit), elements in a
\* row and tuples as structs.
RoundUp(n, a) == ((n + a - 1) \div a) * a

CAlignFrom(t, aligns) == IF t.subtype = << >> THEN t.num_bytes ELSE Max(Range(aligns))
CAlign[t \in Datatypes] == CAlignFrom(t, [i \in DOMAIN t.subtype |-> CAlign[t.subtype[i]]])

\* Where element i of a container begins, element Count + 1 at the end, if its
\* subtypes have such sizes.
OffsetFrom(t, i, sizes) ==
    LET begin(j, end) == RoundUp(end, CAlign[Element(t, j)])
        end[j \in 0..(i - 1)] == IF j = 0 THEN 0 ELSE begin(j, end[j - 1]) + sizes[Index(t, j)]
    IN  IF i <= Count(t) THEN begin(i, end[i - 1]) ELSE end[i - 1]
CSizeFrom(t, sizes) ==
    IF t.subtype = << >> THEN t.num_bytes
    ELSE RoundUp(OffsetFrom(t, Count(t) + 1, sizes), CAlign[t])
CSize[t \in Datatypes] == CSizeFrom(t, [i \in DOMAIN t.subtype |-> CSize[t.subtype[i]]])
COffset(t, i) == OffsetFrom(t, i, [j \in DOMAIN t.subtype |-> CSize[t.subtype[j]]])

\* Nothing lies before, between or after the elements of an object and of what is in it.
GaplessFrom(t, gapless) ==
    /\ \A j \in DOMAIN gapless : gapless[j]
    /\ \A i \in 1..Count(t) : COffset(t, i + 1) = COffset(t, i) + CSize[Element(t, i)]
    /\ t.subtype # << >> => COffset(t, 1) = 0 /\ CSize[t] = COffset(t, Count(t) + 1)
Gapless[t \in Datatypes] == GaplessFrom(t, [i \in DOMAIN t.subtype |-> Gapless[t.subtype[i]]])
==============================================================================
