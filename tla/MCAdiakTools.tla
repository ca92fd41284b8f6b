---------------------------- MODULE MCAdiakTools ----------------------------
(***************************************************************************)
(* Instances of AdiakTools for TLC.                                        *)
(***************************************************************************)
EXTENDS AdiakTools

MCHash == [n \in Names |-> 1]

\* A tool that follows everything on the root rank, one that follows everything
\* on every rank with record info, and one that follows the general pairs.
RootTool == [category |-> AllCategories, all_ranks |-> FALSE, info |-> FALSE]
InfoTool == [category |-> AllCategories, all_ranks |-> TRUE, info |-> TRUE]
GeneralTool == [category |-> "general", all_ranks |-> FALSE, info |-> FALSE]

MixedKinds == {InfoTool, RootTool}
GeneralKinds == {GeneralTool}
=============================================================================
