---------------------------- MODULE MCAdiakStore ----------------------------
(***************************************************************************)
(* Instances of AdiakStore for TLC: two of the names share a hash bucket.  *)
(***************************************************************************)
EXTENDS AdiakStore

CONSTANTS a, b, c   \* the names

MCHash == [n \in Names |-> IF n = c THEN 2 ELSE 1]
=============================================================================
