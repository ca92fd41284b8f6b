--------------------------- MODULE NameValueStore ---------------------------
(***************************************************************************)
(* What Adiak promises about its name/value pairs, seen from one caller of *)
(* adiak_get_nameval (src/include/adiak_tool.h): a map from names to the   *)
(* registration that last set them.  Registering a name replaces what was  *)
(* registered under it, whatever its category was, and nothing else;       *)
(* adiak_clean empties the map.  Registrations are numbered in the order   *)
(* they are made, so a number identifies one (value, type, subcategory,    *)
(* record info) payload and later payloads have larger numbers.            *)
(***************************************************************************)
EXTENDS Naturals

CONSTANTS Names, Categories, NoValue

VARIABLES
    store,       \* what a query for each name returns
    registered   \* how many registrations have been made

vars == <<store, registered>>

Payload == [value : Nat \ {0}, category : Categories]

Init ==
    /\ store = [n \in Names |-> NoValue]
    /\ registered = 0

SetValue(n, cat) ==
    /\ registered' = registered + 1
    /\ store' = [store EXCEPT ![n] = [value |-> registered + 1, category |-> cat]]

Clean ==
    /\ store' = [n \in Names |-> NoValue]
    /\ UNCHANGED registered

Next ==
    \/ \E n \in Names, cat \in Categories : SetValue(n, cat)
    \/ Clean

Spec == Init /\ [][Next]_vars
=============================================================================
