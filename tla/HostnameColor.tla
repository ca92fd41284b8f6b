---------------------------- MODULE HostnameColor ----------------------------
(***************************************************************************)
(* hostname_color of src/src/adksys_mpi.c: the colour by which             *)
(* get_unique_host splits a communicator, from a host name and the number  *)
(* of the round.  A name is the sequence of its (ASCII) character codes.   *)
(* A C int is kept as its two 16 bit halves: its arithmetic wraps at 2^32. *)
(***************************************************************************)
EXTENDS Integers
LOCAL INSTANCE Sequences
LOCAL INSTANCE Folds
LOCAL INSTANCE SequencesExt
LOCAL INSTANCE Bitwise

Half == 65536

\* hash * 33 + k of a 32 bit hash.
Times33Plus(hash, k) ==
    LET low == hash[2] * 33 + k
    IN  <<(hash[1] * 33 + low \div Half) % Half, low % Half>>

\* The hash of a name in the given round.
hostname_color(str, index) ==
    FoldLeft(LAMBDA hash, c : Times33Plus(hash, c ^^ index), <<0, 5381>>, str)

Negative(color) == color[1] >= Half \div 2

\* A negative colour is negated; the least int stays as it is.
SplitColor(str, index) ==
    LET color == hostname_color(str, index)
    IN  IF Negative(color)
        THEN <<(Half - color[1] - (IF color[2] = 0 THEN 0 ELSE 1)) % Half, (Half - color[2]) % Half>>
        ELSE color
==============================================================================
