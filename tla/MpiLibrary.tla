------------------------------ MODULE MpiLibrary ------------------------------
(***************************************************************************)
(* adksys_mpi_library_version of src/src/adksys_mpi.c: the vendor and the  *)
(* version of the MPI library, from the string that                        *)
(* MPI_Get_library_version gives.  Libraries that derive from others name  *)
(* those too.                                                              *)
(*                                                                         *)
(* A string is the sequence of its words, with the "v" of a version and a  *)
(* colon as words of their own.                                            *)
(***************************************************************************)
EXTENDS Integers, Sequences

CONSTANT VersionWords   \* the words that %m[0-9a-z.] matches

Library(vendor, version) == [vendor |-> vendor, version |-> version]
NoLibrary == Library("", "")

\* strstr: where the words of a name begin.
Places(info, name) ==
    {i \in 1..(Len(info) - Len(name) + 1) : SubSeq(info, i, i + Len(name) - 1) = name}
strstr(info, name) == Places(info, name) # {}
First(S) == CHOOSE i \in S : \A j \in S : i <= j

\* sscanf of a text followed by %m[0-9a-z.], at position i.
sscanf(info, i, text) ==
    LET next == i + Len(text)
    IN  IF SubSeq(info, i, next - 1) = text /\ next <= Len(info) /\ info[next] \in VersionWords
        THEN info[next] ELSE ""

\* The five vendors in the order of the tests, each with its name in the string and
\* what precedes its version: at the beginning, after the name, or after the
\* first colon.
Vendors ==
    <<[vendor |-> "IBM Spectrum MPI", name |-> <<"IBM", "Spectrum", "MPI">>, from |-> "start"],
      [vendor |-> "CRAY MPICH", name |-> <<"CRAY", "MPICH">>, from |-> "name"],
      [vendor |-> "MVAPICH2", name |-> <<"MVAPICH2">>, from |-> "colon"],
      [vendor |-> "Open MPI", name |-> <<"Open", "MPI">>, from |-> "start"],
      [vendor |-> "MPICH", name |-> <<"MPICH">>, from |-> "colon"]>>

VersionOf(info, v) ==
    CASE v.from = "start" -> sscanf(info, 1, <<"Open", "MPI", "v">>)
      [] v.from = "name" -> sscanf(info, First(Places(info, v.name)), v.name \o <<"version">>)
      [] v.from = "colon" ->
            IF strstr(info, <<":">>) THEN sscanf(info, First(Places(info, <<":">>)), <<":">>) ELSE ""

\* Mutant: MPI libraries are told by the last test that succeeds.
LastVendor(info) ==
    LET named == {i \in DOMAIN Vendors : strstr(info, Vendors[i].name)}
    IN  IF named = {} THEN 0 ELSE CHOOSE i \in named : \A j \in named : j <= i

\* The first test that succeeds decides, also when no version is found then.
FirstVendor(info) ==
    LET named == {i \in DOMAIN Vendors : strstr(info, Vendors[i].name)}
    IN  IF named = {} THEN 0 ELSE First(named)

\* NoLibrary if the routine fails.
adksys_mpi_library_version(info) ==
    LET i == FirstVendor(info)
    IN  IF i = 0 \/ VersionOf(info, Vendors[i]) = "" THEN NoLibrary
        ELSE Library(Vendors[i].vendor, VersionOf(info, Vendors[i]))

\* The words before the version in the strings that the comments show, for each vendor.
Forms ==
    <<<<"Open", "MPI", "v">>, <<"MPI", "VERSION", ":", "CRAY", "MPICH", "version">>,
      <<"MVAPICH2", "Version", ":">>, <<"Open", "MPI", "v">>, <<"MPICH", "Version", ":">>>>

\* A string of that form that names its vendor and none tested before, or the
\* string of a library of another vendor.
AsPublished(info, lib) ==
    LET Names(i) == strstr(info, Vendors[i].name)
    IN  \/ \E i \in DOMAIN Vendors, version \in VersionWords :
              /\ version # ""
              /\ lib = Library(Vendors[i].vendor, version)
              /\ Names(i) /\ \A j \in 1..(i - 1) : ~Names(j)
              /\ Len(info) > Len(Forms[i])
              /\ SubSeq(info, 1, Len(Forms[i])) = Forms[i] /\ info[Len(Forms[i]) + 1] = version
        \/ \A i \in DOMAIN Vendors : lib.vendor # Vendors[i].vendor /\ ~Names(i)
==============================================================================
