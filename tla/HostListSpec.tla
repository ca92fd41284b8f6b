----------------------------- MODULE HostListSpec -----------------------------
(***************************************************************************)
(* What the collective adksys_hostlist (src/src/adksys_mpi.c) promises to  *)
(* the ranks of an MPI job: a rank is answered once, with one entry for    *)
(* every host of the job, contributed by the lowest rank on it.            *)
(***************************************************************************)
EXTENDS Naturals

CONSTANTS N, Hosts, HostOf, NoList

VARIABLE answer

Ranks == 0..(N - 1)

\* The lowest rank on each host, and the list indexed by these ranks: entry i of
\* the C array is the host of the i-th of them.
LowestRanks == {r \in Ranks : \A q \in Ranks : HostOf[q] = HostOf[r] => r <= q}
List == [r \in LowestRanks |-> HostOf[r]]

Init == answer = [r \in Ranks |-> NoList]

\* Some ranks get their answer; an answer is final.
Answer(R) ==
    /\ \A r \in R : answer[r] = NoList
    /\ answer' = [r \in Ranks |-> IF r \in R THEN List ELSE answer[r]]

Next == \E R \in SUBSET Ranks : Answer(R)

Spec == Init /\ [][Next]_answer
===============================================================================
