------------------------------- MODULE HostList -------------------------------
(***************************************************************************)
(* The distributed part of Adiak: adksys_hostlist, gethostlist and         *)
(* get_unique_host of src/src/adksys_mpi.c, and their callers              *)
(* adiak_hostlist and adiak_num_hosts of src/src/adiak.c.                  *)
(*                                                                         *)
(* The ranks of a communicator find one representative of every host.      *)
(* They split the communicator by a colour computed from the host name and *)
(* an index, compare the names within each part, and split parts in which  *)
(* names differ again with the next index.  Parts proceed independently.   *)
(* When all ranks are in parts of one name, the representatives gather     *)
(* their names on rank 0, which broadcasts the list.                       *)
(*                                                                         *)
(* A collective is one action of all the ranks of its communicator, taken  *)
(* when the last of them arrives; a communicator is the set of its ranks.  *)
(***************************************************************************)
EXTENDS Integers, FiniteSets

CONSTANTS
    N,          \* ranks of the communicator given to adiak_init
    Hosts,      \* host names, cut at the first dot
    HostOf,     \* the host of each rank
    Color,      \* the colour of a host name in each round
    MaxIndex,   \* bound on the rounds of splitting
    NoList

Ranks == 0..(N - 1)

ASSUME HostListAssumption ==
    /\ N \in Nat \ {0} /\ IsFiniteSet(Hosts)
    /\ HostOf \in [Ranks -> Hosts]
    /\ MaxIndex \in Nat
    /\ Hosts \X (0..MaxIndex) \subseteq DOMAIN Color
    /\ \A S \in SUBSET Ranks : [r \in S |-> HostOf[r]] # NoList

VARIABLES
    errors_return, \* the communicator's error handler lets MPI calls return errors
    pc,          \* where each rank is
    call,        \* the routine in progress on each rank
    group,       \* the ranks of the communicator it works on
    index,       \* the next index for hostname_color
    unique_host, \* the rank represents its host
    oldcomm, newcomm, set_oldcomm, \* the handles of get_unique_host, and its flag
    held,        \* communicators created and not yet freed by the rank
    refreed,     \* the rank freed a communicator it did not hold
    hostlist,    \* the static list of adksys_hostlist
    numhosts,    \* the value registered as numhosts, 0 if none
    hosts        \* the value registered as hostlist

registered == <<numhosts, hosts>>
handles == <<oldcomm, newcomm, set_oldcomm, refreed>>
vars == <<errors_return, pc, call, group, index, unique_host, held, handles, hostlist, registered>>

Calls == {"hostlist", "numhosts"}
NoCall == "none"

\* The handle of hostcomm, that of the communicator of adiak_init and that of none;
\* the handles of the split communicators are the indexes they were split by.
HostComm == -1
AdiakCommunicator == -2
CommNull == -3

Lowest(G) == CHOOSE r \in G : \A q \in G : r <= q

-----------------------------------------------------------------------------
Init ==
    /\ errors_return \in BOOLEAN
    /\ pc = [r \in Ranks |-> "start"]
    /\ call = [r \in Ranks |-> NoCall]
    /\ group = [r \in Ranks |-> Ranks]
    /\ index = [r \in Ranks |-> 0]
    /\ unique_host = [r \in Ranks |-> FALSE]
    /\ oldcomm = [r \in Ranks |-> AdiakCommunicator]
    /\ newcomm = [r \in Ranks |-> CommNull]
    /\ set_oldcomm = [r \in Ranks |-> FALSE]
    /\ held = [r \in Ranks |-> {}]
    /\ refreed = [r \in Ranks |-> FALSE]
    /\ hostlist = [r \in Ranks |-> NoList]
    /\ numhosts = [r \in Ranks |-> 0]
    /\ hosts = [r \in Ranks |-> NoList]

\* adiak_hostlist or adiak_num_hosts is called on rank r.  The first call goes
\* on to gethostlist, later ones to the cached list or the cached failure.
Call(r, routine) ==
    /\ call[r] = NoCall
    /\ call' = [call EXCEPT ![r] = routine]
    /\ pc' = [pc EXCEPT ![r] = IF @ = "start" THEN "split" ELSE @]
    /\ UNCHANGED <<errors_return, group, index, unique_host, held, handles, hostlist, registered>>

\* Mutant: colours by rank parity instead of by host.
SameColorByRank(r) == {q \in group[r] : q % 2 = r % 2}

\* Mutant: the colour of every round is that of the first.
SameColorFirstRound(r) ==
    {q \in group[r] : Color[HostOf[q], 0] = Color[HostOf[r], 0]}

\* The members of r's communicator that have r's colour.
SameColor(r) ==
    {q \in group[r] : Color[HostOf[q], index[q]] = Color[HostOf[r], index[r]]}

\* Mutant: the communicator of the round before is not freed.
OldFreesNothing(r) == {}

\* The handle get_unique_host frees after a split: that of the round before.
OldFrees(r) == IF set_oldcomm[r] THEN {oldcomm[r]} ELSE {}

\* Mutant: oldcomm keeps the handle that was freed.
OldKeptAfterSplit(r) == oldcomm[r]

\* What oldcomm is after a split.
OldAfterSplit(r) == IF set_oldcomm[r] THEN CommNull ELSE oldcomm[r]

\* MPI_Comm_split of communicator G: every rank goes on in the communicator of
\* its colour, and frees the one it came from unless that is the first.
Split(G) ==
    /\ \A r \in G : pc[r] = "split" /\ group[r] = G /\ index[r] < MaxIndex
    /\ group' = [r \in Ranks |-> IF r \in G THEN SameColor(r) ELSE group[r]]
    /\ index' = [r \in Ranks |-> IF r \in G THEN index[r] + 1 ELSE index[r]]
    /\ newcomm' = [r \in Ranks |-> IF r \in G THEN index[r] ELSE newcomm[r]]
    /\ oldcomm' = [r \in Ranks |-> IF r \in G THEN OldAfterSplit(r) ELSE oldcomm[r]]
    /\ held' = [r \in Ranks |->
           IF r \in G THEN (held[r] \cup {index[r]}) \ OldFrees(r) ELSE held[r]]
    /\ refreed' = [r \in Ranks |-> refreed[r] \/ (r \in G /\ ~(OldFrees(r) \subseteq held[r]))]
    /\ pc' = [r \in Ranks |-> IF r \in G THEN "compare" ELSE pc[r]]
    /\ UNCHANGED <<errors_return, call, unique_host, set_oldcomm, hostlist, registered>>

\* The handles freed from the label error on, by success and failure alike.
ExitFrees(old, new) == {old, new} \ {AdiakCommunicator, CommNull}

\* One of them is not held, or is freed under both names: freeing oldcomm leaves the
\* handle in newcomm.
ExitRefrees(r, old, new) ==
    \/ ~(ExitFrees(old, new) \subseteq held[r])
    \/ old = new /\ ExitFrees(old, new) # {}

\* Mutant: the colour alone decides who shares a host.
OneNameByColor(G) == TRUE

\* All ranks of G have the name of its lowest rank: the broadcast of that name
\* and the reduction of the comparisons.
OneName(G) == \A r \in G : HostOf[r] = HostOf[Lowest(G)]

\* Names agree: get_unique_host frees what it has and returns, 1 on the lowest rank.
Agree(G) ==
    /\ \A r \in G : pc[r] = "compare" /\ group[r] = G
    /\ OneName(G)
    /\ unique_host' = [r \in Ranks |-> IF r \in G THEN r = Lowest(G) ELSE unique_host[r]]
    /\ held' = [r \in Ranks |->
           IF r \in G THEN held[r] \ ExitFrees(oldcomm[r], newcomm[r]) ELSE held[r]]
    /\ refreed' = [r \in Ranks |->
           refreed[r] \/ (r \in G /\ ExitRefrees(r, oldcomm[r], newcomm[r]))]
    /\ pc' = [r \in Ranks |-> IF r \in G THEN "hostsplit" ELSE pc[r]]
    /\ UNCHANGED <<errors_return, call, group, index, oldcomm, newcomm, set_oldcomm, hostlist,
                   registered>>

\* Names differ: the part is split again, by the handle in oldcomm, which is then
\* that in newcomm too.
Differ(G) ==
    /\ \A r \in G : pc[r] = "compare" /\ group[r] = G
    /\ ~OneName(G)
    /\ set_oldcomm' = [r \in Ranks |-> r \in G \/ set_oldcomm[r]]
    /\ oldcomm' = [r \in Ranks |-> IF r \in G THEN newcomm[r] ELSE oldcomm[r]]
    /\ pc' = [r \in Ranks |-> IF r \in G THEN "split" ELSE pc[r]]
    /\ UNCHANGED <<errors_return, call, group, index, newcomm, unique_host, held, refreed,
                   hostlist, registered>>

\* The split of all ranks into representatives and others.  The others free
\* hostcomm at once.
HostSplit ==
    /\ \A r \in Ranks : pc[r] = "hostsplit"
    /\ held' = [r \in Ranks |-> IF unique_host[r] THEN held[r] \cup {HostComm} ELSE held[r]]
    /\ pc' = [r \in Ranks |-> IF unique_host[r] THEN "gather" ELSE "bcast"]
    /\ UNCHANGED <<errors_return, call, group, index, unique_host, handles, hostlist, registered>>

Representatives == {r \in Ranks : unique_host[r]}

\* The representatives gather their names on the lowest of them; only global
\* rank 0 has allocated a list for it.
Gather ==
    /\ Representatives # {}
    /\ \A r \in Representatives : pc[r] = "gather"
    /\ hostlist' = [hostlist EXCEPT ![0] =
           IF unique_host[0] THEN [r \in Representatives |-> HostOf[r]] ELSE NoList]
    /\ held' = [r \in Ranks |-> IF unique_host[r] THEN held[r] \ {HostComm} ELSE held[r]]
    /\ pc' = [r \in Ranks |-> IF unique_host[r] THEN "bcast" ELSE pc[r]]
    /\ UNCHANGED <<errors_return, call, group, index, unique_host, handles, registered>>

\* Rank 0 broadcasts the length of the list and the list.
Bcast ==
    /\ \A r \in Ranks : pc[r] = "bcast"
    /\ hostlist' = [r \in Ranks |-> hostlist[0]]
    /\ pc' = [r \in Ranks |-> "cached"]
    /\ UNCHANGED <<errors_return, call, group, index, unique_host, held, handles, registered>>

\* A collective of get_unique_host returns an error to rank r, which frees what
\* oldcomm and newcomm name and remembers the error; the ranks that go on from this
\* collective wait for r in the next one.  MPI does not define what a split that fails
\* leaves in newcomm: the handle that was there, or none.
Fail(r) ==
    /\ errors_return
    /\ pc[r] \in {"split", "compare"}
    /\ \E new \in {newcomm[r]} \cup (IF pc[r] = "split" THEN {CommNull} ELSE {}) :
        /\ newcomm' = [newcomm EXCEPT ![r] = new]
        /\ held' = [held EXCEPT ![r] = @ \ ExitFrees(oldcomm[r], new)]
        /\ refreed' = [refreed EXCEPT ![r] = @ \/ ExitRefrees(r, oldcomm[r], new)]
    /\ pc' = [pc EXCEPT ![r] = "had_error"]
    /\ UNCHANGED <<errors_return, call, group, index, oldcomm, set_oldcomm, unique_host,
                   hostlist, registered>>

\* Mutant: the size is asked of the communicator of all ranks.
NumHostsOfAll(list) == N

\* The number of entries of a list: the size of hostcomm on the representatives.
NumHosts(list) == Cardinality(DOMAIN list)

\* The routine in progress on rank r registers its pair and returns.  Without a
\* list adiak_hostlist returns -1, and adiak_num_hosts registers 1.
Return(r) ==
    /\ call[r] # NoCall
    /\ pc[r] \in {"cached", "had_error"}
    /\ call' = [call EXCEPT ![r] = NoCall]
    /\ hosts' = IF call[r] = "hostlist" THEN [hosts EXCEPT ![r] = hostlist[r]] ELSE hosts
    /\ numhosts' = IF call[r] = "numhosts"
                   THEN [numhosts EXCEPT ![r] =
                            IF hostlist[r] = NoList THEN 1 ELSE NumHosts(hostlist[r])]
                   ELSE numhosts
    /\ UNCHANGED <<errors_return, pc, group, index, unique_host, held, handles, hostlist>>

Collective(r) ==
    Split(group[r]) \/ Agree(group[r]) \/ Differ(group[r]) \/ HostSplit \/ Gather \/ Bcast

Next ==
    \/ \E r \in Ranks, routine \in Calls : Call(r, routine)
    \/ \E r \in Ranks : Collective(r) \/ Fail(r) \/ Return(r)

Spec == Init /\ [][Next]_vars

\* Every rank keeps calling the routines ("must be called by all MPI ranks"), a
\* collective that all ranks have reached completes, and a rank that has what it
\* needs returns.
FairSpec ==
    /\ Spec
    /\ WF_vars(\E r \in Ranks : Collective(r))
    /\ \A r \in Ranks : WF_vars((\E routine \in Calls : Call(r, routine)) \/ Return(r))

-----------------------------------------------------------------------------
TypeOK ==
    /\ errors_return \in BOOLEAN
    /\ pc \in [Ranks -> {"start", "split", "compare", "hostsplit", "gather", "bcast",
                         "cached", "had_error"}]
    /\ call \in [Ranks -> Calls \cup {NoCall}]
    /\ group \in [Ranks -> SUBSET Ranks]
    /\ index \in [Ranks -> 0..MaxIndex]
    /\ unique_host \in [Ranks -> BOOLEAN]
    /\ oldcomm \in [Ranks -> {AdiakCommunicator, CommNull} \cup 0..MaxIndex]
    /\ newcomm \in [Ranks -> {CommNull} \cup 0..MaxIndex]
    /\ set_oldcomm \in [Ranks -> BOOLEAN]
    /\ held \in [Ranks -> SUBSET ({HostComm} \cup 0..MaxIndex)]
    /\ refreed \in [Ranks -> BOOLEAN]
    /\ \A r \in Ranks : hostlist[r] # NoList => DOMAIN hostlist[r] \subseteq Ranks
    /\ numhosts \in [Ranks -> 0..Cardinality(Hosts)]

\* However the parts are split, each at its own pace, the ranks of one host stay
\* together and agree on who is in their part.
HostsStayTogether ==
    \A r, q \in Ranks : HostOf[r] = HostOf[q] => group[r] = group[q] /\ index[r] = index[q]

\* No communicator survives the call that made it, whatever the number of rounds,
\* wherever a collective failed and whatever MPI left in newcomm (the frees under the
\* label error of get_unique_host, by the handles it has, and that of gethostlist).
CommsFreed == \A r \in Ranks : call[r] = NoCall => held[r] = {}

\* The frees of get_unique_host, in the rounds and under the label error, name a
\* communicator the rank holds, each once, with one exception: after the first round a
\* split fails and leaves newcomm the handle that is in oldcomm.
FreedTwiceOnlyByFailedSplit ==
    \A r \in Ranks : refreed[r] =>
        pc[r] = "had_error" /\ index[r] > 0 /\ set_oldcomm[r] /\ newcomm[r] = oldcomm[r]

\* "Return -1 on error": the error path of get_unique_host frees nothing twice.  The
\* code does when a split after the first round fails and leaves newcomm as it was.
FreedOnce == \A r \in Ranks : ~refreed[r]

\* When no collective fails, a rank that registered numhosts registered the number
\* of hosts of the job.
NumHostsRight ==
    ~errors_return => \A r \in Ranks : numhosts[r] \in {0, Cardinality({HostOf[q] : q \in Ranks})}

\* The list every rank caches is the one HostListSpec promises: one entry per
\* host, from its lowest rank, the same on all ranks, never changed.
Promise == INSTANCE HostListSpec
    WITH answer <- [r \in Ranks |-> IF pc[r] = "cached" THEN hostlist[r] ELSE NoList]
ImplementsHostListSpec == Promise!Spec

\* When all ranks call and no collective fails, all register what they asked for:
\* no part is split for ever, and no rank waits in a collective that the others do
\* not reach.
AllAnswered ==
    ~errors_return => <>(\A r \in Ranks : hosts[r] # NoList \/ numhosts[r] # 0)
=============================================================================
