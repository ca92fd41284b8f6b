---------------------------- MODULE HostListProofs ----------------------------
(***************************************************************************)
(* Proofs about the collective host list, for every number of ranks, every *)
(* placement of them on hosts and every colouring of the host names.       *)
(***************************************************************************)
EXTENDS HostList, LeastNumber, FiniteSetTheorems, TLAPS

\* The ranks that represent their hosts, and the list they make.
LowestRanks == Promise!LowestRanks
List == Promise!List

\* Parts of the communicator: a rank is in its own, and the members of a part
\* agree on who is in it and on the round.
Parts ==
    \A r \in Ranks :
        /\ r \in group[r]
        /\ \A q \in group[r] : group[q] = group[r] /\ index[q] = index[r]

\* The communicators held at each place of the code, whatever the round.
HeldAt(place, round) ==
    CASE place = "split" /\ round > 0 -> {round - 1}
      [] place = "compare" -> {round - 1}
      [] place = "gather" -> {HostComm}
      [] OTHER -> {}

HeldByPlace ==
    \A r \in Ranks :
        /\ held[r] = HeldAt(pc[r], index[r])
        /\ pc[r] = "start" => index[r] = 0
        /\ pc[r] = "compare" => index[r] > 0

\* The handles of get_unique_host at each place.  Between two rounds both name the
\* communicator of the last, and from a split to the comparison only newcomm does.
Locals(r) ==
    /\ pc[r] = "start" \/ (pc[r] = "split" /\ index[r] = 0) =>
          oldcomm[r] = AdiakCommunicator /\ newcomm[r] = CommNull /\ ~set_oldcomm[r]
    /\ pc[r] = "split" /\ index[r] > 0 =>
          oldcomm[r] = index[r] - 1 /\ newcomm[r] = index[r] - 1 /\ set_oldcomm[r]
    /\ pc[r] = "compare" =>
          /\ newcomm[r] = index[r] - 1
          /\ oldcomm[r] \in {AdiakCommunicator, CommNull}
          /\ index[r] = 1 <=> ~set_oldcomm[r]
          /\ oldcomm[r] = CommNull <=> set_oldcomm[r]
    /\ refreed[r] => /\ pc[r] = "had_error" /\ index[r] > 0
                     /\ set_oldcomm[r] /\ newcomm[r] = oldcomm[r]

HandleTypes ==
    /\ oldcomm \in [Ranks -> {AdiakCommunicator, CommNull} \cup 0..MaxIndex]
    /\ newcomm \in [Ranks -> {CommNull} \cup 0..MaxIndex]
    /\ set_oldcomm \in [Ranks -> BOOLEAN]
    /\ refreed \in [Ranks -> BOOLEAN]

LocalsByPlace == \A r \in Ranks : Locals(r)

\* Between its calls a rank has not begun, has the list, or remembers an error.
IdlePlaces ==
    \A r \in Ranks :
        /\ call[r] = NoCall => pc[r] \in {"start", "cached", "had_error"}
        /\ pc[r] = "had_error" => errors_return

\* After the rounds each host has one representative, and only these gather.
Represented ==
    \A r \in Ranks :
        /\ pc[r] \in {"hostsplit", "gather", "bcast", "cached"} =>
              (unique_host[r] <=> r \in LowestRanks)
        /\ pc[r] = "gather" => unique_host[r]

\* No rank gathers or broadcasts before all have left the rounds, or returns
\* before all have the list.
Phases ==
    \A r, q \in Ranks :
        /\ pc[r] \in {"gather", "bcast", "cached"} => pc[q] \in {"gather", "bcast", "cached"}
        /\ pc[r] = "cached" => pc[q] = "cached"

\* Rank 0 has the list when it broadcasts, the others after that, and it is the one
\* that is promised.
Lists ==
    \A r \in Ranks :
        /\ pc[r] = "cached" => hostlist[r] = List
        /\ pc[r] = "bcast" => hostlist[r] = IF r = 0 THEN List ELSE NoList
        /\ pc[r] \notin {"bcast", "cached"} => hostlist[r] = NoList

\* What has been registered: the list, and the length of the list, or 1 after an
\* error.
RegisteredRight ==
    \A r \in Ranks :
        /\ hosts[r] \in {NoList, List}
        /\ numhosts[r] \in {0, NumHosts(List)} \cup (IF errors_return THEN {1} ELSE {})

\* The type invariant but for the handles and the bound on numhosts, which the others
\* imply.
Types ==
    /\ errors_return \in BOOLEAN
    /\ pc \in [Ranks -> {"start", "split", "compare", "hostsplit", "gather", "bcast",
                         "cached", "had_error"}]
    /\ call \in [Ranks -> Calls \cup {NoCall}]
    /\ group \in [Ranks -> SUBSET Ranks]
    /\ index \in [Ranks -> 0..MaxIndex]
    /\ unique_host \in [Ranks -> BOOLEAN]
    /\ held \in [Ranks -> SUBSET ({HostComm} \cup 0..MaxIndex)]
    /\ numhosts \in [Ranks -> Nat]
    /\ DOMAIN hostlist = Ranks /\ DOMAIN hosts = Ranks

\* The inductive invariant.  HostsStayTogether needs Parts, because MPI_Comm_split
\* compares colours of one round only if the ranks of a part are in the same round;
\* CommsFreed needs HeldByPlace, which the frees preserve because the handles name what
\* is held; what is registered needs the rest.
ListInv ==
    /\ Types /\ Parts /\ HostsStayTogether /\ HeldByPlace /\ IdlePlaces
    /\ Represented /\ Phases /\ Lists /\ RegisteredRight

HostInv == ListInv /\ HandleTypes /\ LocalsByPlace

-----------------------------------------------------------------------------
\* A set of ranks that is not empty has a lowest one, which Lowest finds.
LEMMA LowestExists ==
    ASSUME NEW G, G \subseteq Nat, G # {}
    PROVE  Lowest(G) \in G /\ \A q \in G : Lowest(G) <= q
BY LeastExists DEF Lowest

-----------------------------------------------------------------------------
\* The operators by which the promise is stated.
LEMMA RanksFinite == Ranks \subseteq Nat /\ 0 \in Ranks /\ IsFiniteSet(Ranks)
<1>1. IsFiniteSet(0..(N - 1))
  BY FS_Interval, HostListAssumption DEF HostListAssumption
<1> QED BY <1>1, HostListAssumption DEF HostListAssumption, Ranks

LEMMA LowestRanksDef ==
    LowestRanks = {r \in Ranks : \A q \in Ranks : HostOf[q] = HostOf[r] => r <= q}
BY DEF LowestRanks, Promise!LowestRanks, Promise!Ranks, Ranks

LEMMA ListDef == List = [r \in LowestRanks |-> HostOf[r]]
BY DEF List, Promise!List, LowestRanks

\* Rank 0 represents its host, and no host's list is mistaken for the absence of one.
LEMMA ZeroIsLowest == 0 \in LowestRanks
BY RanksFinite, LowestRanksDef

LEMMA ListIsList == List # NoList
BY LowestRanksDef, ListDef, HostListAssumption DEF HostListAssumption

\* Every host has one lowest rank.
LEMMA HostHasLowest ==
    ASSUME NEW r \in Ranks
    PROVE  \E l \in LowestRanks : HostOf[l] = HostOf[r]
<1> DEFINE G == {q \in Ranks : HostOf[q] = HostOf[r]}
<1>1. Lowest(G) \in G /\ \A q \in G : Lowest(G) <= q
  <2>1. G \subseteq Nat /\ G # {}
    BY RanksFinite
  <2> HIDE DEF G
  <2> QED BY <2>1, LowestExists
<1> QED BY <1>1, LowestRanksDef

LEMMA LowestIsUnique ==
    ASSUME NEW k \in LowestRanks, NEW l \in LowestRanks, HostOf[k] = HostOf[l]
    PROVE  k = l
BY LowestRanksDef, RanksFinite

\* The promised list has as many entries as there are hosts in the job.
LEMMA ListLength ==
    /\ NumHosts(List) = Cardinality({HostOf[q] : q \in Ranks})
    /\ NumHosts(List) \in 1..Cardinality(Hosts)
<1> DEFINE Used == {HostOf[q] : q \in Ranks}
           f == [l \in LowestRanks |-> HostOf[l]]
<1>1. LowestRanks \in SUBSET Ranks
  BY LowestRanksDef
<1>2. IsFiniteSet(LowestRanks)
  BY <1>1, RanksFinite, FS_Subset
<1>3. f \in Bijection(LowestRanks, Used)
  <2>1. f \in [LowestRanks -> Used]
    BY <1>1
  <2>2. \A k, l \in LowestRanks : f[k] = f[l] => k = l
    BY LowestIsUnique
  <2>3. \A h \in Used : \E l \in LowestRanks : f[l] = h
    BY HostHasLowest
  <2> QED BY <2>1, <2>2, <2>3 DEF Bijection, Injection, Surjection, IsInjective
<1>4. ExistsBijection(LowestRanks, Used)
  BY <1>3 DEF ExistsBijection
<1>5. IsFiniteSet(Used) /\ Cardinality(Used) = Cardinality(LowestRanks)
  BY <1>2, <1>4, FS_Bijection
<1>6. NumHosts(List) = Cardinality(LowestRanks)
  BY ListDef DEF NumHosts
<1>7. Used \in SUBSET Hosts /\ IsFiniteSet(Hosts)
  BY HostListAssumption DEF HostListAssumption
<1>8. Cardinality(Used) <= Cardinality(Hosts) /\ Cardinality(Hosts) \in Nat
  BY <1>7, FS_Subset, FS_CardinalityType
<1>9. Cardinality(Used) \in Nat \ {0}
  <2>1. HostOf[0] \in Used
    BY RanksFinite
  <2>2. Used # {}
    BY <2>1
  <2> HIDE DEF Used
  <2> QED BY <1>5, <2>2, FS_EmptySet, FS_CardinalityType
<1> QED BY <1>5, <1>6, <1>8, <1>9

-----------------------------------------------------------------------------
LEMMA InitHost == Init => HostInv
<1> SUFFICES ASSUME Init PROVE HostInv
  OBVIOUS
<1>1. Types
  BY HostListAssumption DEF Init, Types, HostListAssumption, Calls
<1>2. Parts /\ HostsStayTogether /\ HeldByPlace /\ IdlePlaces
  BY DEF Init, Parts, HostsStayTogether, HeldByPlace, HeldAt, IdlePlaces
<1>3. Represented /\ Phases /\ Lists /\ RegisteredRight
  BY DEF Init, Represented, Phases, Lists, RegisteredRight
<1>4. HandleTypes /\ LocalsByPlace
  BY HostListAssumption
     DEF Init, HandleTypes, LocalsByPlace, Locals, AdiakCommunicator, CommNull, HostListAssumption
<1> QED BY <1>1, <1>2, <1>3, <1>4 DEF HostInv, ListInv

LEMMA CallHost ==
    ASSUME HostInv, NEW r \in Ranks, NEW routine \in Calls, Call(r, routine)
    PROVE  ListInv'
<1> USE DEF HostInv, ListInv
<1>1. pc[r] \in {"start", "cached", "had_error"}
  BY DEF Call, IdlePlaces
<1>2. /\ \A q \in Ranks : pc'[q] = IF q = r /\ pc[q] = "start" THEN "split" ELSE pc[q]
      /\ \A q \in Ranks : call'[q] = IF q = r THEN routine ELSE call[q]
      /\ routine # NoCall
  BY DEF Call, Types, Calls, NoCall
<1>3. Types'
  <2>1. call' \in [Ranks -> Calls \cup {NoCall}]
    BY DEF Call, Types
  <2>2. pc' \in [Ranks -> {"start", "split", "compare", "hostsplit", "gather", "bcast",
                         "cached", "had_error"}]
    BY DEF Call, Types
  <2> QED BY <2>1, <2>2 DEF Call, Types, registered
<1>4. Parts' /\ HostsStayTogether' /\ RegisteredRight'
  BY DEF Call, Parts, HostsStayTogether, registered, RegisteredRight
<1>5. UNCHANGED <<errors_return, index, unique_host, held, hostlist>>
  BY DEF Call
<1>6. HeldByPlace' /\ IdlePlaces'
  BY <1>1, <1>2, <1>5 DEF HeldByPlace, HeldAt, IdlePlaces, Types
<1>7. Represented' /\ Phases' /\ Lists'
  BY <1>1, <1>2, <1>5 DEF Represented, Phases, Lists, LowestRanks, List
<1> QED BY <1>3, <1>4, <1>6, <1>7

\* The members of a part are in the same round, so those that go on together have
\* one colour, and ranks of one host are not parted.
LEMMA SplitHost ==
    ASSUME HostInv, NEW p \in Ranks, Split(group[p])
    PROVE  ListInv'
<1> DEFINE G == group[p]
<1> USE DEF HostInv, ListInv
<1>1. /\ G \subseteq Ranks /\ p \in G
      /\ \A r \in G : pc[r] = "split" /\ group[r] = G /\ index[r] = index[p]
      /\ index[p] \in 0..MaxIndex /\ index[p] < MaxIndex
      /\ \A r \in Ranks : group[r] = G => r \in G
  BY DEF Split, Parts, Types
<1>2. /\ \A r \in Ranks : group'[r] = IF r \in G THEN SameColor(r) ELSE group[r]
      /\ \A r \in Ranks : index'[r] = IF r \in G THEN index[r] + 1 ELSE index[r]
      /\ \A r \in Ranks : held'[r] = IF r \in G THEN (held[r] \cup {index[r]}) \ OldFrees(r) ELSE held[r]
      /\ \A r \in Ranks : pc'[r] = IF r \in G THEN "compare" ELSE pc[r]
      /\ UNCHANGED <<errors_return, call, unique_host, hostlist, numhosts, hosts>>
  BY DEF Split, registered
<1>3. \A r, q \in G : q \in SameColor(r) <=> Color[HostOf[q], index[p]] = Color[HostOf[r], index[p]]
  <2> SUFFICES ASSUME NEW r \in G, NEW q \in G
               PROVE  q \in SameColor(r) <=> Color[HostOf[q], index[p]] = Color[HostOf[r], index[p]]
    OBVIOUS
  <2>1. group[r] = G /\ index[r] = index[p] /\ index[q] = index[p]
    BY <1>1
  <2> HIDE DEF G
  <2> QED BY <2>1 DEF SameColor
<1>4. \A r \in G : SameColor(r) \subseteq G /\ r \in SameColor(r)
  <2> SUFFICES ASSUME NEW r \in G PROVE SameColor(r) \subseteq G /\ r \in SameColor(r)
    OBVIOUS
  <2>1. SameColor(r) \subseteq group[r]
    BY DEF SameColor
  <2> QED BY <1>1, <1>3, <2>1
<1>5. \A r, q \in G : q \in SameColor(r) \/ HostOf[q] = HostOf[r] => SameColor(q) = SameColor(r)
  <2> SUFFICES ASSUME NEW r \in G, NEW q \in G, q \in SameColor(r) \/ HostOf[q] = HostOf[r]
               PROVE  SameColor(q) = SameColor(r)
    OBVIOUS
  <2>1. Color[HostOf[q], index[p]] = Color[HostOf[r], index[p]]
    BY <1>3
  <2>2. \A k \in G : k \in SameColor(q) <=> k \in SameColor(r)
    BY <1>3, <2>1
  <2> QED BY <1>4, <2>2
<1>6. \A r \in G : (held[r] \cup {index[r]}) \ OldFrees(r) = {index[p]}
  <2> SUFFICES ASSUME NEW r \in G PROVE (held[r] \cup {index[r]}) \ OldFrees(r) = {index[p]}
    OBVIOUS
  <2>1. r \in Ranks /\ pc[r] = "split" /\ index[r] = index[p] /\ index[p] \in Nat
    BY <1>1, HostListAssumption DEF HostListAssumption
  <2>2. held[r] = IF index[p] = 0 THEN {} ELSE {index[p] - 1}
    BY <2>1 DEF HeldByPlace, HeldAt
  <2>3. Locals(r)
    BY <2>1 DEF LocalsByPlace
  <2>4. OldFrees(r) = IF index[p] = 0 THEN {} ELSE {index[p] - 1}
    BY <2>1, <2>3 DEF Locals, OldFrees
  <2> QED BY <2>1, <2>2, <2>4
<1> HIDE DEF G
<1>7. Types'
  <2>1. \A r \in Ranks : group'[r] \in SUBSET Ranks
    BY <1>1, <1>2, <1>4 DEF Types
  <2>2. group' \in [Ranks -> SUBSET Ranks]
    BY <2>1 DEF Split
  <2>3. \A r \in Ranks : index'[r] \in 0..MaxIndex
    BY <1>1, <1>2, HostListAssumption DEF Types, HostListAssumption
  <2>4. index' \in [Ranks -> 0..MaxIndex]
    BY <2>3 DEF Split
  <2>5. ASSUME NEW r \in Ranks PROVE held'[r] \in SUBSET ({HostComm} \cup 0..MaxIndex)
    <3>1. r \in G => held'[r] = {index[p]}
      BY <1>2, <1>6
    <3>2. r \notin G => held'[r] = held[r]
      BY <1>2
    <3> QED BY <1>1, <3>1, <3>2 DEF Types
  <2>6. held' \in [Ranks -> SUBSET ({HostComm} \cup 0..MaxIndex)]
    BY <2>5 DEF Split
  <2>7. pc' \in [Ranks -> {"start", "split", "compare", "hostsplit", "gather", "bcast",
                         "cached", "had_error"}]
    BY <1>2 DEF Split, Types
  <2> QED BY <1>2, <2>2, <2>4, <2>6, <2>7 DEF Types
<1>8. Parts'
  <2> SUFFICES ASSUME NEW r \in Ranks
               PROVE  /\ r \in group'[r]
                      /\ \A q \in group'[r] : group'[q] = group'[r] /\ index'[q] = index'[r]
    BY DEF Parts
  <2>1. CASE r \in G
    BY <1>1, <1>2, <1>4, <1>5, <2>1
  <2>2. CASE r \notin G
    <3>1. \A q \in group[r] : q \in Ranks /\ q \notin G
      BY <1>1, <2>2 DEF Parts, Types
    <3> QED BY <1>2, <2>2, <3>1 DEF Parts
  <2> QED BY <2>1, <2>2
<1>9. HostsStayTogether'
  <2> SUFFICES ASSUME NEW r \in Ranks, NEW q \in Ranks, HostOf[r] = HostOf[q]
               PROVE  group'[r] = group'[q] /\ index'[r] = index'[q]
    BY DEF HostsStayTogether
  <2>1. group[r] = group[q] /\ index[r] = index[q]
    BY DEF HostsStayTogether
  <2>2. r \in G <=> q \in G
    BY <1>1, <2>1
  <2> QED BY <1>2, <1>5, <2>1, <2>2
<1>10. HeldByPlace' /\ IdlePlaces'
  <2>1. \A r \in G : index'[r] = index[p] + 1 /\ held'[r] = {index[p]} /\ pc'[r] = "compare"
    BY <1>1, <1>2, <1>6
  <2>2. \A r \in G : index'[r] > 0 /\ held'[r] = {index'[r] - 1}
    BY <1>1, <2>1
  <2>3. \A r \in Ranks \ G : index'[r] = index[r] /\ held'[r] = held[r] /\ pc'[r] = pc[r]
    BY <1>2
  <2>4. HeldByPlace'
    BY <2>1, <2>2, <2>3 DEF HeldByPlace, HeldAt
  <2>5. IdlePlaces'
    BY <1>1, <1>2 DEF IdlePlaces
  <2> QED BY <2>4, <2>5
<1>11. Represented' /\ Phases' /\ Lists' /\ RegisteredRight'
  <2>1. p \in G
    BY <1>1
  <2>2. \A q \in Ranks : pc[q] \notin {"gather", "bcast", "cached"}
    BY <1>1, <2>1 DEF Phases
  <2>3. \A q \in Ranks : pc'[q] \notin {"gather", "bcast", "cached"}
    BY <1>2, <2>2
  <2>4. RegisteredRight'
    BY <1>2 DEF RegisteredRight, List, NumHosts
  <2> QED BY <1>1, <1>2, <2>2, <2>3, <2>4 DEF Represented, Phases, Lists, LowestRanks, List
<1> QED BY <1>7, <1>8, <1>9, <1>10, <1>11

\* What the label error frees on a rank whose round is done: its communicator, once.
LEMMA CompareFrees ==
    ASSUME HostInv, NEW r \in Ranks, pc[r] = "compare"
    PROVE  /\ ExitFrees(oldcomm[r], newcomm[r]) = {index[r] - 1}
           /\ held[r] = {index[r] - 1}
           /\ ~ExitRefrees(r, oldcomm[r], newcomm[r])
<1>1. held[r] = {index[r] - 1} /\ index[r] > 0 /\ index[r] \in Nat
  BY HostListAssumption
     DEF HostInv, ListInv, HeldByPlace, HeldAt, Types, HostListAssumption
<1>2. newcomm[r] = index[r] - 1 /\ oldcomm[r] \in {AdiakCommunicator, CommNull}
  BY DEF HostInv, LocalsByPlace, Locals
<1> QED BY <1>1, <1>2 DEF ExitFrees, ExitRefrees, AdiakCommunicator, CommNull

\* A part of one name is all the ranks of that host, and its lowest rank represents it.
LEMMA AgreeHost ==
    ASSUME HostInv, NEW p \in Ranks, Agree(group[p])
    PROVE  ListInv'
<1> DEFINE G == group[p]
<1> USE DEF HostInv, ListInv
<1>1. /\ G \subseteq Ranks /\ p \in G
      /\ \A r \in G : pc[r] = "compare" /\ group[r] = G
      /\ \A r \in G : HostOf[r] = HostOf[Lowest(G)]
  BY DEF Agree, OneName, Parts, Types
<1>2. /\ \A r \in Ranks : unique_host'[r] = IF r \in G THEN r = Lowest(G) ELSE unique_host[r]
      /\ \A r \in Ranks : held'[r] = IF r \in G THEN held[r] \ ExitFrees(oldcomm[r], newcomm[r]) ELSE held[r]
      /\ \A r \in Ranks : pc'[r] = IF r \in G THEN "hostsplit" ELSE pc[r]
      /\ UNCHANGED <<errors_return, call, group, index, hostlist, numhosts, hosts>>
  BY DEF Agree, registered
<1>3. Lowest(G) \in G /\ \A q \in G : Lowest(G) <= q
  <2>1. G \subseteq Nat /\ G # {}
    BY <1>1, RanksFinite
  <2> HIDE DEF G
  <2> QED BY <2>1, LowestExists
<1>4. \A r \in G : r = Lowest(G) <=> r \in LowestRanks
  <2> SUFFICES ASSUME NEW r \in G PROVE r = Lowest(G) <=> r \in LowestRanks
    OBVIOUS
  <2>1. \A q \in Ranks : HostOf[q] = HostOf[r] <=> q \in G
    BY <1>1 DEF HostsStayTogether, Parts
  <2>2. r \in LowestRanks <=> \A q \in G : r <= q
    BY <1>1, <2>1, LowestRanksDef
  <2>3. Lowest(G) \in Nat /\ r \in Nat
    BY <1>1, <1>3, RanksFinite
  <2> QED BY <1>3, <2>2, <2>3
<1> HIDE DEF G
<1>5. Types'
  <2>1. unique_host' \in [Ranks -> BOOLEAN]
    BY <1>2 DEF Agree, Types, G
  <2>2. held' \in [Ranks -> SUBSET ({HostComm} \cup 0..MaxIndex)]
    BY <1>2 DEF Agree, Types, G
  <2>3. pc' \in [Ranks -> {"start", "split", "compare", "hostsplit", "gather", "bcast",
                         "cached", "had_error"}]
    BY <1>2 DEF Agree, Types, G
  <2> QED BY <1>2, <2>1, <2>2, <2>3 DEF Types
<1>6. Parts' /\ HostsStayTogether'
  BY <1>2 DEF Parts, HostsStayTogether
<1>7. HeldByPlace' /\ IdlePlaces'
  <2>1. \A r \in G : held'[r] = {}
    BY <1>1, <1>2, CompareFrees DEF HeldByPlace, HeldAt
  <2>2. \A r \in Ranks \ G : held'[r] = held[r] /\ pc'[r] = pc[r]
    BY <1>2
  <2>3. \A r \in G : pc'[r] = "hostsplit"
    BY <1>1, <1>2
  <2>4. HeldByPlace'
    BY <1>2, <2>1, <2>2, <2>3 DEF HeldByPlace, HeldAt
  <2>5. IdlePlaces'
    BY <1>1, <1>2 DEF IdlePlaces
  <2> QED BY <2>4, <2>5
<1>8. Represented' /\ Phases' /\ Lists' /\ RegisteredRight'
  <2>1. \A q \in Ranks : pc[q] \notin {"gather", "bcast", "cached"}
    BY <1>1 DEF Phases
  <2>2. \A q \in Ranks : pc'[q] \notin {"gather", "bcast", "cached"}
    BY <1>2, <2>1
  <2>3. \A q \in Ranks : pc'[q] = "hostsplit" => (unique_host'[q] <=> q \in LowestRanks)
    BY <1>1, <1>2, <1>4 DEF Represented
  <2>4. RegisteredRight'
    BY <1>2 DEF RegisteredRight, List, NumHosts
  <2> QED BY <1>2, <2>1, <2>2, <2>3, <2>4 DEF Represented, Phases, Lists, LowestRanks, List
<1> QED BY <1>5, <1>6, <1>7, <1>8

LEMMA DifferHost ==
    ASSUME HostInv, NEW p \in Ranks, Differ(group[p])
    PROVE  ListInv'
<1> DEFINE G == group[p]
<1> USE DEF HostInv, ListInv
<1>1. /\ G \subseteq Ranks /\ p \in G
      /\ \A r \in G : pc[r] = "compare"
  BY DEF Differ, Parts, Types
<1>2. /\ \A r \in Ranks : pc'[r] = IF r \in G THEN "split" ELSE pc[r]
      /\ UNCHANGED <<errors_return, call, group, index, unique_host, held, hostlist, numhosts, hosts>>
  BY DEF Differ, registered
<1> HIDE DEF G
<1>3. Types'
  <2>1. pc' \in [Ranks -> {"start", "split", "compare", "hostsplit", "gather", "bcast",
                         "cached", "had_error"}]
    BY <1>2 DEF Differ, Types, G
  <2> QED BY <1>2, <2>1 DEF Types
<1>4. Parts' /\ HostsStayTogether'
  BY <1>2 DEF Parts, HostsStayTogether
<1>5. HeldByPlace' /\ IdlePlaces'
  BY <1>1, <1>2 DEF HeldByPlace, HeldAt, IdlePlaces, Types
<1>6. Represented' /\ Phases' /\ Lists' /\ RegisteredRight'
  <2>1. \A q \in Ranks : pc[q] \notin {"gather", "bcast", "cached"}
    BY <1>1 DEF Phases
  <2>2. RegisteredRight'
    BY <1>2 DEF RegisteredRight, List, NumHosts
  <2> QED BY <1>2, <2>1, <2>2 DEF Represented, Phases, Lists, LowestRanks, List
<1> QED BY <1>3, <1>4, <1>5, <1>6

\* The representatives get hostcomm, and the others free theirs.
LEMMA HostSplitHost == HostInv /\ HostSplit => ListInv'
<1> SUFFICES ASSUME HostInv, HostSplit PROVE ListInv'
  OBVIOUS
<1> USE DEF HostInv, ListInv
<1>1. /\ \A r \in Ranks : pc[r] = "hostsplit" /\ held[r] = {}
      /\ \A r \in Ranks : unique_host[r] <=> r \in LowestRanks
  BY DEF HostSplit, HeldByPlace, HeldAt, Represented
<1>2. /\ \A r \in Ranks : held'[r] = IF unique_host[r] THEN {HostComm} ELSE {}
      /\ \A r \in Ranks : pc'[r] = IF unique_host[r] THEN "gather" ELSE "bcast"
      /\ UNCHANGED <<errors_return, call, group, index, unique_host, hostlist, numhosts, hosts>>
  BY <1>1 DEF HostSplit, registered
<1>3. Types'
  <2>1. pc' \in [Ranks -> {"start", "split", "compare", "hostsplit", "gather", "bcast",
                         "cached", "had_error"}]
    BY DEF HostSplit
  <2>2. held' \in [Ranks -> SUBSET ({HostComm} \cup 0..MaxIndex)]
    BY <1>1 DEF HostSplit
  <2> QED BY <1>2, <2>1, <2>2 DEF Types
<1>4. Parts' /\ HostsStayTogether' /\ RegisteredRight'
  BY <1>2 DEF Parts, HostsStayTogether, RegisteredRight, List, NumHosts
<1>5. HeldByPlace' /\ IdlePlaces'
  BY <1>1, <1>2 DEF HeldByPlace, HeldAt, IdlePlaces
<1>6. Represented' /\ Phases' /\ Lists'
  <2>1. \A r \in Ranks : hostlist[r] = NoList /\ pc'[r] \in {"gather", "bcast"}
    BY <1>1, <1>2 DEF Lists
  <2>2. pc'[0] = "gather"
    BY <1>1, <1>2, ZeroIsLowest, RanksFinite
  <2>3. Represented' /\ Phases'
    BY <1>1, <1>2, <2>1 DEF Represented, Phases, LowestRanks
  <2>4. Lists'
    BY <1>2, <2>1, <2>2 DEF Lists
  <2> QED BY <2>3, <2>4
<1> QED BY <1>3, <1>4, <1>5, <1>6

\* The representatives are all in the gather, rank 0 among them, and the list it
\* gets is the one promised.
LEMMA GatherHost == HostInv /\ Gather => ListInv'
<1> SUFFICES ASSUME HostInv, Gather PROVE ListInv'
  OBVIOUS
<1> USE DEF HostInv, ListInv
<1>1. /\ \A r \in Ranks : pc[r] \in {"gather", "bcast"}
      /\ \A r \in Ranks : unique_host[r] <=> r \in LowestRanks
      /\ \A r \in Ranks : pc[r] = "gather" <=> unique_host[r]
  <2>1. PICK g \in Ranks : unique_host[g] /\ pc[g] = "gather"
    BY DEF Gather, Representatives
  <2>2. \A r \in Ranks : pc[r] \in {"gather", "bcast", "cached"}
    BY <2>1 DEF Phases
  <2>3. \A r \in Ranks : pc[r] # "cached"
    BY <2>1 DEF Phases
  <2>4. \A r \in Ranks : unique_host[r] => pc[r] = "gather"
    BY DEF Gather, Representatives
  <2> QED BY <2>2, <2>3, <2>4 DEF Represented
<1>2. Representatives = LowestRanks
  BY <1>1, LowestRanksDef DEF Representatives
<1>3. /\ unique_host[0] /\ 0 \in Ranks
      /\ [r \in Representatives |-> HostOf[r]] = List
  BY <1>1, <1>2, ZeroIsLowest, RanksFinite, ListDef
<1>4. /\ \A r \in Ranks : hostlist'[r] = IF r = 0 THEN List ELSE hostlist[r]
      /\ DOMAIN hostlist' = Ranks
      /\ \A r \in Ranks : held'[r] = IF unique_host[r] THEN held[r] \ {HostComm} ELSE held[r]
      /\ \A r \in Ranks : pc'[r] = "bcast"
      /\ UNCHANGED <<errors_return, call, group, index, unique_host, numhosts, hosts>>
  BY <1>1, <1>3 DEF Gather, Types, registered
<1>5. \A r \in Ranks : held'[r] = {}
  BY <1>1, <1>4 DEF HeldByPlace, HeldAt
<1>6. Types'
  <2>1. pc' \in [Ranks -> {"start", "split", "compare", "hostsplit", "gather", "bcast",
                         "cached", "had_error"}]
    BY <1>4 DEF Gather
  <2>2. held' \in [Ranks -> SUBSET ({HostComm} \cup 0..MaxIndex)]
    BY <1>5 DEF Gather
  <2> QED BY <1>4, <2>1, <2>2 DEF Types
<1>7. Parts' /\ HostsStayTogether' /\ RegisteredRight'
  BY <1>4 DEF Parts, HostsStayTogether, RegisteredRight, List, NumHosts
<1>8. HeldByPlace' /\ IdlePlaces'
  BY <1>1, <1>4, <1>5 DEF HeldByPlace, HeldAt, IdlePlaces
<1>9. Represented' /\ Phases' /\ Lists'
  <2>1. \A r \in Ranks \ {0} : hostlist'[r] = NoList
    BY <1>1, <1>3, <1>4 DEF Lists
  <2>2. Lists'
    BY <1>4, <2>1, LowestRanksDef DEF Lists, List
  <2> QED BY <1>1, <1>4, <2>2 DEF Represented, Phases, LowestRanks
<1> QED BY <1>6, <1>7, <1>8, <1>9

\* What rank 0 has becomes the list of every rank.
LEMMA BcastHost == HostInv /\ Bcast => ListInv'
<1> SUFFICES ASSUME HostInv, Bcast PROVE ListInv'
  OBVIOUS
<1> USE DEF HostInv, ListInv
<1>1. /\ \A r \in Ranks : pc[r] = "bcast" /\ held[r] = {}
      /\ hostlist[0] = List
  BY RanksFinite DEF Bcast, HeldByPlace, HeldAt, Lists
<1>2. /\ \A r \in Ranks : hostlist'[r] = List /\ pc'[r] = "cached"
      /\ DOMAIN hostlist' = Ranks
      /\ UNCHANGED <<errors_return, call, group, index, unique_host, held, numhosts, hosts>>
  BY <1>1 DEF Bcast, registered
<1>3. Types'
  <2>1. pc' \in [Ranks -> {"start", "split", "compare", "hostsplit", "gather", "bcast",
                         "cached", "had_error"}]
    BY DEF Bcast
  <2> QED BY <1>2, <2>1 DEF Types
<1>4. Parts' /\ HostsStayTogether' /\ RegisteredRight'
  BY <1>2 DEF Parts, HostsStayTogether, RegisteredRight, List, NumHosts
<1>5. HeldByPlace' /\ IdlePlaces'
  BY <1>1, <1>2 DEF HeldByPlace, HeldAt, IdlePlaces
<1>6. Represented' /\ Phases' /\ Lists'
  BY <1>1, <1>2 DEF Represented, Phases, Lists, LowestRanks, List
<1> QED BY <1>3, <1>4, <1>5, <1>6

\* What a failing rank frees is all it holds, whichever handles name it.
LEMMA FailFrees ==
    ASSUME HostInv, NEW r \in Ranks, Fail(r)
    PROVE  /\ \A q \in Ranks : held'[q] = IF q = r THEN {} ELSE held[q]
           /\ refreed'[r] => index[r] > 0 /\ set_oldcomm[r] /\ newcomm'[r] = oldcomm[r]
<1>1. PICK new \in {newcomm[r]} \cup (IF pc[r] = "split" THEN {CommNull} ELSE {}) :
          /\ newcomm' = [newcomm EXCEPT ![r] = new]
          /\ held' = [held EXCEPT ![r] = @ \ ExitFrees(oldcomm[r], new)]
          /\ refreed' = [refreed EXCEPT ![r] = @ \/ ExitRefrees(r, oldcomm[r], new)]
  BY DEF Fail
<1>2. /\ pc[r] \in {"split", "compare"} /\ index[r] \in Nat
      /\ DOMAIN held = Ranks /\ DOMAIN refreed = Ranks /\ DOMAIN newcomm = Ranks
  BY HostListAssumption DEF Fail, HostInv, ListInv, Types, HandleTypes, HostListAssumption
<1>3. /\ \A q \in Ranks : held'[q] = IF q = r THEN held[r] \ ExitFrees(oldcomm[r], new) ELSE held[q]
      /\ refreed'[r] <=> refreed[r] \/ ExitRefrees(r, oldcomm[r], new)
      /\ newcomm'[r] = new
  BY <1>1, <1>2
<1>4. Locals(r) /\ ~refreed[r]
  BY <1>2 DEF HostInv, LocalsByPlace, Locals
<1>5. CASE pc[r] = "compare"
  <2>1. new = newcomm[r]
    BY <1>5
  <2> QED BY <1>3, <1>4, <1>5, <2>1, CompareFrees
<1>6. CASE pc[r] = "split" /\ index[r] = 0
  <2>1. oldcomm[r] = AdiakCommunicator /\ new = CommNull
    BY <1>4, <1>6 DEF Locals
  <2>2. held[r] = {}
    <3>1. held[r] = HeldAt("split", 0)
      BY <1>6 DEF HostInv, ListInv, HeldByPlace
    <3> QED BY <3>1 DEF HeldAt
  <2>3. ExitFrees(oldcomm[r], new) = {}
    BY <2>1 DEF ExitFrees
  <2>4. ~ExitRefrees(r, oldcomm[r], new)
    BY <2>1, <2>3 DEF ExitRefrees
  <2> QED BY <1>3, <1>4, <2>2, <2>3, <2>4
<1>7. CASE pc[r] = "split" /\ index[r] > 0
  <2>1. oldcomm[r] = index[r] - 1 /\ new \in {index[r] - 1, CommNull} /\ set_oldcomm[r]
    BY <1>4, <1>7 DEF Locals
  <2>2. held[r] = {index[r] - 1}
    BY <1>7 DEF HostInv, ListInv, HeldByPlace, HeldAt
  <2>3. ExitFrees(oldcomm[r], new) = {index[r] - 1}
    BY <1>2, <1>7, <2>1 DEF ExitFrees, AdiakCommunicator, CommNull
  <2>4. ExitRefrees(r, oldcomm[r], new) => new = oldcomm[r]
    BY <2>2, <2>3 DEF ExitRefrees
  <2> QED BY <1>3, <1>4, <1>7, <2>1, <2>2, <2>3, <2>4
<1> QED BY <1>2, <1>5, <1>6, <1>7

\* A failing rank frees what it holds.  No other rank is past the rounds, nor will be.
LEMMA FailHost ==
    ASSUME HostInv, NEW r \in Ranks, Fail(r)
    PROVE  ListInv'
<1> USE DEF HostInv, ListInv
<1>1. errors_return /\ pc[r] \in {"split", "compare"}
  BY DEF Fail
<1>2. /\ \A q \in Ranks : pc'[q] = IF q = r THEN "had_error" ELSE pc[q]
      /\ UNCHANGED <<errors_return, call, group, index, unique_host, hostlist, numhosts, hosts>>
  BY DEF Fail, Types, registered
<1>7. \A q \in Ranks : held'[q] = IF q = r THEN {} ELSE held[q]
  BY <1>1, FailFrees
<1>3. Types'
  <2>1. pc' \in [Ranks -> {"start", "split", "compare", "hostsplit", "gather", "bcast",
                         "cached", "had_error"}]
    BY DEF Fail, Types
  <2>2. held' \in [Ranks -> SUBSET ({HostComm} \cup 0..MaxIndex)]
    BY DEF Fail, Types
  <2> QED BY <1>2, <2>1, <2>2 DEF Types
<1>4. Parts' /\ HostsStayTogether' /\ RegisteredRight'
  BY <1>2 DEF Parts, HostsStayTogether, RegisteredRight, List, NumHosts
<1>5. HeldByPlace' /\ IdlePlaces'
  BY <1>1, <1>2, <1>7 DEF HeldByPlace, HeldAt, IdlePlaces
<1>6. Represented' /\ Phases' /\ Lists'
  <2>1. \A q \in Ranks : pc[q] \notin {"gather", "bcast", "cached"}
    BY <1>1 DEF Phases
  <2> QED BY <1>1, <1>2, <2>1 DEF Represented, Phases, Lists, LowestRanks, List
<1> QED BY <1>3, <1>4, <1>5, <1>6

\* What is registered comes from the list, or from its absence after an error.
LEMMA ReturnHost ==
    ASSUME HostInv, NEW r \in Ranks, Return(r)
    PROVE  ListInv'
<1> USE DEF HostInv, ListInv
<1>1. /\ call[r] # NoCall /\ pc[r] \in {"cached", "had_error"}
      /\ pc[r] = "cached" => hostlist[r] = List
      /\ pc[r] = "had_error" => hostlist[r] = NoList /\ errors_return
  BY DEF Return, Lists, IdlePlaces
<1>2. /\ \A q \in Ranks : call'[q] = IF q = r THEN NoCall ELSE call[q]
      /\ \A q \in Ranks : hosts'[q] = IF q = r /\ call[r] = "hostlist" THEN hostlist[r] ELSE hosts[q]
      /\ DOMAIN hosts' = Ranks
      /\ UNCHANGED <<errors_return, pc, group, index, unique_host, held, hostlist>>
  BY DEF Return, Types
<1>3. \A q \in Ranks : numhosts'[q] = numhosts[q] \/ (q = r /\ numhosts'[q] =
                           IF hostlist[r] = NoList THEN 1 ELSE NumHosts(hostlist[r]))
  BY DEF Return, Types
<1>4. Types'
  <2>1. call' \in [Ranks -> Calls \cup {NoCall}]
    BY DEF Return, Types
  <2>2. NumHosts(List) \in Nat
    BY ListLength, HostListAssumption, FS_CardinalityType DEF HostListAssumption
  <2>3. (IF hostlist[r] = NoList THEN 1 ELSE NumHosts(hostlist[r])) \in Nat
    BY <1>1, <2>2, ListIsList
  <2>4. numhosts' \in [Ranks -> Nat]
    BY <2>3 DEF Return, Types
  <2> QED BY <1>2, <2>1, <2>4 DEF Types
<1>5. Parts' /\ HostsStayTogether'
  BY <1>2 DEF Parts, HostsStayTogether
<1>6. HeldByPlace' /\ IdlePlaces'
  BY <1>1, <1>2 DEF HeldByPlace, HeldAt, IdlePlaces
<1>7. Represented' /\ Phases' /\ Lists'
  BY <1>2 DEF Represented, Phases, Lists, LowestRanks, List
<1>8. RegisteredRight'
  <2>1. List' = List
    BY DEF List
  <2>2. \A q \in Ranks : hosts'[q] \in {NoList, List}
    BY <1>1, <1>2 DEF RegisteredRight
  <2>3. IF hostlist[r] = NoList THEN errors_return ELSE hostlist[r] = List
    BY <1>1, ListIsList
  <2>4. \A q \in Ranks : numhosts'[q] \in {0, NumHosts(List)} \cup (IF errors_return THEN {1} ELSE {})
    BY <1>3, <2>3 DEF RegisteredRight
  <2> QED BY <1>2, <2>1, <2>2, <2>4 DEF RegisteredRight, NumHosts
<1> QED BY <1>4, <1>5, <1>6, <1>7, <1>8

-----------------------------------------------------------------------------
\* Split frees the one handle that names the last round's communicator, and leaves
\* the new one in newcomm.
LEMMA SplitLocals ==
    ASSUME HostInv, NEW p \in Ranks, Split(group[p])
    PROVE  HandleTypes' /\ LocalsByPlace'
<1> DEFINE G == group[p]
<1>1. /\ G \subseteq Ranks
      /\ \A r \in G : /\ pc[r] = "split" /\ index[r] \in 0..MaxIndex
                      /\ Locals(r) /\ held[r] = HeldAt("split", index[r])
      /\ MaxIndex \in Nat
  BY HostListAssumption DEF Split, HostInv, ListInv, Types, LocalsByPlace, HeldByPlace, HostListAssumption
<1>2. /\ \A r \in Ranks : index'[r] = IF r \in G THEN index[r] + 1 ELSE index[r]
      /\ \A r \in Ranks : newcomm'[r] = IF r \in G THEN index[r] ELSE newcomm[r]
      /\ \A r \in Ranks : oldcomm'[r] = IF r \in G THEN OldAfterSplit(r) ELSE oldcomm[r]
      /\ \A r \in Ranks : (refreed'[r] <=> refreed[r] \/ (r \in G /\ ~(OldFrees(r) \subseteq held[r])))
      /\ \A r \in Ranks : pc'[r] = IF r \in G THEN "compare" ELSE pc[r]
      /\ set_oldcomm' = set_oldcomm
      /\ DOMAIN newcomm' = Ranks /\ DOMAIN oldcomm' = Ranks /\ DOMAIN refreed' = Ranks
  BY DEF Split
<1>3. \A r \in G : /\ OldFrees(r) \subseteq held[r]
                   /\ OldAfterSplit(r) = IF index[r] = 0 THEN AdiakCommunicator ELSE CommNull
                   /\ set_oldcomm[r] <=> index[r] # 0
                   /\ ~refreed[r]
  <2> SUFFICES ASSUME NEW r \in G
               PROVE  /\ OldFrees(r) \subseteq held[r]
                      /\ OldAfterSplit(r) = IF index[r] = 0 THEN AdiakCommunicator ELSE CommNull
                      /\ set_oldcomm[r] <=> index[r] # 0
                      /\ ~refreed[r]
    OBVIOUS
  <2>1. pc[r] = "split" /\ index[r] \in Nat /\ Locals(r) /\ held[r] = HeldAt("split", index[r])
    BY <1>1
  <2>2. ~refreed[r]
    BY <2>1 DEF Locals
  <2>3. CASE index[r] = 0
    <3>1. oldcomm[r] = AdiakCommunicator /\ ~set_oldcomm[r]
      BY <2>1, <2>3 DEF Locals
    <3> QED BY <2>2, <2>3, <3>1 DEF OldFrees, OldAfterSplit
  <2>4. CASE index[r] > 0
    <3>1. oldcomm[r] = index[r] - 1 /\ set_oldcomm[r]
      BY <2>1, <2>4 DEF Locals
    <3>2. held[r] = {index[r] - 1}
      BY <2>1, <2>4 DEF HeldAt
    <3> QED BY <2>1, <2>2, <2>4, <3>1, <3>2 DEF OldFrees, OldAfterSplit
  <2> QED BY <2>1, <2>3, <2>4
<1> HIDE DEF G
<1>4. \A r \in Ranks : /\ oldcomm'[r] \in {AdiakCommunicator, CommNull} \cup 0..MaxIndex
                       /\ newcomm'[r] \in {CommNull} \cup 0..MaxIndex
  BY <1>1, <1>2, <1>3 DEF HostInv, HandleTypes
<1>5. HandleTypes'
  <2>1. oldcomm' \in [Ranks -> {AdiakCommunicator, CommNull} \cup 0..MaxIndex]
    BY <1>4 DEF Split
  <2>2. newcomm' \in [Ranks -> {CommNull} \cup 0..MaxIndex]
    BY <1>4 DEF Split
  <2>3. refreed' \in [Ranks -> BOOLEAN]
    BY DEF Split, HostInv, HandleTypes
  <2> QED BY <1>2, <2>1, <2>2, <2>3 DEF HostInv, HandleTypes
<1>6. ASSUME NEW r \in Ranks PROVE Locals(r)'
  <2>1. CASE r \in G
    <3>1. /\ pc'[r] = "compare" /\ index'[r] = index[r] + 1 /\ newcomm'[r] = index[r]
          /\ index[r] \in Nat /\ oldcomm'[r] = OldAfterSplit(r)
      BY <1>1, <1>2, <2>1
    <3>2. oldcomm'[r] = IF index[r] = 0 THEN AdiakCommunicator ELSE CommNull
      BY <1>3, <2>1, <3>1
    <3>3. ~refreed'[r]
      BY <1>2, <1>3, <2>1
    <3>4. set_oldcomm'[r] <=> index[r] # 0
      BY <1>2, <1>3, <2>1
    <3>5. AdiakCommunicator # CommNull
      BY DEF AdiakCommunicator, CommNull
    <3> QED BY <3>1, <3>2, <3>3, <3>4, <3>5 DEF Locals
  <2>2. CASE r \notin G
    BY <1>2, <2>2 DEF HostInv, LocalsByPlace, Locals
  <2> QED BY <2>1, <2>2
<1> QED BY <1>5, <1>6 DEF LocalsByPlace

\* Agree frees the handle of the round, and nothing twice.
LEMMA AgreeLocals ==
    ASSUME HostInv, NEW p \in Ranks, Agree(group[p])
    PROVE  HandleTypes' /\ LocalsByPlace'
<1> DEFINE G == group[p]
<1>1. \A r \in G : r \in Ranks /\ pc[r] = "compare"
  BY DEF Agree, HostInv, ListInv, Types
<1>2. /\ \A r \in Ranks : (refreed'[r] <=> refreed[r] \/ (r \in G /\ ExitRefrees(r, oldcomm[r], newcomm[r])))
      /\ \A r \in Ranks : pc'[r] = IF r \in G THEN "hostsplit" ELSE pc[r]
      /\ UNCHANGED <<oldcomm, newcomm, set_oldcomm, index>>
      /\ refreed' \in [Ranks -> BOOLEAN]
  BY DEF Agree, HostInv, HandleTypes
<1> HIDE DEF G
<1>3. HandleTypes'
  BY <1>2 DEF HostInv, HandleTypes
<1>4. \A r \in G : ~ExitRefrees(r, oldcomm[r], newcomm[r])
  BY <1>1, CompareFrees
<1>5. \A r \in Ranks : refreed'[r] = refreed[r]
  BY <1>2, <1>4 DEF HostInv, HandleTypes
<1>6. ASSUME NEW r \in Ranks PROVE Locals(r)'
  <2>1. Locals(r)
    BY DEF HostInv, LocalsByPlace
  <2>2. r \in G => ~refreed[r]
    BY <1>1, <2>1 DEF Locals
  <2> QED BY <1>2, <1>5, <2>1, <2>2 DEF Locals
<1> QED BY <1>3, <1>6 DEF LocalsByPlace

\* Differ leaves the handle of the round in oldcomm and newcomm.
LEMMA DifferLocals ==
    ASSUME HostInv, NEW p \in Ranks, Differ(group[p])
    PROVE  HandleTypes' /\ LocalsByPlace'
<1> DEFINE G == group[p]
<1>1. \A r \in G : /\ r \in Ranks /\ pc[r] = "compare" /\ Locals(r)
                   /\ index[r] > 0 /\ index[r] \in 0..MaxIndex
  BY DEF Differ, HostInv, ListInv, Types, HeldByPlace, LocalsByPlace
<1>2. /\ \A r \in Ranks : (set_oldcomm'[r] <=> r \in G \/ set_oldcomm[r])
      /\ \A r \in Ranks : oldcomm'[r] = IF r \in G THEN newcomm[r] ELSE oldcomm[r]
      /\ \A r \in Ranks : pc'[r] = IF r \in G THEN "split" ELSE pc[r]
      /\ UNCHANGED <<newcomm, refreed, index>>
  BY DEF Differ
<1>3. HandleTypes'
  <2>1. oldcomm' \in [Ranks -> {AdiakCommunicator, CommNull} \cup 0..MaxIndex]
    BY DEF Differ, HostInv, HandleTypes
  <2>2. set_oldcomm' \in [Ranks -> BOOLEAN]
    BY DEF Differ, HostInv, HandleTypes
  <2> QED BY <1>2, <2>1, <2>2 DEF HostInv, HandleTypes
<1> HIDE DEF G
<1>4. ASSUME NEW r \in Ranks PROVE Locals(r)'
  <2>1. CASE r \in G
    <3>1. newcomm[r] = index[r] - 1 /\ ~refreed[r]
      BY <1>1, <2>1 DEF Locals
    <3>2. /\ pc'[r] = "split" /\ oldcomm'[r] = index[r] - 1 /\ newcomm'[r] = index[r] - 1
          /\ index'[r] = index[r] /\ index[r] > 0 /\ index[r] \in Nat
      BY <1>1, <1>2, <2>1, <3>1, HostListAssumption DEF HostListAssumption
    <3>3. set_oldcomm'[r]
      BY <1>2, <2>1
    <3>4. ~refreed'[r]
      BY <1>2, <3>1
    <3> QED BY <3>2, <3>3, <3>4 DEF Locals
  <2>2. CASE r \notin G
    BY <1>2, <2>2 DEF HostInv, HandleTypes, LocalsByPlace, Locals
  <2> QED BY <2>1, <2>2
<1> QED BY <1>3, <1>4 DEF LocalsByPlace

\* A failing rank leaves the rounds, with nothing freed twice unless a split failed.
LEMMA FailLocals ==
    ASSUME HostInv, NEW r \in Ranks, Fail(r)
    PROVE  HandleTypes' /\ LocalsByPlace'
<1>1. PICK new \in {newcomm[r]} \cup (IF pc[r] = "split" THEN {CommNull} ELSE {}) :
          /\ newcomm' = [newcomm EXCEPT ![r] = new]
          /\ refreed' = [refreed EXCEPT ![r] = @ \/ ExitRefrees(r, oldcomm[r], new)]
  BY DEF Fail
<1>2. /\ UNCHANGED <<oldcomm, set_oldcomm, index>>
      /\ pc' = [pc EXCEPT ![r] = "had_error"]
      /\ DOMAIN pc = Ranks
  BY DEF Fail, HostInv, ListInv, Types
<1>3. HandleTypes'
  <2>1. new \in {CommNull} \cup 0..MaxIndex
    BY DEF HostInv, HandleTypes
  <2>2. newcomm' \in [Ranks -> {CommNull} \cup 0..MaxIndex]
    BY <1>1, <2>1 DEF HostInv, HandleTypes
  <2>3. (refreed[r] \/ ExitRefrees(r, oldcomm[r], new)) \in BOOLEAN
    BY DEF HostInv, HandleTypes, ExitRefrees
  <2>4. refreed' \in [Ranks -> BOOLEAN]
    BY <1>1, <2>3 DEF HostInv, HandleTypes
  <2> QED BY <1>2, <2>2, <2>4 DEF HostInv, HandleTypes
<1>4. ASSUME NEW q \in Ranks PROVE Locals(q)'
  <2>1. CASE q = r
    <3>1. pc'[q] = "had_error"
      BY <1>2, <2>1
    <3>2. refreed'[q] => index'[q] > 0 /\ set_oldcomm'[q] /\ newcomm'[q] = oldcomm'[q]
      BY <1>2, <2>1, FailFrees
    <3> QED BY <3>1, <3>2 DEF Locals
  <2>2. CASE q # r
    <3>1. pc'[q] = pc[q] /\ newcomm'[q] = newcomm[q] /\ refreed'[q] = refreed[q]
      BY <1>1, <1>2, <2>2 DEF HostInv, HandleTypes
    <3> QED BY <1>2, <3>1 DEF HostInv, LocalsByPlace, Locals
  <2> QED BY <2>1, <2>2
<1> QED BY <1>3, <1>4 DEF LocalsByPlace

\* The other actions leave the handles alone, and no rank enters the rounds except
\* at the first.
LEMMA OtherLocals ==
    ASSUME HostInv, UNCHANGED <<handles, index>>,
           \A r \in Ranks : \/ pc'[r] = pc[r]
                            \/ pc[r] = "start" /\ pc'[r] = "split"
                            \/ pc[r] # "had_error" /\ pc'[r] \notin {"start", "split", "compare"}
    PROVE  HandleTypes' /\ LocalsByPlace'
<1>1. UNCHANGED <<oldcomm, newcomm, set_oldcomm, refreed, index>>
  BY DEF handles
<1>2. HandleTypes'
  BY <1>1 DEF HostInv, HandleTypes
<1>3. ASSUME NEW r \in Ranks PROVE Locals(r)'
  <2>1. Locals(r) /\ (pc[r] = "start" => index[r] = 0)
    BY DEF HostInv, ListInv, HeldByPlace, LocalsByPlace
  <2> QED BY <1>1, <2>1 DEF Locals
<1> QED BY <1>2, <1>3 DEF LocalsByPlace

LEMMA NextLocals == HostInv /\ [Next]_vars => HandleTypes' /\ LocalsByPlace'
<1> SUFFICES ASSUME HostInv, [Next]_vars PROVE HandleTypes' /\ LocalsByPlace'
  OBVIOUS
<1>0. DOMAIN pc = Ranks
  BY DEF HostInv, ListInv, Types
<1>1. ASSUME NEW r \in Ranks, NEW routine \in Calls, Call(r, routine)
      PROVE  HandleTypes' /\ LocalsByPlace'
  <2>1. UNCHANGED <<handles, index>>
    BY <1>1 DEF Call
  <2>2. \A q \in Ranks : pc'[q] = pc[q] \/ (pc[q] = "start" /\ pc'[q] = "split")
    BY <1>0, <1>1 DEF Call
  <2> QED BY <2>1, <2>2, OtherLocals
<1>2. ASSUME HostSplit \/ Gather \/ Bcast
      PROVE  HandleTypes' /\ LocalsByPlace'
  <2>1. UNCHANGED <<handles, index>>
    BY <1>2 DEF HostSplit, Gather, Bcast
  <2>2. \A q \in Ranks : \/ pc'[q] = pc[q]
                         \/ pc[q] # "had_error" /\ pc'[q] \notin {"start", "split", "compare"}
    BY <1>0, <1>2 DEF HostSplit, Gather, Bcast, Representatives
  <2> QED BY <2>1, <2>2, OtherLocals
<1>3. ASSUME NEW r \in Ranks, Return(r) PROVE HandleTypes' /\ LocalsByPlace'
  <2>1. UNCHANGED <<handles, index, pc>>
    BY <1>3 DEF Return
  <2> QED BY <2>1, OtherLocals
<1>4. CASE UNCHANGED vars
  <2>1. UNCHANGED <<handles, index, pc>>
    BY <1>4 DEF vars
  <2> QED BY <2>1, OtherLocals
<1> QED BY <1>1, <1>2, <1>3, <1>4, SplitLocals, AgreeLocals, DifferLocals, FailLocals
        DEF Next, Collective

-----------------------------------------------------------------------------
LEMMA NextHost == HostInv /\ [Next]_vars => HostInv'
<1> SUFFICES ASSUME HostInv, [Next]_vars PROVE ListInv'
  BY NextLocals DEF HostInv
<1>1. ASSUME NEW r \in Ranks, NEW routine \in Calls, Call(r, routine) PROVE ListInv'
  BY <1>1, CallHost
<1>2. ASSUME NEW r \in Ranks, Collective(r) PROVE ListInv'
  BY <1>2, SplitHost, AgreeHost, DifferHost, HostSplitHost, GatherHost, BcastHost
     DEF Collective
<1>3. ASSUME NEW r \in Ranks, Fail(r) \/ Return(r) PROVE ListInv'
  BY <1>3, FailHost, ReturnHost
<1>4. CASE UNCHANGED vars
  BY <1>4 DEF vars, registered, HostInv, ListInv, Types, Parts, HostsStayTogether, HeldByPlace, HeldAt, IdlePlaces,
     Represented, Phases, Lists, RegisteredRight, LowestRanks, List, NumHosts
<1> QED BY <1>1, <1>2, <1>3, <1>4 DEF Next

-----------------------------------------------------------------------------
\* The inductive invariant holds of every execution.
THEOREM HostInvariant == Spec => []HostInv
BY InitHost, NextHost, PTL DEF Spec

\* Type correctness, with the number of hosts as the bound of what is registered.
THEOREM TypeCorrect == Spec => []TypeOK
<1>1. HostInv => TypeOK
  <2> SUFFICES ASSUME HostInv PROVE TypeOK
    OBVIOUS
  <2>1. \A r \in Ranks : hostlist[r] # NoList => hostlist[r] = List
    BY DEF HostInv, ListInv, Types, Lists
  <2>2. DOMAIN List \subseteq Ranks
    BY ListDef, LowestRanksDef
  <2>3. Cardinality(Hosts) \in Nat
    BY HostListAssumption, FS_CardinalityType DEF HostListAssumption
  <2>4. \A r \in Ranks : numhosts[r] \in {0, 1, NumHosts(List)}
    BY DEF HostInv, ListInv, RegisteredRight
  <2>5. \A r \in Ranks : numhosts[r] \in 0..Cardinality(Hosts)
    BY <2>3, <2>4, ListLength
  <2> QED BY <2>1, <2>2, <2>5 DEF HostInv, ListInv, Types, HandleTypes, TypeOK
<1> QED BY <1>1, HostInvariant, PTL

\* Ranks of one host are never parted, however the colours fall and whatever rounds
\* the other parts are in.
THEOREM HostsStay == Spec => []HostsStayTogether
<1>1. HostInv => HostsStayTogether
  BY DEF HostInv, ListInv
<1> QED BY <1>1, HostInvariant, PTL

\* Between its calls no rank holds a communicator that a call made.
THEOREM CommunicatorsFreed == Spec => []CommsFreed
<1>1. HostInv => CommsFreed
  BY DEF HostInv, ListInv, IdlePlaces, HeldByPlace, HeldAt, CommsFreed
<1> QED BY <1>1, HostInvariant, PTL

\* Nothing is freed twice but by a split that fails after the first round.
THEOREM FreedOnceButByFailedSplit == Spec => []FreedTwiceOnlyByFailedSplit
<1>1. HostInv => FreedTwiceOnlyByFailedSplit
  BY DEF HostInv, LocalsByPlace, Locals, FreedTwiceOnlyByFailedSplit
<1> QED BY <1>1, HostInvariant, PTL

\* When no collective fails, the number registered is that of the hosts of the job.
THEOREM NumHostsCorrect == Spec => []NumHostsRight
<1>1. HostInv => NumHostsRight
  BY ListLength DEF HostInv, ListInv, RegisteredRight, NumHostsRight
<1> QED BY <1>1, HostInvariant, PTL

-----------------------------------------------------------------------------
\* The list of the job is the one HostListSpec promises: no step but the broadcast
\* answers anybody, it answers all ranks, with the same list of one entry per host,
\* and no later step takes back or alters an answer.
THEOREM HostListRefinement == Spec => ImplementsHostListSpec
<1> DEFINE Answered == [r \in Ranks |-> IF pc[r] = "cached" THEN hostlist[r] ELSE NoList]
<1>1. Init => Promise!Init
  BY DEF Init, Promise!Init, Promise!Ranks, Ranks
<1>2. HostInv /\ [Next]_vars => [Promise!Next]_Answered
  <2> SUFFICES ASSUME HostInv, [Next]_vars PROVE Promise!Next \/ Answered' = Answered
    OBVIOUS
  <2>1. CASE Bcast
    <3>1. \A r \in Ranks : pc[r] = "bcast" /\ pc'[r] = "cached" /\ hostlist'[r] = List
      BY <2>1, RanksFinite DEF Bcast, HostInv, ListInv, Lists
    <3>2. Answered = [r \in Ranks |-> NoList] /\ Answered' = [r \in Ranks |-> List]
      BY <3>1
    <3>3. Promise!Answer(Ranks)
      BY <3>2 DEF Promise!Answer, Promise!Ranks, Ranks, List
    <3> QED BY <3>3 DEF Promise!Next, Promise!Ranks, Ranks
  <2>2. CASE ~Bcast
    <3> SUFFICES ASSUME NEW r \in Ranks
                 PROVE  /\ pc'[r] = "cached" <=> pc[r] = "cached"
                        /\ pc[r] = "cached" => hostlist'[r] = hostlist[r]
      OBVIOUS
    <3>1. ASSUME NEW p \in Ranks, Split(group[p]) \/ Agree(group[p]) \/ Differ(group[p])
          PROVE  pc[r] # "cached" /\ pc'[r] # "cached"
      <4>1. p \in group[p]
        BY DEF HostInv, ListInv, Parts
      <4>2. pc[p] \in {"split", "compare"}
        BY <3>1, <4>1 DEF Split, Agree, Differ
      <4>3. pc[r] # "cached"
        BY <4>2 DEF HostInv, ListInv, Phases
      <4> QED BY <3>1, <4>3 DEF Split, Agree, Differ
    <3>2. CASE HostSplit
      BY <3>2 DEF HostSplit
    <3>3. CASE Gather
      <4>1. PICK g \in Ranks : pc[g] = "gather"
        BY <3>3 DEF Gather, Representatives
      <4>2. pc[r] # "cached"
        BY <4>1 DEF HostInv, ListInv, Phases
      <4> QED BY <3>3, <4>2 DEF Gather
    <3>4. ASSUME NEW p \in Ranks, Fail(p) \/ Return(p)
          PROVE  (pc'[r] = "cached" <=> pc[r] = "cached") /\ hostlist'[r] = hostlist[r]
      BY <3>4 DEF Fail, Return, HostInv, ListInv, Types
    <3>5. ASSUME NEW p \in Ranks, NEW routine \in Calls, Call(p, routine)
          PROVE  (pc'[r] = "cached" <=> pc[r] = "cached") /\ hostlist'[r] = hostlist[r]
      BY <3>5 DEF Call, HostInv, ListInv, Types
    <3>6. CASE UNCHANGED vars
      BY <3>6 DEF vars
    <3> QED BY <2>2, <3>1, <3>2, <3>3, <3>4, <3>5, <3>6 DEF Next, Collective
  <2> QED BY <2>1, <2>2
<1> QED BY <1>1, <1>2, HostInvariant, PTL DEF Spec, ImplementsHostListSpec, Promise!Spec
===============================================================================
