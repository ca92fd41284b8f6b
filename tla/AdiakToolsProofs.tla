-------------------------- MODULE AdiakToolsProofs --------------------------
(***************************************************************************)
(* Proofs about the record store and the dispatcher, for every number of   *)
(* copies, tools, names, categories, buckets and registrations, every hash *)
(* function and every depth of nested calls.  First the store by itself;   *)
(* where SingleHash is a hypothesis it is needed: without it copies that   *)
(* work on chains of their own register one name twice and do not find     *)
(* each other's.  Which copies can then meet a freed record, and when, is  *)
(* proved without it (FreedOnlyByOthers).  Then what the dispatcher does   *)
(* to the store, what is true of one call of the library whatever nests in *)
(* it (CallInv), what of the pairs in dispatch callbacks can free, and     *)
(* last what tools are told and hold, which needs hypotheses on how the    *)
(* library is used; each is stated by the theorem that needs it.           *)
(***************************************************************************)
EXTENDS AdiakTools, LeastNumber, TLAPS

-----------------------------------------------------------------------------
\* The chains every copy works on are exactly the shared list, split by bucket.
ChainsAreList ==
    \A c \in Copies : \A b \in Buckets :
        get_record_hash_list(c)[b] = {r \in DOMAIN rec : Hash[rec[r].name] = b}

\* The inductive invariant.  Uniqueness of names alone is not inductive:
\* record_nameval decides between overwriting and inserting by the chains,
\* never by the list.
StoreInv ==
    /\ StoreTypeOK
    /\ minimum_version = PublicVersion
    /\ ChainsAreList
    /\ UniqueNames

-----------------------------------------------------------------------------
\* The types are kept whichever chains the copies work on.
LEMMA InitType == StoreInit => StoreTypeOK
<1> SUFFICES ASSUME StoreInit PROVE StoreTypeOK
  OBVIOUS
<1>1. DOMAIN rec = {}
  BY DEF StoreInit
<1>2. rec \in [DOMAIN rec -> Record]
  BY <1>1 DEF StoreInit
<1> QED BY <1>1, <1>2, StoreAssumption
    DEF StoreInit, StoreTypeOK, StoreAssumption, EmptyHash

\* The chains with a new record.
LEMMA LinkedType ==
    ASSUME NEW n \in Names, now \in Nat, now' = now + 1, NEW chains \in [Buckets -> SUBSET (1..now)]
    PROVE  /\ Linked(chains, n) \in [Buckets -> SUBSET (1..now')]
           /\ \A b \in Buckets : Linked(chains, n)[b] =
                 IF b = Hash[n] THEN chains[b] \cup {now + 1} ELSE chains[b]
<1>1. 1..now \subseteq 1..now' /\ now + 1 \in 1..now'
  OBVIOUS
<1>2. \A b \in Buckets : Linked(chains, n)[b] =
        IF b = Hash[n] THEN chains[b] \cup {now + 1} ELSE chains[b]
  BY StoreAssumption DEF StoreAssumption, Linked
<1>3. \A b \in Buckets : Linked(chains, n)[b] \in SUBSET (1..now')
  BY <1>1, <1>2
<1> QED BY <1>2, <1>3 DEF Linked

LEMMA RecordType ==
    ASSUME StoreTypeOK, NEW c \in Copies, NEW n \in Names, NEW cat \in Categories,
           record_nameval(c, n, cat)
    PROVE  StoreTypeOK'
<1> DEFINE new == [name |-> n, category |-> cat, value |-> now + 1]
<1>1. /\ now \in Nat /\ now' = now + 1 /\ now + 1 \in 0..MaxRegistrations
      /\ minimum_version' = minimum_version
  BY StoreAssumption DEF record_nameval, StoreTypeOK, StoreAssumption
<1>2. new \in Record /\ 1..now \subseteq 1..now' /\ now + 1 \in 1..now'
  BY <1>1 DEF Record
<1>3. \A r \in DOMAIN rec : rec[r] \in Record
  BY DEF StoreTypeOK
<1>4. CASE OverwriteRecord(c, n, cat)
  <2>1. rec' \in [DOMAIN rec -> Record] /\ DOMAIN rec' = DOMAIN rec
    BY <1>2, <1>4 DEF OverwriteRecord, StoreTypeOK
  <2>2. record_hash' = record_hash /\ local_record_hash' = local_record_hash
    BY <1>4 DEF OverwriteRecord
  <2> QED BY <1>1, <1>2, <2>1, <2>2 DEF StoreTypeOK
<1>5. CASE InsertRecord(c, n, cat)
  <2>1. /\ DOMAIN rec' = DOMAIN rec \cup {now + 1}
        /\ \A r \in DOMAIN rec' : rec'[r] \in Record
    BY <1>2, <1>3, <1>5 DEF InsertRecord
  <2>2. rec' \in [DOMAIN rec' -> Record]
    BY <1>5, <2>1 DEF InsertRecord
  <2>3. DOMAIN rec' \subseteq 1..now'
    BY <1>2, <2>1 DEF StoreTypeOK
  <2>4. record_hash' \in [Buckets -> SUBSET (1..now')]
    BY <1>1, <1>2, <1>5, LinkedType DEF InsertRecord, StoreTypeOK
  <2>5. local_record_hash' \in [Copies -> [Buckets -> SUBSET (1..now')]]
    BY <1>1, <1>2, <1>5, LinkedType DEF InsertRecord, StoreTypeOK
  <2> QED BY <1>1, <2>2, <2>3, <2>4, <2>5 DEF StoreTypeOK
<1> QED BY <1>4, <1>5 DEF record_nameval

LEMMA FreeType ==
    ASSUME StoreTypeOK, NEW c \in Copies, FreeRecords(c)
    PROVE  StoreTypeOK'
<1>1. DOMAIN rec' = {} /\ now' = now /\ minimum_version' = minimum_version
  BY DEF FreeRecords
<1>2. rec' \in [DOMAIN rec' -> Record]
  BY <1>1 DEF FreeRecords
<1> QED BY <1>1, <1>2 DEF FreeRecords, EmptyHash, StoreTypeOK

LEMMA NextType == StoreTypeOK /\ [StoreNext]_storeVars => StoreTypeOK'
<1> SUFFICES ASSUME StoreTypeOK, [StoreNext]_storeVars PROVE StoreTypeOK'
  OBVIOUS
<1>1. CASE \E c \in Copies : OldCopyJoins(c)
  BY <1>1 DEF OldCopyJoins, StoreTypeOK
<1>2. CASE UNCHANGED storeVars
  BY <1>2 DEF storeVars, StoreTypeOK
<1> QED BY <1>1, <1>2, RecordType, FreeType DEF StoreNext

\* The variables always hold values of their types.
THEOREM StoreTypeCorrect == StoreSpec => []StoreTypeOK
<1>1. StoreInit => StoreTypeOK
  BY InitType
<1>2. StoreTypeOK /\ [StoreNext]_storeVars => StoreTypeOK'
  BY NextType
<1> QED BY <1>1, <1>2, PTL DEF StoreSpec

-----------------------------------------------------------------------------
\* Max, by which find_record_by_name takes the head of a chain, of a set that
\* has one element.
LEMMA MaxOfOne ==
    ASSUME NEW S, S \subseteq Nat, NEW x \in S, \A y \in S : y = x
    PROVE  Max(S) = x
<1>1. x \in S /\ \A y \in S : x >= y
  OBVIOUS
<1>2. (CHOOSE z \in S : \A y \in S : z >= y) \in S
  BY <1>1
<1> QED BY <1>2 DEF Max

\* Under the invariant a lookup by any copy answers from the whole list: it
\* returns the one record of that name, and NULL when there is none.
LEMMA FindByName ==
    ASSUME StoreInv, NEW c \in Copies, NEW n \in Names
    PROVE  /\ OnChain(c, n) = {r \in DOMAIN rec : rec[r].name = n}
           /\ \A r \in DOMAIN rec :
                 rec[r].name = n => find_record_by_name(c, n) = r
           /\ (\A r \in DOMAIN rec : rec[r].name # n)
                 => find_record_by_name(c, n) = NULL
           /\ find_record_by_name(c, n) # NULL =>
                 /\ find_record_by_name(c, n) \in DOMAIN rec
                 /\ rec[find_record_by_name(c, n)].name = n
           /\ Walkable(c, n)
<1>1. Hash[n] \in Buckets
  BY StoreAssumption DEF StoreAssumption
<1>2. get_record_hash_list(c)[Hash[n]] = {r \in DOMAIN rec : Hash[rec[r].name] = Hash[n]}
  BY <1>1 DEF StoreInv, ChainsAreList
<1>3. OnChain(c, n) = {r \in DOMAIN rec : rec[r].name = n}
  BY <1>2 DEF OnChain
<1>4. Walkable(c, n)
  BY <1>2 DEF Walkable
<1>5. DOMAIN rec \subseteq Nat /\ 0 \notin DOMAIN rec
  BY DEF StoreInv, StoreTypeOK
<1>6. ASSUME NEW r \in DOMAIN rec, rec[r].name = n
      PROVE  find_record_by_name(c, n) = r
  <2>1. \A y \in OnChain(c, n) : y = r
    BY <1>3, <1>6 DEF StoreInv, UniqueNames
  <2>2. r \in OnChain(c, n) /\ OnChain(c, n) \subseteq Nat
    BY <1>3, <1>5, <1>6
  <2>3. Max(OnChain(c, n)) = r
    BY <2>1, <2>2, MaxOfOne
  <2> QED BY <2>2, <2>3 DEF find_record_by_name
<1>7. (\A r \in DOMAIN rec : rec[r].name # n) => find_record_by_name(c, n) = NULL
  BY <1>3 DEF find_record_by_name
<1>8. ASSUME find_record_by_name(c, n) # NULL
      PROVE  /\ find_record_by_name(c, n) \in DOMAIN rec
             /\ rec[find_record_by_name(c, n)].name = n
  <2>1. PICK r \in DOMAIN rec : rec[r].name = n
    BY <1>7, <1>8
  <2> QED BY <2>1, <1>6
<1> QED BY <1>3, <1>4, <1>6, <1>7, <1>8

-----------------------------------------------------------------------------
LEMMA InitInv ==
    ASSUME StoreInit
    PROVE  StoreInv
<1>1. DOMAIN rec = {}
  BY DEF StoreInit
<1>2. StoreTypeOK
  BY InitType
<1>3. ChainsAreList
  BY <1>1 DEF StoreInit, ChainsAreList, get_record_hash_list, EmptyHash
<1>4. UniqueNames
  BY <1>1 DEF UniqueNames
<1> QED BY <1>2, <1>3, <1>4 DEF StoreInv, StoreInit

\* Registering a name, the new one and the known one, keeps the invariant.
LEMMA RecordInv ==
    ASSUME SingleHash, StoreInv, NEW c \in Copies, NEW n \in Names,
           NEW cat \in Categories, record_nameval(c, n, cat)
    PROVE  StoreInv'
<1> DEFINE new == [name |-> n, category |-> cat, value |-> now + 1]
<1>1. /\ now \in Nat /\ now' = now + 1
      /\ minimum_version' = minimum_version
  BY DEF record_nameval, StoreInv, StoreTypeOK
<1>2. StoreTypeOK'
  BY RecordType DEF StoreInv
<1>3. DOMAIN rec \subseteq 1..now /\ now + 1 \notin DOMAIN rec
  BY <1>1 DEF StoreInv, StoreTypeOK
<1>4. \A r \in DOMAIN rec : rec[r] \in Record
  BY DEF StoreInv, StoreTypeOK
<1>5. CASE OverwriteRecord(c, n, cat)
  <2> DEFINE f == find_record_by_name(c, n)
  <2>1. f \in DOMAIN rec /\ rec[f].name = n
    BY <1>5, FindByName DEF OverwriteRecord
  <2>2. /\ DOMAIN rec' = DOMAIN rec
        /\ rec'[f] = new
        /\ \A r \in DOMAIN rec : r # f => rec'[r] = rec[r]
    BY <1>5, <2>1, <1>4 DEF OverwriteRecord, StoreInv, StoreTypeOK
  <2>3. \A r \in DOMAIN rec : rec'[r].name = rec[r].name
    BY <2>1, <2>2
  <2>4. record_hash' = record_hash /\ local_record_hash' = local_record_hash
    BY <1>5 DEF OverwriteRecord
  <2>5. ChainsAreList'
    BY <1>1, <2>2, <2>3, <2>4 DEF StoreInv, ChainsAreList, get_record_hash_list
  <2>6. UniqueNames'
    BY <2>2, <2>3 DEF StoreInv, UniqueNames
  <2> QED BY <1>1, <1>2, <2>5, <2>6 DEF StoreInv
<1>6. CASE InsertRecord(c, n, cat)
  <2>1. \A r \in DOMAIN rec : rec[r].name # n
    BY <1>6, <1>3, FindByName DEF InsertRecord, NULL
  <2>2. /\ DOMAIN rec' = DOMAIN rec \cup {now + 1}
        /\ rec'[now + 1].name = n
        /\ \A r \in DOMAIN rec : rec'[r] = rec[r]
    BY <1>6, <1>3 DEF InsertRecord
  <2>3. \A chains \in [Buckets -> SUBSET (1..now)] : \A b \in Buckets :
           Linked(chains, n)[b] = IF b = Hash[n] THEN chains[b] \cup {now + 1} ELSE chains[b]
    BY <1>1, LinkedType
  <2>4. ASSUME NEW d \in Copies, NEW b \in Buckets
        PROVE  get_record_hash_list(d)'[b] =
                 {r \in DOMAIN rec' : Hash[rec'[r].name] = b}
    <3>1. get_record_hash_list(d)'[b] =
            IF b = Hash[n] THEN get_record_hash_list(d)[b] \cup {now + 1}
            ELSE get_record_hash_list(d)[b]
      <4>1. CASE minimum_version >= 1
        BY <1>1, <1>6, <4>1, <2>3
           DEF InsertRecord, get_record_hash_list, StoreInv, StoreTypeOK
      <4>2. CASE ~(minimum_version >= 1)
        <5>1. d = c
          BY <4>2 DEF SingleHash, StoreInv
        <5>2. local_record_hash[c] \in [Buckets -> SUBSET (1..now)]
          BY DEF StoreInv, StoreTypeOK
        <5>3. local_record_hash'[c] = Linked(local_record_hash[c], n)
          BY <1>6, <4>2 DEF InsertRecord, StoreInv, StoreTypeOK
        <5>4. /\ get_record_hash_list(d)' = local_record_hash'[c]
              /\ get_record_hash_list(d) = local_record_hash[c]
          BY <1>1, <4>2, <5>1 DEF get_record_hash_list
        <5> QED BY <2>3, <5>2, <5>3, <5>4
      <4> QED BY <4>1, <4>2
    <3>2. get_record_hash_list(d)[b] = {r \in DOMAIN rec : Hash[rec[r].name] = b}
      BY DEF StoreInv, ChainsAreList
    <3> QED BY <3>1, <3>2, <2>2
  <2>5. ChainsAreList'
    BY <2>4 DEF ChainsAreList
  <2>6. UniqueNames'
    BY <2>1, <2>2 DEF StoreInv, UniqueNames
  <2> QED BY <1>1, <1>2, <2>5, <2>6 DEF StoreInv
<1> QED BY <1>5, <1>6 DEF record_nameval

\* Cleaning through any copy keeps the invariant: nothing is left on a chain.
LEMMA FreeInv ==
    ASSUME SingleHash, StoreInv, NEW c \in Copies, FreeRecords(c)
    PROVE  StoreInv'
<1>1. DOMAIN rec' = {}
  BY DEF FreeRecords
<1>2. now' = now /\ minimum_version' = minimum_version
  BY DEF FreeRecords
<1>3. StoreTypeOK'
  BY FreeType DEF StoreInv
<1>4. ASSUME NEW d \in Copies, NEW b \in Buckets
      PROVE  get_record_hash_list(d)'[b] = {}
  <2>1. CASE minimum_version >= 1
    BY <1>2, <2>1 DEF FreeRecords, get_record_hash_list, EmptyHash
  <2>2. CASE ~(minimum_version >= 1)
    <3>1. d = c
      BY <2>2 DEF SingleHash, StoreInv
    <3> QED BY <1>2, <2>2, <3>1
           DEF FreeRecords, get_record_hash_list, EmptyHash, StoreInv, StoreTypeOK
  <2> QED BY <2>1, <2>2
<1>5. ChainsAreList'
  BY <1>1, <1>4 DEF ChainsAreList
<1>6. UniqueNames'
  BY <1>1 DEF UniqueNames
<1> QED BY <1>2, <1>3, <1>5, <1>6 DEF StoreInv

LEMMA NextInv ==
    ASSUME SingleHash, StoreInv, [StoreNext]_storeVars
    PROVE  StoreInv'
<1>1. CASE \E c \in Copies, n \in Names, cat \in Categories : record_nameval(c, n, cat)
  BY <1>1, RecordInv
<1>2. CASE \E c \in Copies : FreeRecords(c)
  BY <1>2, FreeInv
<1>3. CASE \E c \in Copies : OldCopyJoins(c)
  BY <1>3 DEF OldCopyJoins, SingleHash
<1>4. CASE UNCHANGED storeVars
  BY <1>4 DEF storeVars, StoreInv, StoreTypeOK, ChainsAreList, UniqueNames,
              get_record_hash_list
<1> QED BY <1>1, <1>2, <1>3, <1>4 DEF StoreNext

\* The store keeps the inductive invariant.
THEOREM StoreInvariant == SingleHash => (StoreSpec => []StoreInv)
<1> SUFFICES ASSUME SingleHash PROVE StoreSpec => []StoreInv
  OBVIOUS
<1>1. StoreInit => StoreInv
  BY InitInv
<1>2. StoreInv /\ [StoreNext]_storeVars => StoreInv'
  BY NextInv
<1> QED BY <1>1, <1>2, PTL DEF StoreSpec

-----------------------------------------------------------------------------
\* What the invariant says of the properties that the runs check.
LEMMA InvImplies ==
    ASSUME StoreInv
    PROVE  StoreTypeOK /\ UniqueNames /\ LookupComplete /\ NoFreedRecord
<1>1. LookupComplete
  <2> SUFFICES ASSUME NEW c \in Copies, NEW r \in DOMAIN rec
               PROVE  find_record_by_name(c, rec[r].name) = r
    BY DEF LookupComplete
  <2>1. rec[r].name \in Names
    BY DEF StoreInv, StoreTypeOK, Record
  <2> QED BY <2>1, FindByName
<1>2. NoFreedRecord
  BY DEF StoreInv, ChainsAreList, NoFreedRecord, Stale
<1> QED BY <1>1, <1>2 DEF StoreInv

\* adiak_list_namevals never reports one name twice, however many copies
\* register names concurrently with each other's cleans.
THEOREM NamesAreUnique == SingleHash => (StoreSpec => []UniqueNames)
<1>1. StoreInv => UniqueNames
  BY InvImplies
<1> QED BY <1>1, StoreInvariant, PTL

\* Every copy finds what any copy registered.
THEOREM LookupsAreComplete == SingleHash => (StoreSpec => []LookupComplete)
<1>1. StoreInv => LookupComplete
  BY InvImplies
<1> QED BY <1>1, StoreInvariant, PTL

\* While the structure is of version 1 its chains are live, and no copy has put
\* anything into the table it would fall back to when an older copy joins.
TablesInv ==
    /\ StoreTypeOK
    /\ minimum_version >= 1 =>
          \A b \in Buckets : /\ record_hash[b] \subseteq DOMAIN rec
                             /\ \A c \in Copies : local_record_hash[c][b] = {}

\* A registration adds to a chain only the record that it puts on the list.
LEMMA RecordAdds ==
    ASSUME StoreTypeOK, NEW c \in Copies, NEW n \in Names, NEW cat \in Categories,
           record_nameval(c, n, cat)
    PROVE  /\ minimum_version' = minimum_version /\ DOMAIN rec \subseteq DOMAIN rec'
           /\ \A b \in Buckets : record_hash'[b] \subseteq record_hash[b] \cup DOMAIN rec'
           /\ \A d \in Copies : \A b \in Buckets :
                 local_record_hash'[d][b] \subseteq local_record_hash[d][b] \cup DOMAIN rec'
           /\ minimum_version >= 1 => local_record_hash' = local_record_hash
<1>1. now \in Nat /\ now' = now + 1 /\ minimum_version' = minimum_version
  BY DEF record_nameval, StoreTypeOK
<1>2. CASE OverwriteRecord(c, n, cat)
  <2>1. DOMAIN rec' = DOMAIN rec
    BY <1>2 DEF OverwriteRecord
  <2> QED BY <1>1, <1>2, <2>1 DEF OverwriteRecord
<1>3. CASE InsertRecord(c, n, cat)
  <2>1. DOMAIN rec' = DOMAIN rec \cup {now + 1}
    BY <1>3 DEF InsertRecord
  <2>2. \A chains \in [Buckets -> SUBSET (1..now)] : \A b \in Buckets :
           Linked(chains, n)[b] \subseteq chains[b] \cup {now + 1}
    <3> SUFFICES ASSUME NEW chains \in [Buckets -> SUBSET (1..now)], NEW b \in Buckets
                 PROVE  Linked(chains, n)[b] \subseteq chains[b] \cup {now + 1}
      OBVIOUS
    <3>1. Linked(chains, n)[b] = IF b = Hash[n] THEN chains[b] \cup {now + 1} ELSE chains[b]
      BY <1>1, LinkedType
    <3> QED BY <3>1
  <2>3. CASE minimum_version >= 1
    <3>1. record_hash' = Linked(record_hash, n) /\ local_record_hash' = local_record_hash
      BY <1>3, <2>3 DEF InsertRecord
    <3> QED BY <1>1, <2>1, <2>2, <3>1 DEF StoreTypeOK
  <2>4. CASE ~(minimum_version >= 1)
    <3>1. /\ record_hash' = record_hash
          /\ \A d \in Copies : local_record_hash'[d] =
                IF d = c THEN Linked(local_record_hash[c], n) ELSE local_record_hash[d]
      BY <1>3, <2>4 DEF InsertRecord, StoreTypeOK
    <3>2. local_record_hash[c] \in [Buckets -> SUBSET (1..now)]
      BY DEF StoreTypeOK
    <3>3. \A d \in Copies : \A b \in Buckets :
             local_record_hash'[d][b] \subseteq local_record_hash[d][b] \cup DOMAIN rec'
      <4> SUFFICES ASSUME NEW d \in Copies, NEW b \in Buckets
                   PROVE  local_record_hash'[d][b] \subseteq local_record_hash[d][b] \cup DOMAIN rec'
        OBVIOUS
      <4>1. CASE d = c
        <5>1. local_record_hash'[d][b] = Linked(local_record_hash[c], n)[b]
          BY <3>1, <4>1
        <5> QED BY <2>1, <2>2, <3>2, <4>1, <5>1
      <4>2. CASE d # c
        BY <3>1, <4>2
      <4> QED BY <4>1, <4>2
    <3> QED BY <1>1, <2>1, <2>4, <3>1, <3>3
  <2> QED BY <2>3, <2>4
<1> QED BY <1>2, <1>3 DEF record_nameval

LEMMA TablesNext ==
    ASSUME TablesInv, [StoreNext]_storeVars
    PROVE  TablesInv'
<1>1. StoreTypeOK'
  BY NextType DEF TablesInv
<1>2. ASSUME NEW c \in Copies, NEW n \in Names, NEW cat \in Categories, record_nameval(c, n, cat)
      PROVE  TablesInv'
  <2>1. StoreTypeOK
    BY DEF TablesInv
  <2> QED BY <1>1, <1>2, <2>1, RecordAdds DEF TablesInv
<1>3. ASSUME NEW c \in Copies, FreeRecords(c) PROVE TablesInv'
  BY <1>1, <1>3 DEF FreeRecords, EmptyHash, TablesInv
<1>4. CASE \E c \in Copies : OldCopyJoins(c)
  BY <1>1, <1>4 DEF OldCopyJoins, TablesInv
<1>5. CASE UNCHANGED storeVars
  BY <1>1, <1>5 DEF storeVars, TablesInv
<1> QED BY <1>2, <1>3, <1>4, <1>5 DEF StoreNext

LEMMA TablesFreed ==
    ASSUME TablesInv, StoreNext, NEW c \in Copies
    PROVE  /\ FreeRecords(c) => ~Stale(c)'
           /\ ~Stale(c) /\ Stale(c)' =>
                 minimum_version = 0 /\ \E d \in Copies \ {c} : FreeRecords(d)
<1>1. ASSUME FreeRecords(c) PROVE ~Stale(c)'
  <2>1. \A b \in Buckets : get_record_hash_list(c)'[b] = {}
    BY <1>1 DEF FreeRecords, EmptyHash, get_record_hash_list, TablesInv, StoreTypeOK
  <2> QED BY <2>1 DEF Stale
<1>2. ASSUME NEW d \in Copies, NEW n \in Names, NEW cat \in Categories,
             record_nameval(d, n, cat), ~Stale(c)
      PROVE  ~Stale(c)'
  <2>1. StoreTypeOK
    BY DEF TablesInv
  <2>2. \A b \in Buckets : get_record_hash_list(c)[b] \subseteq DOMAIN rec
    BY <1>2 DEF Stale
  <2>3. \A b \in Buckets :
           get_record_hash_list(c)'[b] \subseteq get_record_hash_list(c)[b] \cup DOMAIN rec'
    BY <1>2, <2>1, RecordAdds DEF get_record_hash_list
  <2>4. DOMAIN rec \subseteq DOMAIN rec'
    BY <1>2, <2>1, RecordAdds
  <2> QED BY <2>2, <2>3, <2>4 DEF Stale
<1>3. ASSUME NEW d \in Copies, FreeRecords(d), minimum_version >= 1 PROVE ~Stale(c)'
  BY <1>3 DEF FreeRecords, EmptyHash, get_record_hash_list, Stale
<1>4. ASSUME NEW d \in Copies, OldCopyJoins(d) PROVE ~Stale(c)'
  <2>1. /\ minimum_version' = 0 /\ local_record_hash' = local_record_hash
        /\ \A b \in Buckets : local_record_hash[c][b] = {}
    BY <1>4 DEF OldCopyJoins, TablesInv, StoreTypeOK
  <2> QED BY <2>1 DEF Stale, get_record_hash_list
<1>5. ~(minimum_version >= 1) => minimum_version = 0
  BY DEF TablesInv, StoreTypeOK
<1> QED BY <1>1, <1>2, <1>3, <1>4, <1>5 DEF StoreNext

\* Which copies can meet a freed record, whatever versions the copies have, when
\* the old ones join, and who registers and cleans: only those with a table of
\* their own, after another copy's adiak_clean and until theirs.
THEOREM FreedOnlyByOthers == StoreSpec => FreedByOthers
<1>1. StoreInit => TablesInv
  BY InitType DEF StoreInit, EmptyHash, TablesInv
<1>2. TablesInv /\ [StoreNext]_storeVars => TablesInv'
  BY TablesNext
<1>3. ASSUME TablesInv, [StoreNext]_storeVars
      PROVE  [\A c \in Copies :
                /\ FreeRecords(c) => ~Stale(c)'
                /\ ~Stale(c) /\ Stale(c)' =>
                      minimum_version = 0 /\ \E d \in Copies \ {c} : FreeRecords(d)]_storeVars
  BY <1>3, TablesFreed
<1> QED BY <1>1, <1>2, <1>3, PTL DEF StoreSpec, FreedByOthers

-----------------------------------------------------------------------------
\* Every query is answered from the list of records.
AnswersFromList ==
    \A d \in Copies : \A m \in Names :
        /\ \A r \in DOMAIN rec : rec[r].name = m =>
              adiak_get_nameval(d, m) =
                 [value |-> rec[r].value, category |-> rec[r].category]
        /\ (\A r \in DOMAIN rec : rec[r].name # m) =>
              adiak_get_nameval(d, m) = NoValue

LEMMA Answers == StoreInv => AnswersFromList
<1> SUFFICES ASSUME StoreInv, NEW d \in Copies, NEW m \in Names
             PROVE  /\ \A r \in DOMAIN rec : rec[r].name = m =>
                          adiak_get_nameval(d, m) =
                            [value |-> rec[r].value, category |-> rec[r].category]
                    /\ (\A r \in DOMAIN rec : rec[r].name # m) =>
                          adiak_get_nameval(d, m) = NoValue
  BY DEF AnswersFromList
<1>1. NULL \notin DOMAIN rec
  BY DEF StoreInv, StoreTypeOK, NULL
<1> QED BY <1>1, FindByName DEF adiak_get_nameval

\* Registering a name changes what every copy answers for it, and for nothing
\* else.
LEMMA RecordRefines ==
    ASSUME StoreInv, AnswersFromList, AnswersFromList',
           NEW c \in Copies, NEW n \in Names, NEW cat \in Categories,
           record_nameval(c, n, cat), NEW d \in Copies
    PROVE  Abstract(d)!SetValue(n, cat)
<1> DEFINE new == [name |-> n, category |-> cat, value |-> now + 1]
<1>1. now \in Nat /\ now' = now + 1
  BY DEF record_nameval, StoreInv, StoreTypeOK
<1>2. DOMAIN rec \subseteq 1..now /\ now + 1 \notin DOMAIN rec
  BY <1>1 DEF StoreInv, StoreTypeOK
<1>3. \E f \in DOMAIN rec' :
         /\ rec'[f] = new
         /\ \A r \in DOMAIN rec' : r # f => r \in DOMAIN rec /\ rec'[r] = rec[r]
         /\ \A r \in DOMAIN rec : r # f => r \in DOMAIN rec' /\ rec'[r] = rec[r]
         /\ f \in DOMAIN rec => rec[f].name = n
  <2>1. CASE OverwriteRecord(c, n, cat)
    <3> DEFINE f == find_record_by_name(c, n)
    <3>1. f \in DOMAIN rec /\ rec[f].name = n
      BY <2>1, FindByName DEF OverwriteRecord
    <3>2. /\ DOMAIN rec' = DOMAIN rec
          /\ rec'[f] = new
          /\ \A r \in DOMAIN rec : r # f => rec'[r] = rec[r]
      BY <2>1, <3>1 DEF OverwriteRecord, StoreInv, StoreTypeOK
    <3> QED BY <3>1, <3>2
  <2>2. CASE InsertRecord(c, n, cat)
    <3>1. /\ DOMAIN rec' = DOMAIN rec \cup {now + 1}
          /\ rec'[now + 1] = new
          /\ \A r \in DOMAIN rec : rec'[r] = rec[r]
      BY <2>2, <1>2 DEF InsertRecord
    <3> QED BY <3>1, <1>2
  <2> QED BY <2>1, <2>2 DEF record_nameval
<1>4. PICK f \in DOMAIN rec' :
         /\ rec'[f] = new
         /\ \A r \in DOMAIN rec' : r # f => r \in DOMAIN rec /\ rec'[r] = rec[r]
         /\ \A r \in DOMAIN rec : r # f => r \in DOMAIN rec' /\ rec'[r] = rec[r]
         /\ f \in DOMAIN rec => rec[f].name = n
  BY <1>3
<1>5. new.name = n /\ new.value = now + 1 /\ new.category = cat
  OBVIOUS
<1>6. adiak_get_nameval(d, n)' = [value |-> now + 1, category |-> cat]
  BY <1>4, <1>5 DEF AnswersFromList
<1>7. ASSUME NEW m \in Names, m # n
      PROVE  adiak_get_nameval(d, m)' = adiak_get_nameval(d, m)
  <2>1. CASE \E r \in DOMAIN rec : rec[r].name = m
    <3>1. PICK r \in DOMAIN rec : rec[r].name = m
      BY <2>1
    <3>2. r # f /\ r \in DOMAIN rec' /\ rec'[r] = rec[r]
      BY <1>4, <1>7, <3>1
    <3> QED BY <3>1, <3>2 DEF AnswersFromList
  <2>2. CASE \A r \in DOMAIN rec : rec[r].name # m
    <3>1. \A r \in DOMAIN rec' : rec'[r].name # m
      BY <1>4, <1>5, <1>7, <2>2
    <3> QED BY <2>2, <3>1 DEF AnswersFromList
  <2> QED BY <2>1, <2>2
<1> QED BY <1>1, <1>6, <1>7 DEF Abstract!SetValue

\* Cleaning through one copy empties the map that every copy answers from.
LEMMA FreeRefines ==
    ASSUME AnswersFromList', NEW c \in Copies, FreeRecords(c), NEW d \in Copies
    PROVE  Abstract(d)!Clean
<1>1. DOMAIN rec' = {} /\ now' = now
  BY DEF FreeRecords
<1>2. \A m \in Names : adiak_get_nameval(d, m)' = NoValue
  BY <1>1 DEF AnswersFromList
<1> QED BY <1>1, <1>2 DEF Abstract!Clean

\* The store of src/src/adiak.c implements the abstract one through every copy.
THEOREM StoreRefinement == SingleHash => (StoreSpec => ImplementsStore)
<1> SUFFICES ASSUME SingleHash PROVE StoreSpec => ImplementsStore
  OBVIOUS
<1>1. StoreInit => AbstractInit
  <2> SUFFICES ASSUME StoreInit, NEW d \in Copies PROVE Abstract(d)!Init
    BY DEF AbstractInit
  <2>1. AnswersFromList
    BY InitInv, Answers
  <2>2. \A m \in Names : adiak_get_nameval(d, m) = NoValue
    BY <2>1 DEF StoreInit, AnswersFromList
  <2> QED BY <2>2 DEF Abstract!Init, StoreInit
<1>2. StoreInv => AnswersFromList
  BY Answers
<1>3. StoreInv /\ AnswersFromList /\ AnswersFromList' /\ [StoreNext]_storeVars
        => [AbstractStep]_storeVars
  <2> SUFFICES ASSUME StoreInv, AnswersFromList, AnswersFromList', StoreNext,
                      NEW d \in Copies
               PROVE  /\ Abstract(d)!Next
                      /\ \A c \in Copies, n \in Names, cat \in Categories :
                            record_nameval(c, n, cat) => Abstract(d)!SetValue(n, cat)
    BY DEF AbstractStep
  <2>1. \A c \in Copies, n \in Names, cat \in Categories :
           record_nameval(c, n, cat) => Abstract(d)!SetValue(n, cat)
    BY RecordRefines
  <2>2. CASE \E c \in Copies, n \in Names, cat \in Categories : record_nameval(c, n, cat)
    BY <2>1, <2>2 DEF Abstract!Next
  <2>3. CASE \E c \in Copies : FreeRecords(c)
    BY <2>1, <2>3, FreeRefines DEF Abstract!Next
  <2>4. CASE \E c \in Copies : OldCopyJoins(c)
    BY <2>4 DEF OldCopyJoins, SingleHash
  <2> QED BY <2>1, <2>2, <2>3, <2>4 DEF StoreNext
<1> QED BY <1>1, <1>2, <1>3, StoreInvariant, PTL DEF StoreSpec, ImplementsStore

-----------------------------------------------------------------------------
\* The dispatcher uses the record store only through the store's own operations,
\* however its calls nest: its specification implements StoreSpec, so what
\* is proved of the store above holds under re-entrant dispatch as well.

\* The calls of the application and of callbacks.
LEMMA CallsOfStore ==
    ASSUME NEW c \in Copies
    PROVE  /\ \A comm \in BOOLEAN : adiak_init(c, comm) => UNCHANGED storeVars
           /\ \A kind \in ToolKinds : adiak_register(c, kind) => UNCHANGED storeVars
           /\ \A t \in 1..MaxTools : ToolLists(c, t) => UNCHANGED storeVars
           /\ \A timer \in Names : RequestTimer(c, timer) => UNCHANGED storeVars
           /\ adiak_flush(c) => UNCHANGED storeVars
           /\ adiak_fini(c) => UNCHANGED storeVars
           /\ adiak_clean(c) => UNCHANGED storeVars
           /\ \A n \in Names : \A cat \in Categories :
                adiak_raw_namevalue(c, n, cat) => record_nameval(c, n, cat)
<1>1. \A comm \in BOOLEAN : adiak_init(c, comm) => UNCHANGED storeVars
  BY DEF adiak_init
<1>2. \A kind \in ToolKinds : adiak_register(c, kind) => UNCHANGED storeVars
  BY DEF adiak_register
<1>3. \A t \in 1..MaxTools : ToolLists(c, t) => UNCHANGED storeVars
  BY DEF ToolLists
<1>4. \A timer \in Names : RequestTimer(c, timer) => UNCHANGED storeVars
  BY DEF RequestTimer
<1>5. /\ adiak_flush(c) => UNCHANGED storeVars
      /\ adiak_fini(c) => UNCHANGED storeVars
      /\ adiak_clean(c) => UNCHANGED storeVars
  BY DEF adiak_flush, adiak_fini, adiak_clean
<1>6. \A n \in Names : \A cat \in Categories :
         adiak_raw_namevalue(c, n, cat) => record_nameval(c, n, cat)
  BY DEF adiak_raw_namevalue, EnterNameValue
<1> QED BY <1>1, <1>2, <1>3, <1>4, <1>5, <1>6

-----------------------------------------------------------------------------
\* Every frame on the stack belongs to a copy of the library: what makes the
\* freeing at the end of adiak_clean a clean of the store.
FramesIn(S) == stack \in Seq(S) /\ \A f \in S : "copy" \in DOMAIN f /\ f.copy \in Copies
FrameCopies == \E S : FramesIn(S)

\* Pushing a frame of a copy, replacing the top frame by one of the same copy,
\* and popping the top frame keep that.
LEMMA PushFrame ==
    ASSUME FrameCopies, NEW f, "copy" \in DOMAIN f, f.copy \in Copies,
           stack' = <<f>> \o stack
    PROVE  FrameCopies'
<1>1. PICK S : FramesIn(S)
  BY DEF FrameCopies
<1> DEFINE T == S \cup {f}
<1>2. <<f>> \in Seq(T) /\ stack \in Seq(T)
  BY <1>1 DEF FramesIn
<1>3. stack' \in Seq(T)
  BY <1>2
<1>4. FramesIn(T)'
  BY <1>1, <1>3 DEF FramesIn
<1> QED BY <1>4 DEF FrameCopies

LEMMA PopFrame ==
    ASSUME FrameCopies, stack # << >>, stack' = Tail(stack)
    PROVE  FrameCopies'
<1>1. PICK S : FramesIn(S)
  BY DEF FrameCopies
<1>2. FramesIn(S)'
  BY <1>1 DEF FramesIn
<1> QED BY <1>2 DEF FrameCopies

LEMMA TopFrame ==
    ASSUME FrameCopies, stack # << >>
    PROVE  "copy" \in DOMAIN stack[1] /\ stack[1].copy \in Copies /\ Head(stack) = stack[1]
<1>1. PICK S : FramesIn(S)
  BY DEF FrameCopies
<1> QED BY <1>1 DEF FramesIn

LEMMA ReplaceFrame ==
    ASSUME FrameCopies, stack # << >>, NEW f, "copy" \in DOMAIN f, f.copy \in Copies,
           stack' = [stack EXCEPT ![1] = f]
    PROVE  FrameCopies'
<1>1. PICK S : FramesIn(S)
  BY DEF FrameCopies
<1> DEFINE T == S \cup {f}
<1>2. stack' \in Seq(T)
  BY <1>1 DEF FramesIn
<1>3. FramesIn(T)'
  BY <1>1, <1>2 DEF FramesIn
<1> QED BY <1>3 DEF FrameCopies

\* The same when the top frame is replaced by one or by two others.
LEMMA ReplaceByOne ==
    ASSUME FrameCopies, stack # << >>, NEW f, "copy" \in DOMAIN f, f.copy \in Copies,
           stack' = <<f>> \o Tail(stack)
    PROVE  FrameCopies'
<1>1. PICK S : FramesIn(S)
  BY DEF FrameCopies
<1> DEFINE T == S \cup {f}
<1>2. <<f>> \in Seq(T) /\ Tail(stack) \in Seq(T)
  BY <1>1 DEF FramesIn
<1>3. stack' \in Seq(T)
  BY <1>2
<1>4. FramesIn(T)'
  BY <1>1, <1>3 DEF FramesIn
<1> QED BY <1>4 DEF FrameCopies

LEMMA ReplaceByTwo ==
    ASSUME FrameCopies, stack # << >>,
           NEW f, "copy" \in DOMAIN f, f.copy \in Copies,
           NEW g, "copy" \in DOMAIN g, g.copy \in Copies,
           stack' = <<f, g>> \o Tail(stack)
    PROVE  FrameCopies'
<1>1. PICK S : FramesIn(S)
  BY DEF FrameCopies
<1> DEFINE T == S \cup {f, g}
<1>2. <<f, g>> \in Seq(T) /\ Tail(stack) \in Seq(T)
  BY <1>1 DEF FramesIn
<1>3. stack' \in Seq(T)
  BY <1>2
<1>4. FramesIn(T)'
  BY <1>1, <1>3 DEF FramesIn
<1> QED BY <1>4 DEF FrameCopies

-----------------------------------------------------------------------------
\* No copy of the library is older than the shared structure.
LEMMA EveryoneJoined == \A c \in Copies : Joined(c)
BY ToolsAssumption DEF Joined, ToolsAssumption

LEMMA InitFrames == Init => StoreInit /\ FrameCopies
<1> SUFFICES ASSUME Init PROVE StoreInit /\ FrameCopies
  OBVIOUS
<1>1. FramesIn({})
  BY DEF Init, FramesIn
<1> QED BY <1>1 DEF Init, FrameCopies

\* A step of the dispatch loops keeps the frames in order, and reaches the
\* store, if at all, through record_nameval or through FreeRecords.
LEMMA DispatchOfStore ==
    ASSUME FrameCopies, Dispatch
    PROVE  FrameCopies' /\ (StoreNext \/ UNCHANGED storeVars)
<1> USE TopFrame
<1>1. CASE \E c \in Copies, timer \in TimerNames : MeasureTimer(c, timer)
  <2>1. PICK c \in Copies, timer \in TimerNames : MeasureTimer(c, timer)
    BY <1>1
  <2>2. timer \in Names /\ "performance" \in Categories
    BY <2>1, ToolsAssumption DEF TimerNames, Timers, ToolsAssumption
  <2>3. StoreNext
    BY <2>1, <2>2, EveryoneJoined DEF MeasureTimer, EnterNameValue, StoreNext
  <2>4. FrameCopies'
    <3> DEFINE f == Frame("value", c, timer, "performance", now', Tools(tool_list'))
               g == [Head(stack) EXCEPT !.timers = @ \ {timer}]
    <3>1. "copy" \in DOMAIN f /\ f.copy \in Copies
      BY DEF Frame
    <3>2. stack # << >> /\ "copy" \in DOMAIN g /\ g.copy \in Copies
      BY <2>1 DEF MeasureTimer, InFini
    <3>3. stack' = <<f, g>> \o Tail(stack)
      BY <2>1 DEF MeasureTimer
    <3> QED BY <3>1, <3>2, <3>3, ReplaceByTwo
  <2> QED BY <2>3, <2>4
<1>2. CASE \E timer \in TimerNames : TimerFails(timer)
  <2>1. PICK timer \in TimerNames : TimerFails(timer)
    BY <1>2
  <2> DEFINE f == [stack[1] EXCEPT !.timers = @ \ {timer}, !.failed = @ \cup {timer}]
  <2>2. stack # << >> /\ stack' = [stack EXCEPT ![1] = f] /\ UNCHANGED storeVars
    BY <2>1 DEF TimerFails, InFini
  <2>3. "copy" \in DOMAIN f /\ f.copy \in Copies
    BY <2>2
  <2> QED BY <2>2, <2>3, ReplaceFrame
<1>3. CASE RaiseFini
  <2>1. PICK f : f = FiniEvent(Head(stack))
    OBVIOUS
  <2>2. stack # << >> /\ stack' = <<f>> \o Tail(stack) /\ UNCHANGED storeVars
    BY <1>3, <2>1 DEF RaiseFini, InFini
  <2>3. "copy" \in DOMAIN f /\ f.copy \in Copies
    BY <2>1, <2>2 DEF FiniEvent, Frame
  <2> QED BY <2>2, <2>3, ReplaceByOne
<1>4. CASE SkipTool
  <2> DEFINE f == [stack[1] EXCEPT !.tool = NextTool(@)]
  <2>1. stack # << >> /\ stack' = [stack EXCEPT ![1] = f] /\ UNCHANGED storeVars
    BY <1>4 DEF SkipTool, AtTool
  <2>2. "copy" \in DOMAIN f /\ f.copy \in Copies
    BY <2>1
  <2> QED BY <2>1, <2>2, ReplaceFrame
<1>5. CASE CallTool
  <2>1. stack # << >> /\ UNCHANGED storeVars
    BY <1>5 DEF CallTool, AtTool
  <2> DEFINE top == Head(stack)
             Called(handed) ==
               [top EXCEPT !.running = TRUE, !.handed = handed,
                           !.called = Append(top.called, top.tool),
                           !.info = IF tool[top.tool].info /\ top.info = NullInfo
                                    THEN StaleInfo ELSE top.info]
  <2>2. PICK handed : stack' = [stack EXCEPT ![1] = Called(handed)]
    BY <1>5 DEF CallTool
  <2>3. "copy" \in DOMAIN Called(handed) /\ Called(handed).copy \in Copies
    BY <2>1
  <2> QED BY <2>1, <2>2, <2>3, ReplaceFrame
<1>6. CASE ToolReturns
  <2> DEFINE f == [stack[1] EXCEPT !.running = FALSE, !.tool = NextTool(@)]
  <2>1. stack # << >> /\ stack' = [stack EXCEPT ![1] = f] /\ UNCHANGED storeVars
    BY <1>6 DEF ToolReturns, Running
  <2>2. "copy" \in DOMAIN f /\ f.copy \in Copies
    BY <2>1
  <2> QED BY <2>1, <2>2, ReplaceFrame
<1>7. CASE FinishCall
  BY <1>7, PopFrame DEF FinishCall, LoopDone, Pop
<1>8. CASE FinishClean
  <2>1. stack # << >> /\ stack' = Tail(stack) /\ FreeRecords(Head(stack).copy)
    BY <1>8 DEF FinishClean, LoopDone, Pop
  <2>2. Head(stack).copy \in Copies
    BY <2>1
  <2> QED BY <2>1, <2>2, PopFrame, EveryoneJoined DEF StoreNext
<1> QED BY <1>1, <1>2, <1>3, <1>4, <1>5, <1>6, <1>7, <1>8 DEF Dispatch

LEMMA NextOfStore ==
    ASSUME FrameCopies, [Next]_vars
    PROVE  FrameCopies' /\ [StoreNext]_storeVars
<1>1. CASE UNCHANGED vars
  <2>1. UNCHANGED storeVars /\ stack' = stack
    BY <1>1 DEF vars, toolVars
  <2> QED BY <2>1 DEF FrameCopies, FramesIn
<1>2. CASE Dispatch
  BY <1>2, DispatchOfStore
<1>3. CASE \E c \in InitCopies, comm \in BOOLEAN : adiak_init(c, comm)
  <2>1. PICK c \in Copies, comm \in BOOLEAN : adiak_init(c, comm)
    BY <1>3, ToolsAssumption DEF ToolsAssumption
  <2>2. UNCHANGED storeVars /\ stack' = stack
    BY <2>1, CallsOfStore DEF adiak_init
  <2> QED BY <2>2 DEF FrameCopies, FramesIn
<1>4. CASE \E c \in Copies, kind \in ToolKinds : adiak_register(c, kind)
  <2>1. UNCHANGED storeVars /\ stack' = stack
    BY <1>4, CallsOfStore DEF adiak_register
  <2> QED BY <2>1 DEF FrameCopies, FramesIn
<1>5. CASE \E c \in Copies, t \in 1..MaxTools : ToolLists(c, t)
  <2>1. UNCHANGED storeVars /\ stack' = stack
    BY <1>5, CallsOfStore DEF ToolLists
  <2> QED BY <2>1 DEF FrameCopies, FramesIn
<1>6. CASE \E c \in Copies, timer \in TimerNames : RequestTimer(c, timer)
  <2>1. UNCHANGED storeVars /\ stack' = stack
    BY <1>6 DEF RequestTimer
  <2> QED BY <2>1 DEF FrameCopies, FramesIn
<1>7. CASE \E c \in Copies, n \in Names, cat \in Categories :
               adiak_raw_namevalue(c, n, cat)
  <2>1. PICK c \in Copies, n \in Names, cat \in Categories :
               adiak_raw_namevalue(c, n, cat)
    BY <1>7
  <2>2. StoreNext
    BY <2>1, CallsOfStore, EveryoneJoined DEF StoreNext
  <2>3. PICK f : f = Frame("value", c, n, cat, now', Tools(tool_list'))
    OBVIOUS
  <2>4. stack' = <<f>> \o stack /\ "copy" \in DOMAIN f /\ f.copy \in Copies
    BY <2>1, <2>3 DEF adiak_raw_namevalue, Push, Frame
  <2> QED BY <2>2, <2>4, PushFrame
<1>8. CASE \E c \in Copies : adiak_flush(c) \/ adiak_fini(c) \/ adiak_clean(c)
  <2>1. PICK c \in Copies : adiak_flush(c) \/ adiak_fini(c) \/ adiak_clean(c)
    BY <1>8
  <2>2. UNCHANGED storeVars
    BY <2>1, CallsOfStore
  <2>3. \E f : stack' = <<f>> \o stack /\ "copy" \in DOMAIN f /\ f.copy \in Copies
    <3>1. CASE adiak_flush(c)
      <4>1. PICK f : f = Frame("control", c, "flush", Control, NULL, Tools(tool_list'))
        OBVIOUS
      <4>2. stack' = <<f>> \o stack
        BY <3>1, <4>1 DEF adiak_flush, Push
      <4>3. "copy" \in DOMAIN f /\ f.copy \in Copies
        BY <4>1 DEF Frame
      <4> QED BY <4>2, <4>3
    <3>2. CASE adiak_fini(c)
      <4>1. PICK f : f = [Frame("fini", c, "fini", Control, NULL, {})
                              EXCEPT !.timers = measure[c], !.since = now]
        OBVIOUS
      <4>2. stack' = <<f>> \o stack
        BY <3>2, <4>1 DEF adiak_fini, Push
      <4>3. "copy" \in DOMAIN f /\ f.copy \in Copies
        BY <4>1 DEF Frame
      <4> QED BY <4>2, <4>3
    <3>3. CASE adiak_clean(c)
      <4>1. PICK f : f = Frame("clean", c, "clean", Control, NULL, Tools(tool_list'))
        OBVIOUS
      <4>2. stack' = <<f>> \o stack
        BY <3>3, <4>1 DEF adiak_clean, Push
      <4>3. "copy" \in DOMAIN f /\ f.copy \in Copies
        BY <4>1 DEF Frame
      <4> QED BY <4>2, <4>3
    <3> QED BY <2>1, <3>1, <3>2, <3>3
  <2> QED BY <2>2, <2>3, PushFrame
<1> QED BY <1>1, <1>2, <1>3, <1>4, <1>5, <1>6, <1>7, <1>8 DEF Next

-----------------------------------------------------------------------------
\* Under the dispatcher, with its nested calls, timers and control events, the
\* records and chains change only as AdiakStore specifies.
THEOREM DispatcherRefinesStore == Spec => ImplementsAdiakStore
<1>1. Init => StoreInit /\ FrameCopies
  BY InitFrames
<1>2. FrameCopies /\ [Next]_vars => FrameCopies' /\ [StoreNext]_storeVars
  BY NextOfStore
<1> QED BY <1>1, <1>2, PTL DEF Spec, ImplementsAdiakStore, StoreSpec

\* Whatever callbacks register while events are in dispatch, lookups by any
\* copy find every listed record and no chain leads to a freed one.
THEOREM DispatcherKeepsStore ==
    SingleHash => (Spec => [](UniqueNames /\ LookupComplete /\ NoFreedRecord))
<1>1. StoreInv => UniqueNames /\ LookupComplete /\ NoFreedRecord
  BY InvImplies
<1>2. Spec => StoreSpec
  BY DispatcherRefinesStore DEF ImplementsAdiakStore
<1> QED BY <1>1, <1>2, StoreInvariant, PTL

-----------------------------------------------------------------------------
\* The calls of the library.

\* The call frames.
Infos == Categories \cup {Control, UnsetCategory, NullInfo, StaleInfo}
FrameType ==
    [op : {"value", "control", "fini", "clean"}, copy : Copies,
     name : Names \cup {"flush", "fini", "clean"}, category : Categories \cup {Control},
     value : Nat, info : Infos, handed : Infos, timers : SUBSET TimerNames,
     tool : Nat, running : BOOLEAN, listed : SUBSET Nat, called : Seq(Nat),
     since : Nat, failed : SUBSET TimerNames]

\* The type invariant but for the bounds of frames and stack.
Types ==
    /\ adiak_config \subseteq Copies /\ initialized \subseteq InitCopies
    /\ reportable_rank \in BOOLEAN /\ use_mpi \in BOOLEAN
    /\ report_on_all_ranks \in BOOLEAN /\ cleaned \in BOOLEAN
    /\ tool_list \in adiak_config \cup {NoCopy}
    /\ tool \in Seq(ToolKinds) /\ Len(tool) <= MaxTools
    /\ local_tool_list \in [Copies -> SUBSET (1..Len(tool))]
    /\ measure \in [Copies -> SUBSET TimerNames]
    /\ stack \in Seq(FrameType)
    /\ seen \in [1..MaxTools -> [Names -> 0..now]]
    /\ synced \subseteq {t \in 1..Len(tool) : tool[t].category = AllCategories}

\* Payloads are registrations that were made.
Dated == \A r \in DOMAIN rec : rec[r].value \in 1..now

\* All tools are on the one list that the shared structure leads to, from the first
\* use of the structure to adiak_clean.
OneList ==
    /\ tool_list # NoCopy => Tools(tool_list) = 1..Len(tool)
    /\ tool_list = NoCopy /\ ~cleaned => adiak_config = {} /\ Len(tool) = 0

\* What is not a pair is at the bottom of the stack; a loop that runs has used the
\* shared structure.
Nesting ==
    /\ Len(stack) <= MaxDepth + 1
    /\ cleaned => stack = << >>
    /\ \A i \in DOMAIN stack :
          /\ stack[i].op # "value" => i = Len(stack)
          /\ stack[i].op # "fini" => tool_list # NoCopy

\* The number of the next tool that the frame's loop will look at: all tools up to
\* it are still to be told.
ToCome(f) == IF f.running THEN f.tool - 1 ELSE f.tool

\* The listed tools that pass the filters of the loop.
Filtered(f, tools, rank) ==
    {t \in f.listed : /\ tools[t].all_ranks \/ rank
                      /\ tools[t].category \in {AllCategories, f.category}}

\* The tools called so far are those that pass the filters and precede the cursor,
\* the newest first.
Progress(f, tools, rank) ==
    /\ Range(f.called) = {t \in Filtered(f, tools, rank) : t > ToCome(f)}
    /\ \A i, j \in DOMAIN f.called : i < j => f.called[i] > f.called[j]

FrameInv(f, clock, tools, rank) ==
    /\ f.op = "value" => f.name \in Names /\ f.category \in Categories
    /\ f.op # "value" => f.category = Control
    /\ f.op = "fini" => f.tool = NULL /\ ~f.running
    /\ f.value <= clock
    /\ f.running => f.tool # NULL
    /\ f.listed \subseteq 1..Len(tools) /\ 1..f.tool \subseteq f.listed
    /\ f.op # "fini" => Progress(f, tools, rank)

Frames == \A i \in DOMAIN stack : FrameInv(stack[i], now, tool, reportable_rank)

\* The inductive invariant of the calls.
CallInv == StoreTypeOK /\ Types /\ Dated /\ OneList /\ Nesting /\ Frames

-----------------------------------------------------------------------------
\* The head of a list of tools.
LEMMA FirstOfAll == ASSUME NEW n \in Nat PROVE First(1..n) = n
<1>1. CASE n = 0
  BY <1>1 DEF First, NULL
<1>2. CASE n # 0
  <2>1. n \in 1..n /\ \A y \in 1..n : n >= y
    BY <1>2
  <2>2. Max(1..n) = n
    BY <2>1 DEF Max
  <2> QED BY <2>1, <2>2 DEF First
<1> QED BY <1>1, <1>2

\* tool->next is the tool registered before.
LEMMA NextOfAll ==
    ASSUME NEW t \in 1..Len(tool), Len(tool) \in Nat, Tools(tool_list) = 1..Len(tool)
    PROVE  NextTool(t) = t - 1
<1>1. {u \in Tools(tool_list) : u < t} = 1..(t - 1)
  OBVIOUS
<1>2. t - 1 \in Nat
  OBVIOUS
<1> QED BY <1>1, <1>2, FirstOfAll DEF NextTool

\* The stack with a frame pushed, popped, and replaced.
LEMMA Pushed ==
    ASSUME NEW S, NEW s \in Seq(S), NEW f \in S
    PROVE  /\ <<f>> \o s \in Seq(S) /\ Len(<<f>> \o s) = Len(s) + 1
           /\ \A i \in DOMAIN (<<f>> \o s) :
                 \/ i = 1 /\ (<<f>> \o s)[i] = f
                 \/ i - 1 \in DOMAIN s /\ (<<f>> \o s)[i] = s[i - 1]
OBVIOUS

LEMMA Popped ==
    ASSUME NEW S, NEW s \in Seq(S), s # << >>
    PROVE  /\ Tail(s) \in Seq(S) /\ Len(Tail(s)) = Len(s) - 1
           /\ \A i \in DOMAIN Tail(s) : i + 1 \in DOMAIN s /\ Tail(s)[i] = s[i + 1]
OBVIOUS

LEMMA Replaced ==
    ASSUME NEW S, NEW s \in Seq(S), s # << >>, NEW f \in S
    PROVE  /\ [s EXCEPT ![1] = f] \in Seq(S) /\ Len([s EXCEPT ![1] = f]) = Len(s)
           /\ \A i \in DOMAIN s : [s EXCEPT ![1] = f][i] = IF i = 1 THEN f ELSE s[i]
           /\ <<f>> \o Tail(s) = [s EXCEPT ![1] = f]
           /\ Head(s) = s[1] /\ s[1] \in S /\ 1 \in DOMAIN s
<1>1. /\ [s EXCEPT ![1] = f] \in Seq(S) /\ Len([s EXCEPT ![1] = f]) = Len(s)
      /\ \A i \in DOMAIN s : [s EXCEPT ![1] = f][i] = IF i = 1 THEN f ELSE s[i]
  OBVIOUS
<1>2. Head(s) = s[1] /\ s[1] \in S /\ 1 \in DOMAIN s
  OBVIOUS
<1>3. /\ <<f>> \o Tail(s) \in Seq(S) /\ Len(<<f>> \o Tail(s)) = Len(s)
      /\ \A i \in 1..Len(s) : (<<f>> \o Tail(s))[i] = IF i = 1 THEN f ELSE s[i]
  OBVIOUS
<1>4. <<f>> \o Tail(s) = [s EXCEPT ![1] = f]
  BY <1>1, <1>3
<1> QED BY <1>1, <1>2, <1>4

-----------------------------------------------------------------------------
\* A frame stays right as time passes and tools are registered.
LEMMA FrameKept ==
    ASSUME NEW f \in FrameType, NEW clock \in Nat, NEW later \in Nat, clock <= later,
           NEW tools \in Seq(ToolKinds), NEW more \in Seq(ToolKinds),
           Len(tools) <= Len(more), \A t \in 1..Len(tools) : more[t] = tools[t],
           NEW rank, FrameInv(f, clock, tools, rank)
    PROVE  FrameInv(f, later, more, rank)
<1>1. f.listed \subseteq 1..Len(tools)
  BY DEF FrameInv
<1>2. Filtered(f, more, rank) = Filtered(f, tools, rank)
  BY <1>1 DEF Filtered
<1>3. f.listed \subseteq 1..Len(more) /\ f.value <= later
  BY <1>1 DEF FrameInv, FrameType
<1> QED BY <1>2, <1>3 DEF FrameInv, Progress

\* The events: pairs and control events.
Event(op, n, cat) ==
    \/ op = "value" /\ n \in Names /\ cat \in Categories
    \/ op \in {"control", "clean"} /\ n \in {"flush", "fini", "clean"} /\ cat = Control

\* A new frame that is to call all the tools there are.
LEMMA FrameStarts ==
    ASSUME NEW op, NEW n, NEW cat, Event(op, n, cat), NEW c \in Copies,
           NEW clock \in Nat, NEW v \in 0..clock, NEW tools \in Seq(ToolKinds), NEW rank,
           NEW f, f = Frame(op, c, n, cat, v, 1..Len(tools))
    PROVE  /\ f \in FrameType /\ FrameInv(f, clock, tools, rank)
           /\ f.op = op /\ f.name = n /\ f.value = v /\ f.listed = 1..Len(tools)
           /\ ToCome(f) = Len(tools)
<1>1. First(1..Len(tools)) = Len(tools)
  BY FirstOfAll
<1>2. /\ f.op = op /\ f.copy = c /\ f.name = n /\ f.category = cat /\ f.value = v
      /\ f.tool = Len(tools) /\ f.running = FALSE
      /\ f.listed = 1..Len(tools) /\ f.called = << >> /\ f.timers = {}
  BY <1>1 DEF Frame
<1>3. f \in FrameType
  BY <1>1 DEF Frame, FrameType, Infos, Event
<1>4. Range(f.called) = {} /\ \A i, j \in DOMAIN f.called : i < j => f.called[i] > f.called[j]
  BY <1>2 DEF Range
<1>5. {t \in Filtered(f, tools, rank) : t > ToCome(f)} = {}
  BY <1>2 DEF Filtered, ToCome
<1>6. FrameInv(f, clock, tools, rank)
  BY <1>2, <1>4, <1>5 DEF FrameInv, Progress, Event
<1> QED BY <1>2, <1>3, <1>6 DEF ToCome

LEMMA FrameOfCopy ==
    ASSUME NEW op, NEW n, NEW cat, NEW c, NEW v, NEW ts, NEW f, f = Frame(op, c, n, cat, v, ts)
    PROVE  f.copy = c /\ f.timers = {}
BY DEF Frame

\* The frame when its cursor moves on, when the tool at the cursor is called, when a
\* timer is measured and when it fails, and the fini event with what its adiak_fini did.
Advanced(f) == [f EXCEPT !.running = FALSE, !.tool = f.tool - 1]
Called(f, handed, info) ==
    [f EXCEPT !.running = TRUE, !.handed = handed, !.called = Append(f.called, f.tool),
              !.info = info]
Measured(f, timer) == [f EXCEPT !.timers = f.timers \ {timer}]
Missed(f, timer) == [f EXCEPT !.timers = f.timers \ {timer}, !.failed = f.failed \cup {timer}]
Carrying(f, since, failed) == [f EXCEPT !.since = since, !.failed = failed]

\* Two frames of one call of adiak_fini that stand the same.
IsFini(f) == f.op = "fini" \/ (f.op = "control" /\ f.name = "fini")
SameFini(f, g) ==
    /\ g.op = f.op /\ g.name = f.name /\ g.copy = f.copy
    /\ g.timers = f.timers /\ g.since = f.since /\ g.failed = f.failed

\* The cursor moves on from a tool that has been called or is filtered out.
LEMMA FrameAdvances ==
    ASSUME NEW f \in FrameType, NEW clock, NEW tools, NEW rank,
           FrameInv(f, clock, tools, rank), f.op # "fini", f.tool # NULL,
           f.running \/ f.tool \notin Filtered(f, tools, rank),
           NEW g, g = Advanced(f)
    PROVE  /\ g \in FrameType /\ FrameInv(g, clock, tools, rank)
           /\ g.op = f.op /\ g.name = f.name /\ g.value = f.value /\ g.listed = f.listed
           /\ ToCome(g) = f.tool - 1
<1>1. /\ f.tool \in Nat /\ f.tool - 1 \in Nat /\ f.running \in BOOLEAN
      /\ f.listed \in SUBSET Nat /\ f.called \in Seq(Nat)
  BY DEF FrameType, NULL
<1>2. /\ g.op = f.op /\ g.name = f.name /\ g.category = f.category /\ g.value = f.value
      /\ g.tool = f.tool - 1 /\ g.running = FALSE
      /\ g.listed = f.listed /\ g.called = f.called
  BY DEF FrameType, Advanced
<1>3. g \in FrameType
  BY <1>1 DEF FrameType, Advanced
<1>4. Filtered(g, tools, rank) = Filtered(f, tools, rank)
  BY <1>2 DEF Filtered
<1>5. Filtered(f, tools, rank) \subseteq Nat
  BY <1>1 DEF Filtered
<1>6. {t \in Filtered(f, tools, rank) : t > ToCome(f)}
        = {t \in Filtered(f, tools, rank) : t > f.tool - 1}
  BY <1>1, <1>5 DEF ToCome
<1>7. ToCome(g) = f.tool - 1
  BY <1>2 DEF ToCome
<1>8. Progress(g, tools, rank)
  BY <1>2, <1>4, <1>6, <1>7 DEF FrameInv, Progress
<1>9. 1..g.tool \subseteq g.listed
  BY <1>1, <1>2 DEF FrameInv
<1>10. FrameInv(g, clock, tools, rank)
  BY <1>2, <1>8, <1>9 DEF FrameInv
<1> QED BY <1>2, <1>3, <1>7, <1>10

\* The tool at the cursor passes the filters and is called.
LEMMA FrameCalls ==
    ASSUME NEW f \in FrameType, NEW clock, NEW tools, NEW rank,
           FrameInv(f, clock, tools, rank), f.op # "fini", f.tool # NULL,
           ~f.running, f.tool \in Filtered(f, tools, rank),
           NEW handed \in Infos, NEW info \in Infos,
           NEW g, g = Called(f, handed, info)
    PROVE  /\ g \in FrameType /\ FrameInv(g, clock, tools, rank)
           /\ g.op = f.op /\ g.name = f.name /\ g.value = f.value /\ g.listed = f.listed
           /\ ToCome(g) = f.tool - 1
<1>1. /\ f.tool \in Nat /\ f.listed \in SUBSET Nat /\ f.called \in Seq(Nat)
  BY DEF FrameType
<1>2. /\ g.op = f.op /\ g.name = f.name /\ g.category = f.category /\ g.value = f.value
      /\ g.tool = f.tool /\ g.running = TRUE
      /\ g.listed = f.listed /\ g.called = Append(f.called, f.tool)
  BY DEF FrameType, Called
<1>3. g \in FrameType
  <2>1. Append(f.called, f.tool) \in Seq(Nat)
    BY <1>1
  <2> QED BY <2>1 DEF FrameType, Called
<1>4. Filtered(g, tools, rank) = Filtered(f, tools, rank)
  BY <1>2 DEF Filtered
<1>5. Filtered(f, tools, rank) \subseteq Nat
  BY <1>1 DEF Filtered
<1>6. Range(f.called) = {t \in Filtered(f, tools, rank) : t > f.tool}
  BY DEF FrameInv, Progress, ToCome
<1>7. \A i \in DOMAIN f.called : f.called[i] > f.tool
  <2> SUFFICES ASSUME NEW i \in DOMAIN f.called PROVE f.called[i] > f.tool
    OBVIOUS
  <2>1. f.called[i] \in Range(f.called)
    BY DEF Range
  <2> QED BY <1>6, <2>1
<1>8. /\ DOMAIN g.called = DOMAIN f.called \cup {Len(f.called) + 1}
      /\ \A i \in DOMAIN f.called : g.called[i] = f.called[i] /\ i < Len(f.called) + 1
      /\ g.called[Len(f.called) + 1] = f.tool
  BY <1>1, <1>2
<1>9. Range(g.called) = Range(f.called) \cup {f.tool}
  BY <1>8 DEF Range
<1>10. Range(g.called) = {t \in Filtered(f, tools, rank) : t > f.tool - 1}
  BY <1>1, <1>5, <1>6, <1>9
<1>11. \A i, j \in DOMAIN g.called : i < j => g.called[i] > g.called[j]
  <2> SUFFICES ASSUME NEW i \in DOMAIN g.called, NEW j \in DOMAIN g.called, i < j
               PROVE  g.called[i] > g.called[j]
    OBVIOUS
  <2>1. i \in DOMAIN f.called
    BY <1>1, <1>8
  <2>2. CASE j = Len(f.called) + 1
    BY <1>7, <1>8, <2>1, <2>2
  <2>3. CASE j \in DOMAIN f.called
    BY <1>8, <2>1, <2>3 DEF FrameInv, Progress
  <2> QED BY <1>8, <2>2, <2>3
<1>12. ToCome(g) = f.tool - 1
  BY <1>2 DEF ToCome
<1>13. Progress(g, tools, rank)
  BY <1>4, <1>10, <1>11, <1>12 DEF Progress
<1>14. FrameInv(g, clock, tools, rank)
  BY <1>2, <1>13 DEF FrameInv
<1> QED BY <1>2, <1>3, <1>12, <1>14

-----------------------------------------------------------------------------
\* What the steps do to the stack, and what then has to be shown.
CallRest == Types /\ OneList /\ Nesting /\ Frames

LEMMA OldFrames ==
    ASSUME CallInv, now' \in Nat, now <= now', UNCHANGED <<tool, reportable_rank>>
    PROVE  \A i \in DOMAIN stack :
              stack[i] \in FrameType /\ FrameInv(stack[i], now', tool', reportable_rank')
<1> SUFFICES ASSUME NEW i \in DOMAIN stack, NEW f, f = stack[i]
             PROVE  f \in FrameType /\ FrameInv(f, now', tool, reportable_rank)
  OBVIOUS
<1>1. f \in FrameType /\ FrameInv(f, now, tool, reportable_rank)
  BY DEF CallInv, Types, Frames
<1>2. now \in Nat /\ tool \in Seq(ToolKinds)
  BY DEF CallInv, Types, StoreTypeOK
<1> QED BY <1>1, <1>2, FrameKept

LEMMA PushKeeps ==
    ASSUME CallInv, now' \in Nat, now <= now', UNCHANGED <<tool, reportable_rank, cleaned>>,
           ~cleaned, tool_list # NoCopy => tool_list' # NoCopy,
           NEW f \in FrameType, FrameInv(f, now', tool, reportable_rank),
           f.op # "fini" => tool_list' # NoCopy, f.op # "value" => stack = << >>,
           Len(stack) <= MaxDepth, stack' = <<f>> \o stack
    PROVE  stack' \in Seq(FrameType) /\ Nesting' /\ Frames'
<1>1. stack \in Seq(FrameType)
  BY DEF CallInv, Types
<1>2. /\ stack' \in Seq(FrameType) /\ Len(stack') = Len(stack) + 1
      /\ \A i \in DOMAIN stack' :
            \/ i = 1 /\ stack'[i] = f
            \/ i - 1 \in DOMAIN stack /\ stack'[i] = stack[i - 1]
  BY <1>1, Pushed
<1>3. Frames'
  BY <1>2, OldFrames DEF Frames
<1>4. Nesting'
  <2>1. Len(stack') <= MaxDepth + 1 /\ cleaned' = FALSE
    BY <1>1, <1>2, ToolsAssumption DEF ToolsAssumption, CallInv, Types
  <2>2. ASSUME NEW i \in DOMAIN stack'
        PROVE  /\ stack'[i].op # "value" => i = Len(stack')
               /\ stack'[i].op # "fini" => tool_list' # NoCopy
    <3>1. CASE i = 1 /\ stack'[i] = f
      BY <1>2, <3>1
    <3>2. CASE i - 1 \in DOMAIN stack /\ stack'[i] = stack[i - 1]
      BY <1>1, <1>2, <3>2 DEF CallInv, Nesting
    <3> QED BY <1>2, <3>1, <3>2
  <2> QED BY <2>1, <2>2 DEF Nesting
<1> QED BY <1>2, <1>3, <1>4

LEMMA ReplaceKeeps ==
    ASSUME CallInv, now' \in Nat, now <= now', UNCHANGED <<tool, reportable_rank, cleaned>>,
           tool_list # NoCopy => tool_list' # NoCopy, stack # << >>,
           NEW f \in FrameType, FrameInv(f, now', tool, reportable_rank),
           f.op # "fini" => tool_list' # NoCopy,
           f.op # "value" => stack[1].op # "value",
           stack' = [stack EXCEPT ![1] = f]
    PROVE  stack' \in Seq(FrameType) /\ Nesting' /\ Frames'
<1>1. stack \in Seq(FrameType)
  BY DEF CallInv, Types
<1>2. /\ stack' \in Seq(FrameType) /\ Len(stack') = Len(stack) /\ DOMAIN stack' = DOMAIN stack
      /\ \A i \in DOMAIN stack : stack'[i] = IF i = 1 THEN f ELSE stack[i]
  BY <1>1, Replaced
<1>3. Frames'
  BY <1>2, OldFrames DEF Frames
<1>4. Nesting'
  BY <1>2 DEF CallInv, Nesting
<1> QED BY <1>2, <1>3, <1>4

LEMMA PopKeeps ==
    ASSUME CallInv, now' \in Nat, now <= now', UNCHANGED <<tool, reportable_rank>>,
           stack # << >>, stack' = Tail(stack),
           UNCHANGED <<tool_list, cleaned>> \/ Len(stack) = 1
    PROVE  stack' \in Seq(FrameType) /\ Nesting' /\ Frames'
<1>1. stack \in Seq(FrameType)
  BY DEF CallInv, Types
<1>2. /\ stack' \in Seq(FrameType) /\ Len(stack') = Len(stack) - 1
      /\ \A i \in DOMAIN stack' : i + 1 \in DOMAIN stack /\ stack'[i] = stack[i + 1]
  BY <1>1, Popped
<1>3. Frames'
  BY <1>2, OldFrames DEF Frames
<1>4. Len(stack) <= MaxDepth + 1 /\ Len(stack) \in Nat /\ MaxDepth \in Nat
  BY <1>1, ToolsAssumption DEF CallInv, Nesting, ToolsAssumption
<1>5. Len(stack') <= MaxDepth + 1
  BY <1>2, <1>4
<1>6. CASE UNCHANGED <<tool_list, cleaned>>
  <2>1. ~cleaned
    BY DEF CallInv, Nesting
  <2>2. ASSUME NEW i \in DOMAIN stack'
        PROVE  /\ stack'[i].op # "value" => i = Len(stack')
               /\ stack'[i].op # "fini" => tool_list' # NoCopy
    <3>1. i + 1 \in DOMAIN stack /\ stack'[i] = stack[i + 1]
      BY <1>2
    <3>2. stack[i + 1].op # "value" => i + 1 = Len(stack)
      BY <3>1 DEF CallInv, Nesting
    <3>3. stack[i + 1].op # "fini" => tool_list # NoCopy
      BY <3>1 DEF CallInv, Nesting
    <3>4. i \in Nat
      BY <1>2
    <3> QED BY <1>2, <1>4, <1>6, <3>1, <3>2, <3>3, <3>4
  <2>3. ~cleaned'
    BY <1>6, <2>1
  <2> QED BY <1>2, <1>3, <1>5, <2>2, <2>3 DEF Nesting
<1>7. CASE Len(stack) = 1
  <2>1. stack' = << >> /\ DOMAIN stack' = {}
    BY <1>1, <1>2, <1>7
  <2> QED BY <1>2, <1>3, <1>5, <2>1 DEF Nesting
<1> QED BY <1>6, <1>7

\* adiak_get_config finds the one list, or makes the caller's the one.
LEMMA ConfigKeeps ==
    ASSUME CallInv, ~cleaned, NEW c \in Copies, adiak_get_config(c)
    PROVE  /\ adiak_config' \subseteq Copies /\ tool_list' \in adiak_config'
           /\ tool_list' # NoCopy /\ Tools(tool_list') = 1..Len(tool)
           /\ tool_list # NoCopy => tool_list' = tool_list
<1>1. NoCopy \notin Copies
  BY ToolsAssumption DEF ToolsAssumption
<1>2. CASE tool_list = NoCopy
  <2>1. adiak_config = {} /\ Len(tool) = 0
    BY <1>2 DEF CallInv, OneList
  <2>2. tool_list' = c
    BY <1>2, <2>1 DEF adiak_get_config
  <2>3. local_tool_list[c] \subseteq 1..0
    BY <2>1 DEF CallInv, Types
  <2>4. Tools(c) = 1..Len(tool)
    BY <1>1, <2>1, <2>3 DEF Tools
  <2> QED BY <1>1, <2>1, <2>2, <2>4, <1>2 DEF adiak_get_config
<1>3. CASE tool_list # NoCopy
  <2>1. tool_list' = tool_list
    BY <1>3 DEF adiak_get_config
  <2> QED BY <1>3, <2>1 DEF adiak_get_config, CallInv, Types, OneList
<1> QED BY <1>2, <1>3

\* A call of a callback, like one of the application, comes before adiak_clean is done.
LEMMA NotCleaned ==
    ASSUME CallInv, ByApplication \/ ByCallback
    PROVE  ~cleaned
BY DEF CallInv, Nesting, ByApplication, ByCallback, Running

-----------------------------------------------------------------------------
\* The steps, action by action.  What they do to the records is known from
\* Time does not run backwards and the types are kept.
TimeGoesOn == now' \in Nat /\ now <= now'

LEMMA SeenKept ==
    ASSUME CallInv, TimeGoesOn, seen' = seen
    PROVE  seen' \in [1..MaxTools -> [Names -> 0..now']]
<1>1. now \in Nat
  BY DEF CallInv, StoreTypeOK
<1>2. 0..now \subseteq 0..now'
  BY <1>1 DEF TimeGoesOn
<1> QED BY <1>2 DEF CallInv, Types

LEMMA InitCalls == ASSUME Init PROVE CallInv
<1>1. StoreTypeOK
  BY InitType DEF Init
<1>2. now = 0 /\ DOMAIN rec = {} /\ stack = << >> /\ tool = << >>
  BY DEF Init, StoreInit
<1>3. Types
  <2>1. seen \in [1..MaxTools -> [Names -> 0..now]]
    BY <1>2 DEF Init, NULL
  <2>2. tool \in Seq(ToolKinds) /\ Len(tool) = 0 /\ stack \in Seq(FrameType)
    BY <1>2
  <2>3. 0 <= MaxTools /\ local_tool_list \in [Copies -> SUBSET (1..Len(tool))]
    BY ToolsAssumption DEF Init, ToolsAssumption
  <2>4. measure \in [Copies -> SUBSET TimerNames]
    BY DEF Init
  <2> QED BY <2>1, <2>2, <2>3, <2>4 DEF Init, Types
<1>4. Dated /\ OneList
  BY <1>2 DEF Init, Dated, OneList
<1>5. Nesting /\ Frames
  <2>1. DOMAIN stack = {} /\ Len(stack) = 0
    BY <1>2
  <2> QED BY <1>2, <2>1, ToolsAssumption DEF Nesting, Frames, ToolsAssumption
<1> QED BY <1>1, <1>3, <1>4, <1>5 DEF CallInv

LEMMA InitAgainCalls ==
    ASSUME CallInv, TimeGoesOn, NEW c \in InitCopies, NEW comm \in BOOLEAN, adiak_init(c, comm)
    PROVE  CallRest'
<1>1. ~cleaned /\ stack = << >> /\ c \in Copies
  BY ToolsAssumption DEF adiak_init, ByApplication, ToolsAssumption
<1>2. adiak_get_config(c) /\ UNCHANGED <<local_tool_list, tool, stack, cleaned>>
  BY DEF adiak_init, listVars
<1>3. Types'
  <2>1. /\ initialized' \subseteq InitCopies /\ reportable_rank' \in BOOLEAN /\ use_mpi' \in BOOLEAN
        /\ UNCHANGED <<report_on_all_ranks, cleaned, tool, local_tool_list, measure, stack, seen, synced>>
    BY DEF adiak_init, listVars, CallInv, Types
  <2>2. adiak_config' \subseteq Copies /\ tool_list' \in adiak_config'
    BY <1>1, <1>2, ConfigKeeps
  <2>3. seen' \in [1..MaxTools -> [Names -> 0..now']]
    BY <2>1, SeenKept
  <2> QED BY <2>1, <2>2, <2>3 DEF CallInv, Types
<1>4. OneList'
  BY <1>1, <1>2, ConfigKeeps DEF OneList, Tools
<1>5. Nesting' /\ Frames'
  <2>1. DOMAIN stack' = {}
    BY <1>1, <1>2
  <2> QED BY <1>1, <1>2, <2>1 DEF CallInv, Nesting, Frames
<1> QED BY <1>3, <1>4, <1>5 DEF CallRest

LEMMA RegisterCalls ==
    ASSUME CallInv, TimeGoesOn, NEW c \in Copies, NEW kind \in ToolKinds, adiak_register(c, kind)
    PROVE  CallRest'
<1>1. ~cleaned /\ adiak_get_config(c)
  BY NotCleaned DEF adiak_register
<1>2. /\ adiak_config' \subseteq Copies /\ tool_list' \in adiak_config' /\ tool_list' \in Copies
      /\ tool_list' # NoCopy /\ Tools(tool_list') = 1..Len(tool)
      /\ tool_list # NoCopy => tool_list' = tool_list
  BY <1>1, ConfigKeeps
<1>3. /\ tool' = Append(tool, kind) /\ Len(tool) < MaxTools
      /\ local_tool_list' = [local_tool_list EXCEPT ![tool_list'] =
                                 local_tool_list[tool_list'] \cup {Len(tool) + 1}]
      /\ report_on_all_ranks' = (report_on_all_ranks \/ kind.all_ranks)
      /\ UNCHANGED <<initialized, reportable_rank, use_mpi, measure, stack, seen, synced, cleaned>>
  BY DEF adiak_register, rankVars
<1>4. /\ tool \in Seq(ToolKinds) /\ tool' \in Seq(ToolKinds) /\ Len(tool) \in Nat
      /\ Len(tool') = Len(tool) + 1 /\ Len(tool') <= MaxTools
      /\ \A t \in 1..Len(tool) : tool'[t] = tool[t]
  BY <1>3, ToolsAssumption DEF CallInv, Types, ToolsAssumption
<1>5. 1..Len(tool) \subseteq 1..Len(tool') /\ 1..Len(tool') = 1..Len(tool) \cup {Len(tool) + 1}
  BY <1>4
<1>6. /\ local_tool_list' \in [Copies -> SUBSET (1..Len(tool'))]
      /\ Tools(tool_list)' = 1..Len(tool')
  <2>1. local_tool_list[tool_list'] = 1..Len(tool)
    BY <1>2 DEF Tools
  <2>2. local_tool_list \in [Copies -> SUBSET (1..Len(tool))]
    BY DEF CallInv, Types
  <2>3. local_tool_list'[tool_list'] = 1..Len(tool')
    BY <1>2, <1>3, <1>5, <2>1, <2>2
  <2>4. local_tool_list' \in [Copies -> SUBSET (1..Len(tool'))]
    BY <1>2, <1>3, <1>5, <2>1, <2>2
  <2> QED BY <1>2, <2>3, <2>4 DEF Tools
<1>7. Types'
  <2>1. seen' \in [1..MaxTools -> [Names -> 0..now']]
    BY <1>3, SeenKept
  <2>2. synced' \subseteq {t \in 1..Len(tool') : tool'[t].category = AllCategories}
    BY <1>3, <1>4, <1>5 DEF CallInv, Types
  <2>3. report_on_all_ranks' \in BOOLEAN
    BY <1>3, ToolsAssumption DEF CallInv, Types, ToolsAssumption
  <2> QED BY <1>2, <1>3, <1>4, <1>6, <2>1, <2>2, <2>3 DEF CallInv, Types
<1>8. OneList'
  BY <1>2, <1>6 DEF OneList
<1>9. Nesting'
  BY <1>1, <1>2, <1>3 DEF CallInv, Nesting
<1>10. Frames'
  <2> SUFFICES ASSUME NEW i \in DOMAIN stack, NEW f, f = stack[i]
               PROVE  FrameInv(f, now', tool', reportable_rank)
    BY <1>3 DEF Frames
  <2>1. f \in FrameType /\ FrameInv(f, now, tool, reportable_rank)
    BY DEF CallInv, Types, Frames
  <2>2. now \in Nat
    BY DEF CallInv, StoreTypeOK
  <2> QED BY <1>4, <2>1, <2>2, FrameKept DEF TimeGoesOn
<1> QED BY <1>7, <1>8, <1>9, <1>10 DEF CallRest

-----------------------------------------------------------------------------
\* The head and the end of a walk over records.
LEMMA MinIn == ASSUME NEW S, S \subseteq Nat, S # {} PROVE Min(S) \in S
<1>1. PICK m \in S : \A q \in S : m <= q
  BY LeastExists
<1> QED BY <1>1 DEF Min

LEMMA MaxIn == ASSUME NEW n \in Nat, NEW S, S \subseteq 0..n, S # {} PROVE Max(S) \in S
<1>1. PICK m \in S : \A q \in S : m >= q
  BY GreatestExists
<1> QED BY <1>1 DEF Max

\* What a step does to the records: the clock does not run backwards, and the
\* payloads remain registrations that were made.
LEMMA StoreSide ==
    ASSUME StoreTypeOK, Dated, [StoreNext]_storeVars
    PROVE  StoreTypeOK' /\ Dated' /\ TimeGoesOn
<1>1. StoreTypeOK' /\ now \in Nat /\ now' \in Nat
  <2>1. StoreTypeOK'
    BY NextType
  <2> QED BY <2>1 DEF StoreTypeOK
<1>2. CASE UNCHANGED storeVars
  BY <1>1, <1>2 DEF storeVars, Dated, TimeGoesOn
<1>3. CASE \E c \in Copies : OldCopyJoins(c)
  BY <1>1, <1>3 DEF OldCopyJoins, Dated, TimeGoesOn
<1>4. CASE \E c \in Copies : FreeRecords(c)
  BY <1>1, <1>4 DEF FreeRecords, Dated, TimeGoesOn
<1>5. CASE \E c \in Copies, n \in Names, cat \in Categories : record_nameval(c, n, cat)
  <2>1. PICK c \in Copies, n \in Names, cat \in Categories : record_nameval(c, n, cat)
    BY <1>5
  <2>2. now' = now + 1
    BY <2>1 DEF record_nameval
  <2>3. \A r \in DOMAIN rec' : rec'[r].value = now + 1 \/ (r \in DOMAIN rec /\ rec'[r] = rec[r])
    <3>1. CASE OverwriteRecord(c, n, cat)
      BY <3>1 DEF OverwriteRecord
    <3>2. CASE InsertRecord(c, n, cat)
      BY <3>2 DEF InsertRecord
    <3> QED BY <2>1, <3>1, <3>2 DEF record_nameval
  <2>4. Dated'
    BY <1>1, <2>2, <2>3 DEF Dated
  <2> QED BY <1>1, <2>2, <2>4 DEF TimeGoesOn
<1> QED BY <1>2, <1>3, <1>4, <1>5 DEF StoreNext

\* The variables that dispatch leaves alone, and those that adiak_get_config sets.
LEMMA QuietStep ==
    ASSUME CallInv,
           UNCHANGED <<adiak_config, tool_list, initialized, reportable_rank, use_mpi,
                       local_tool_list, tool, report_on_all_ranks, synced, cleaned>>,
           measure' \in [Copies -> SUBSET TimerNames], stack' \in Seq(FrameType),
           seen' \in [1..MaxTools -> [Names -> 0..now']]
    PROVE  Types' /\ OneList'
<1>1. Types'
  BY DEF CallInv, Types
<1>2. OneList'
  BY DEF CallInv, OneList, Tools
<1> QED BY <1>1, <1>2

LEMMA ConfigStep ==
    ASSUME CallInv, ~cleaned, NEW c \in Copies, adiak_get_config(c),
           UNCHANGED <<initialized, reportable_rank, use_mpi, local_tool_list, tool,
                       report_on_all_ranks, measure, cleaned>>,
           synced' \subseteq {t \in 1..Len(tool) : tool[t].category = AllCategories},
           stack' \in Seq(FrameType),
           seen' \in [1..MaxTools -> [Names -> 0..now']]
    PROVE  Types' /\ OneList'
<1>1. /\ adiak_config' \subseteq Copies /\ tool_list' \in adiak_config'
      /\ tool_list' # NoCopy /\ Tools(tool_list') = 1..Len(tool)
  BY ConfigKeeps
<1>2. Types'
  BY <1>1 DEF CallInv, Types
<1>3. OneList'
  BY <1>1 DEF OneList, Tools
<1> QED BY <1>2, <1>3

\* Nothing happens to the stack.
LEMMA SameStack ==
    ASSUME CallInv, TimeGoesOn,
           UNCHANGED <<tool, reportable_rank, cleaned, stack>>,
           tool_list # NoCopy => tool_list' # NoCopy
    PROVE  stack' \in Seq(FrameType) /\ Nesting' /\ Frames'
<1>1. Frames'
  BY OldFrames DEF Frames, TimeGoesOn
<1>2. Nesting'
  BY DEF CallInv, Nesting
<1> QED BY <1>1, <1>2 DEF CallInv, Types

LEMMA ToolListsCalls ==
    ASSUME CallInv, TimeGoesOn, NEW c \in Copies, NEW t \in 1..MaxTools, ToolLists(c, t)
    PROVE  CallRest'
<1> DEFINE rs(n) == {r \in adiak_list_namevals(Categories) : rec[r].name = n}
           h == [n \in Names |-> IF rs(n) = {} THEN seen[t][n] ELSE rec[Min(rs(n))].value]
<1>1. /\ ~cleaned /\ adiak_get_config(c) /\ t \in 1..Len(tool)
      /\ tool[t].category = AllCategories
      /\ seen' = [seen EXCEPT ![t] = h] /\ synced' = synced \cup {t}
      /\ UNCHANGED <<now, initialized, reportable_rank, use_mpi, local_tool_list, tool,
                     report_on_all_ranks, measure, cleaned, stack>>
  <2>1. ~cleaned
    BY NotCleaned DEF ToolLists
  <2>2. DOMAIN tool = 1..Len(tool)
    BY DEF CallInv, Types
  <2> QED BY <2>1, <2>2 DEF ToolLists, storeVars, rankVars, listVars
<1>2. h \in [Names -> 0..now]
  <2> SUFFICES ASSUME NEW n \in Names
               PROVE  (IF rs(n) = {} THEN seen[t][n] ELSE rec[Min(rs(n))].value) \in 0..now
    OBVIOUS
  <2>1. CASE rs(n) = {}
    BY <2>1 DEF CallInv, Types
  <2>2. CASE rs(n) # {}
    <3>1. rs(n) \subseteq DOMAIN rec /\ DOMAIN rec \subseteq Nat
      BY DEF adiak_list_namevals, CallInv, StoreTypeOK
    <3>2. Min(rs(n)) \in rs(n)
      <4> HIDE DEF rs
      <4> QED BY <2>2, <3>1, MinIn
    <3>3. rec[Min(rs(n))].value \in 1..now
      BY <3>1, <3>2 DEF CallInv, Dated
    <3> QED BY <2>2, <3>3
  <2> QED BY <2>1, <2>2
<1> HIDE DEF h
<1>3. seen' \in [1..MaxTools -> [Names -> 0..now']]
  BY <1>1, <1>2 DEF CallInv, Types
<1>4. synced' \subseteq {u \in 1..Len(tool) : tool[u].category = AllCategories}
  BY <1>1 DEF CallInv, Types
<1>5. stack' \in Seq(FrameType) /\ Nesting' /\ Frames'
  BY <1>1, SameStack, ConfigKeeps
<1>6. Types' /\ OneList'
  BY <1>1, <1>3, <1>4, <1>5, ConfigStep
<1> QED BY <1>5, <1>6 DEF CallRest

LEMMA RequestTimerCalls ==
    ASSUME CallInv, TimeGoesOn, NEW c \in Copies, NEW timer \in TimerNames, RequestTimer(c, timer)
    PROVE  CallRest'
<1>1. /\ measure' = [measure EXCEPT ![c] = measure[c] \cup {timer}]
      /\ UNCHANGED <<now, adiak_config, tool_list, initialized, reportable_rank, use_mpi,
                     local_tool_list, tool, report_on_all_ranks, synced, seen, cleaned, stack>>
  BY DEF RequestTimer, storeVars, configVars, rankVars, listVars
<1>2. measure' \in [Copies -> SUBSET TimerNames]
  BY <1>1 DEF CallInv, Types
<1>3. stack' \in Seq(FrameType) /\ Nesting' /\ Frames'
  BY <1>1, SameStack
<1>4. Types' /\ OneList'
  BY <1>1, <1>2, <1>3, SeenKept, QuietStep
<1> QED BY <1>3, <1>4 DEF CallRest

\* A call that pushes a frame for all tools there are.
LEMMA EventCalls ==
    ASSUME CallInv, TimeGoesOn, NEW c \in Copies, adiak_get_config(c),
           ByApplication \/ ByCallback,
           UNCHANGED <<initialized, reportable_rank, use_mpi, local_tool_list, tool,
                       report_on_all_ranks, measure, seen, synced, cleaned>>,
           NEW op, NEW n, NEW cat, Event(op, n, cat), NEW v \in 0..now',
           op # "value" => ByApplication,
           stack' = <<Frame(op, c, n, cat, v, Tools(tool_list'))>> \o stack
    PROVE  CallRest'
<1>1. ~cleaned
  BY NotCleaned
<1>2. /\ tool_list' # NoCopy /\ Tools(tool_list') = 1..Len(tool)
      /\ tool_list # NoCopy => tool_list' # NoCopy
  BY <1>1, ConfigKeeps
<1> PICK f : f = Frame(op, c, n, cat, v, 1..Len(tool))
  OBVIOUS
<1>3. f \in FrameType /\ FrameInv(f, now', tool, reportable_rank) /\ f.op = op
  <2>1. tool \in Seq(ToolKinds) /\ now' \in Nat
    BY DEF CallInv, Types, TimeGoesOn
  <2> QED BY <2>1, FrameStarts
<1>4. stack' = <<f>> \o stack
  BY <1>2
<1>5. Len(stack) <= MaxDepth /\ (op # "value" => stack = << >>)
  <2>1. stack \in Seq(FrameType) /\ MaxDepth \in Nat
    BY ToolsAssumption DEF CallInv, Types, ToolsAssumption
  <2> QED BY <2>1 DEF ByApplication, ByCallback
<1>6. stack' \in Seq(FrameType) /\ Nesting' /\ Frames'
  BY <1>1, <1>2, <1>3, <1>4, <1>5, PushKeeps DEF TimeGoesOn
<1>7. synced' \subseteq {t \in 1..Len(tool) : tool[t].category = AllCategories}
  BY DEF CallInv, Types
<1>8. Types' /\ OneList'
  BY <1>1, <1>6, <1>7, SeenKept, ConfigStep
<1> QED BY <1>6, <1>8 DEF CallRest

LEMMA NameValueCalls ==
    ASSUME CallInv, TimeGoesOn, NEW c \in Copies, NEW n \in Names, NEW cat \in Categories,
           adiak_raw_namevalue(c, n, cat)
    PROVE  CallRest'
<1>1. /\ ByApplication \/ ByCallback
      /\ adiak_get_config(c)
      /\ UNCHANGED <<initialized, reportable_rank, use_mpi, local_tool_list, tool,
                     report_on_all_ranks, measure, seen, synced, cleaned>>
      /\ stack' = <<Frame("value", c, n, cat, now', Tools(tool_list'))>> \o stack
  BY DEF adiak_raw_namevalue, EnterNameValue, rankVars, listVars, Push
<1>2. now' \in 0..now' /\ Event("value", n, cat)
  BY DEF TimeGoesOn, Event
<1> QED BY <1>1, <1>2, EventCalls

LEMMA FlushCalls ==
    ASSUME CallInv, TimeGoesOn, NEW c \in Copies, adiak_flush(c) \/ adiak_clean(c)
    PROVE  CallRest'
<1>1. /\ ByApplication
      /\ adiak_get_config(c)
      /\ UNCHANGED <<initialized, reportable_rank, use_mpi, local_tool_list, tool,
                     report_on_all_ranks, measure, seen, synced, cleaned>>
      /\ \/ stack' = <<Frame("control", c, "flush", Control, NULL, Tools(tool_list'))>> \o stack
         \/ stack' = <<Frame("clean", c, "clean", Control, NULL, Tools(tool_list'))>> \o stack
  BY DEF adiak_flush, adiak_clean, rankVars, listVars, Push
<1>2. NULL \in 0..now' /\ Event("control", "flush", Control) /\ Event("clean", "clean", Control)
  BY DEF NULL, TimeGoesOn, Event
<1> QED BY <1>1, <1>2, EventCalls

LEMMA FiniCalls ==
    ASSUME CallInv, TimeGoesOn, NEW c \in Copies, adiak_fini(c)
    PROVE  CallRest'
<1> DEFINE g == Frame("fini", c, "fini", Control, NULL, {})
           f == [g EXCEPT !.timers = measure[c], !.since = now]
<1>1. /\ ByApplication /\ stack' = <<f>> \o stack
      /\ UNCHANGED <<now, adiak_config, tool_list, initialized, reportable_rank, use_mpi,
                     local_tool_list, tool, report_on_all_ranks, measure, synced, seen, cleaned>>
  BY DEF adiak_fini, Push, storeVars, configVars, rankVars, listVars
<1>2. measure[c] \in SUBSET TimerNames /\ now \in Nat
  BY DEF CallInv, Types, StoreTypeOK
<1>3. /\ f.op = "fini" /\ f.name = "fini" /\ f.category = Control /\ f.value = NULL
      /\ f.tool = NULL /\ f.running = FALSE /\ f.listed = {}
  BY DEF Frame, First
<1>4. f \in FrameType
  <2>1. g \in FrameType
    BY DEF Frame, First, FrameType, Infos, NULL
  <2> HIDE DEF g
  <2> QED BY <1>2, <2>1 DEF FrameType
<1>5. FrameInv(f, now', tool, reportable_rank)
  <2> HIDE DEF f
  <2> QED BY <1>3 DEF FrameInv, NULL, TimeGoesOn
<1> HIDE DEF f
<1>6. stack = << >> /\ ~cleaned /\ Len(stack) <= MaxDepth
  BY <1>1, ToolsAssumption DEF ByApplication, ToolsAssumption
<1>7. stack' \in Seq(FrameType) /\ Nesting' /\ Frames'
  BY <1>1, <1>3, <1>4, <1>5, <1>6, PushKeeps DEF TimeGoesOn
<1>8. measure' \in [Copies -> SUBSET TimerNames]
  BY <1>1 DEF CallInv, Types
<1>9. Types' /\ OneList'
  BY <1>1, <1>7, <1>8, SeenKept, QuietStep
<1> QED BY <1>7, <1>9 DEF CallRest

-----------------------------------------------------------------------------
\* The top frame, and where its loop stands.
LEMMA TopOfStack ==
    ASSUME CallInv, stack # << >>
    PROVE  /\ Head(stack) = stack[1] /\ stack[1] \in FrameType /\ 1 \in DOMAIN stack
           /\ FrameInv(stack[1], now, tool, reportable_rank)
           /\ ~cleaned /\ (stack[1].op # "fini" => tool_list # NoCopy)
           /\ stack[1].op # "value" => Len(stack) = 1
           /\ stack[1].tool # NULL =>
                 /\ stack[1].tool \in 1..Len(tool) /\ stack[1].tool \in stack[1].listed
                 /\ stack[1].op # "fini" => NextTool(stack[1].tool) = stack[1].tool - 1
<1> DEFINE f == stack[1]
<1>1. Head(stack) = f /\ f \in FrameType /\ 1 \in DOMAIN stack
  BY DEF CallInv, Types
<1>2. FrameInv(f, now, tool, reportable_rank)
  BY <1>1 DEF CallInv, Frames
<1>3. ~cleaned /\ (f.op # "fini" => tool_list # NoCopy) /\ (f.op # "value" => Len(stack) = 1)
  BY <1>1 DEF CallInv, Nesting
<1>4. ASSUME f.tool # NULL
      PROVE  /\ f.tool \in 1..Len(tool) /\ f.tool \in f.listed
             /\ f.op # "fini" => NextTool(f.tool) = f.tool - 1
  <2>1. f.tool \in Nat /\ Len(tool) \in Nat
    BY <1>1 DEF FrameType, CallInv, Types
  <2>2. f.tool \in 1..f.tool
    BY <1>4, <2>1 DEF NULL
  <2>3. f.tool \in f.listed /\ f.tool \in 1..Len(tool)
    BY <1>2, <2>2 DEF FrameInv
  <2>4. tool_list # NoCopy => Tools(tool_list) = 1..Len(tool)
    BY DEF CallInv, OneList
  <2> HIDE DEF f
  <2> QED BY <1>3, <2>1, <2>3, <2>4, NextOfAll
<1> QED BY <1>1, <1>2, <1>3, <1>4

\* The filters of the loop.
LEMMA EligibleIsFiltered ==
    ASSUME NEW f, NEW t, t \in f.listed
    PROVE  Eligible(t, f.category) <=> t \in Filtered(f, tool, reportable_rank)
BY DEF Eligible, Filtered

\* A step that changes the top frame and nothing else but what tools hold.
LEMMA TurnCalls ==
    ASSUME CallInv, TimeGoesOn, stack # << >>,
           NEW f \in FrameType, FrameInv(f, now', tool, reportable_rank),
           f.op = stack[1].op, stack' = [stack EXCEPT ![1] = f],
           UNCHANGED <<adiak_config, tool_list, initialized, reportable_rank, use_mpi,
                       local_tool_list, tool, report_on_all_ranks, measure, synced, cleaned>>,
           seen' \in [1..MaxTools -> [Names -> 0..now']]
    PROVE  CallRest'
<1>1. stack' \in Seq(FrameType) /\ Nesting' /\ Frames'
  BY TopOfStack, ReplaceKeeps DEF TimeGoesOn
<1>2. measure' \in [Copies -> SUBSET TimerNames]
  BY DEF CallInv, Types
<1>3. Types' /\ OneList'
  BY <1>1, <1>2, QuietStep
<1> QED BY <1>1, <1>3 DEF CallRest

\* The fini frame with some of its timers done.
LEMMA FewerTimers ==
    ASSUME NEW f \in FrameType, NEW clock, NEW tools, NEW rank, FrameInv(f, clock, tools, rank),
           f.op = "fini", NEW timer \in TimerNames, NEW g,
           g = Measured(f, timer) \/ g = Missed(f, timer)
    PROVE  /\ g \in FrameType /\ FrameInv(g, clock, tools, rank)
           /\ g.op = "fini" /\ g.name = f.name /\ g.copy = f.copy /\ g.since = f.since
           /\ g.timers = f.timers \ {timer} /\ f.failed \subseteq g.failed
           /\ g = Missed(f, timer) => timer \in g.failed
<1>1. f.timers \ {timer} \in SUBSET TimerNames /\ f.failed \cup {timer} \in SUBSET TimerNames
  BY DEF FrameType
<1>2. g \in FrameType
  BY <1>1 DEF FrameType, Measured, Missed
<1>3. /\ g.op = f.op /\ g.name = f.name /\ g.category = f.category /\ g.value = f.value
      /\ g.tool = f.tool /\ g.running = f.running /\ g.listed = f.listed
      /\ g.copy = f.copy /\ g.since = f.since /\ g.timers = f.timers \ {timer}
  BY DEF FrameType, Measured, Missed
<1>4. FrameInv(g, clock, tools, rank)
  BY <1>3 DEF FrameInv
<1>5. f.failed \subseteq g.failed /\ (g = Missed(f, timer) => timer \in g.failed)
  BY DEF FrameType, Measured, Missed
<1> QED BY <1>2, <1>3, <1>4, <1>5

\* The frame of the fini event, with what its adiak_fini kept.
LEMMA CarryingKeeps ==
    ASSUME NEW f \in FrameType, NEW clock, NEW tools, NEW rank, FrameInv(f, clock, tools, rank),
           NEW since \in Nat, NEW failed \in SUBSET TimerNames,
           NEW g, g = Carrying(f, since, failed)
    PROVE  /\ g \in FrameType /\ FrameInv(g, clock, tools, rank)
           /\ g.op = f.op /\ g.name = f.name /\ g.copy = f.copy /\ g.timers = f.timers
           /\ g.since = since /\ g.failed = failed
<1>1. g \in FrameType
  BY DEF FrameType, Carrying
<1>2. /\ g.op = f.op /\ g.name = f.name /\ g.category = f.category /\ g.value = f.value
      /\ g.tool = f.tool /\ g.running = f.running /\ g.listed = f.listed
      /\ g.called = f.called /\ g.copy = f.copy /\ g.timers = f.timers
      /\ g.since = since /\ g.failed = failed
  BY DEF FrameType, Carrying
<1>3. FrameInv(g, clock, tools, rank)
  <2>1. ToCome(g) = ToCome(f) /\ Filtered(g, tools, rank) = Filtered(f, tools, rank)
    BY <1>2 DEF ToCome, Filtered
  <2> QED BY <1>2, <2>1 DEF FrameInv, Progress
<1> QED BY <1>1, <1>2, <1>3

LEMMA TimerFailsCalls ==
    ASSUME CallInv, TimeGoesOn, NEW timer \in TimerNames, TimerFails(timer)
    PROVE  CallRest'
<1>1. /\ stack # << >> /\ Head(stack).op = "fini"
      /\ stack' = [stack EXCEPT ![1] = Missed(stack[1], timer)]
      /\ UNCHANGED <<now, adiak_config, tool_list, initialized, reportable_rank, use_mpi,
                     local_tool_list, tool, report_on_all_ranks, measure, synced, seen, cleaned>>
  BY DEF TimerFails, InFini, Missed, storeVars, configVars, rankVars, listVars
<1>2. PICK g : g = Missed(stack[1], timer)
  OBVIOUS
<1>3. g \in FrameType /\ FrameInv(g, now', tool, reportable_rank) /\ g.op = stack[1].op
  BY <1>1, <1>2, TopOfStack, FewerTimers
<1> QED BY <1>1, <1>2, <1>3, SeenKept, TurnCalls

LEMMA SkipToolCalls ==
    ASSUME CallInv, TimeGoesOn, SkipTool
    PROVE  CallRest'
<1> DEFINE f == stack[1]
<1>1. /\ stack # << >> /\ f.op # "fini" /\ f.running = FALSE /\ f.tool # NULL
      /\ ~Eligible(f.tool, f.category)
      /\ stack' = [stack EXCEPT ![1] = [f EXCEPT !.tool = NextTool(f.tool)]]
      /\ UNCHANGED <<now, adiak_config, tool_list, initialized, reportable_rank, use_mpi,
                     local_tool_list, tool, report_on_all_ranks, measure, synced, seen, cleaned>>
  <2>1. stack # << >>
    BY DEF SkipTool, AtTool
  <2>2. Head(stack) = f /\ f.running \in BOOLEAN
    BY <2>1, TopOfStack DEF FrameType
  <2> QED BY <2>1, <2>2 DEF SkipTool, AtTool, storeVars, configVars, rankVars, listVars
<1>2. PICK g : g = Advanced(f)
  OBVIOUS
<1>3. f.tool \in f.listed /\ NextTool(f.tool) = f.tool - 1 /\ f \in FrameType
  BY <1>1, TopOfStack
<1>4. g \in FrameType /\ FrameInv(g, now', tool, reportable_rank) /\ g.op = f.op
  <2>1. f.tool \notin Filtered(f, tool, reportable_rank)
    BY <1>1, <1>3, EligibleIsFiltered
  <2>2. FrameInv(f, now, tool, reportable_rank)
    BY <1>1, TopOfStack
  <2> HIDE DEF f
  <2> QED BY <1>1, <1>2, <1>3, <2>1, <2>2, FrameAdvances
<1>5. g = [f EXCEPT !.tool = f.tool - 1]
  BY <1>1, <1>2, <1>3 DEF FrameType, Advanced
<1> QED BY <1>1, <1>3, <1>4, <1>5, SeenKept, TurnCalls

LEMMA ToolReturnsCalls ==
    ASSUME CallInv, TimeGoesOn, ToolReturns
    PROVE  CallRest'
<1> DEFINE f == stack[1]
<1>1. /\ stack # << >> /\ f.running
      /\ stack' = [stack EXCEPT ![1] = [f EXCEPT !.running = FALSE, !.tool = NextTool(f.tool)]]
      /\ UNCHANGED <<now, adiak_config, tool_list, initialized, reportable_rank, use_mpi,
                     local_tool_list, tool, report_on_all_ranks, measure, synced, seen, cleaned>>
  <2>1. stack # << >>
    BY DEF ToolReturns, Running
  <2>2. Head(stack) = f
    BY <2>1, TopOfStack
  <2> QED BY <2>1, <2>2 DEF ToolReturns, Running, storeVars, configVars, rankVars, listVars
<1>2. FrameInv(f, now, tool, reportable_rank) /\ f \in FrameType
  BY <1>1, TopOfStack
<1>3. f.op # "fini" /\ f.tool # NULL
  BY <1>1, <1>2 DEF FrameInv
<1>4. NextTool(f.tool) = f.tool - 1
  BY <1>1, <1>3, TopOfStack
<1>5. PICK g : g = Advanced(f)
  OBVIOUS
<1>6. g \in FrameType /\ FrameInv(g, now', tool, reportable_rank) /\ g.op = f.op
  <2> HIDE DEF f
  <2> QED BY <1>1, <1>2, <1>3, <1>5, FrameAdvances
<1>7. stack' = [stack EXCEPT ![1] = g]
  BY <1>1, <1>4, <1>5 DEF Advanced
<1> QED BY <1>1, <1>6, <1>7, SeenKept, TurnCalls

\* What a callback keeps has the right type.
LEMMA KeptType ==
    ASSUME CallInv, NEW f \in FrameType, FrameInv(f, now, tool, reportable_rank),
           NEW t \in 1..MaxTools
    PROVE  Kept(t, f) \in [Names -> 0..now]
<1>1. now \in Nat /\ seen[t] \in [Names -> 0..now] /\ 0 \in 0..now
  BY DEF CallInv, StoreTypeOK, Types
<1>2. CASE f.op = "value"
  <2>1. f.name \in Names /\ f.value \in 0..now
    BY <1>1, <1>2 DEF FrameInv, FrameType
  <2> QED BY <1>1, <1>2, <2>1 DEF Kept
<1>3. CASE f.op = "clean"
  BY <1>1, <1>3 DEF Kept, NULL
<1>4. CASE f.op # "value" /\ f.op # "clean"
  BY <1>1, <1>4 DEF Kept
<1> QED BY <1>2, <1>3, <1>4

\* The step of CallTool.
LEMMA CallStep ==
    ASSUME CallInv, CallTool
    PROVE  LET f == stack[1]
           IN  /\ stack # << >> /\ f.op # "fini" /\ ~f.running /\ f.tool # NULL
               /\ f.tool \in 1..Len(tool) /\ f.tool \in 1..MaxTools
               /\ f.tool \in Filtered(f, tool, reportable_rank)
               /\ \E handed, info \in Infos : stack' = [stack EXCEPT ![1] = Called(f, handed, info)]
               /\ seen' = [seen EXCEPT ![f.tool] = Kept(f.tool, f)]
               /\ UNCHANGED <<storeVars, adiak_config, tool_list, initialized, reportable_rank,
                              use_mpi, local_tool_list, tool, report_on_all_ranks, measure,
                              synced, cleaned>>
<1> DEFINE f == stack[1]
<1>1. stack # << >>
  BY DEF CallTool, AtTool
<1>2. Head(stack) = f /\ f \in FrameType
  BY <1>1, TopOfStack
<1>3. f.op # "fini" /\ ~f.running /\ f.tool # NULL /\ Eligible(f.tool, f.category)
  BY <1>2 DEF CallTool, AtTool
<1>4. f.tool \in 1..Len(tool) /\ f.tool \in f.listed
  BY <1>1, <1>3, TopOfStack
<1>5. f.tool \in Filtered(f, tool, reportable_rank)
  BY <1>3, <1>4, EligibleIsFiltered
<1>6. Len(tool) \in Nat /\ Len(tool) <= MaxTools /\ MaxTools \in Nat
  BY ToolsAssumption DEF CallInv, Types, ToolsAssumption
<1>7. \E handed, info \in Infos : stack' = [stack EXCEPT ![1] = Called(f, handed, info)]
  <2>1. InfoFor(f) \subseteq Infos
    BY <1>2 DEF InfoFor, FrameType, Infos
  <2>2. NullInfo \in Infos
    BY DEF Infos
  <2>3. PICK info \in Infos :
           info = IF tool[f.tool].info /\ f.info = NullInfo THEN StaleInfo ELSE f.info
    BY <1>2 DEF FrameType, Infos
  <2>4. PICK handed \in IF tool[f.tool].info THEN InfoFor(f) ELSE {NullInfo} :
           stack' = [stack EXCEPT ![1] = Called(f, handed, info)]
    BY <1>2, <2>3 DEF CallTool, Called
  <2> QED BY <2>1, <2>2, <2>4
<1>8. /\ seen' = [seen EXCEPT ![f.tool] = Kept(f.tool, f)]
      /\ UNCHANGED <<storeVars, adiak_config, tool_list, initialized, reportable_rank,
                     use_mpi, local_tool_list, tool, report_on_all_ranks, measure,
                     synced, cleaned>>
  BY <1>2 DEF CallTool, configVars, rankVars, listVars
<1>9. f.tool \in 1..MaxTools
  BY <1>4, <1>6
<1> HIDE DEF f
<1> QED BY <1>1, <1>3, <1>4, <1>5, <1>7, <1>8, <1>9 DEF f

LEMMA CallToolCalls ==
    ASSUME CallInv, TimeGoesOn, CallTool
    PROVE  CallRest'
<1> DEFINE f == stack[1]
<1>1. /\ stack # << >> /\ f.op # "fini" /\ ~f.running /\ f.tool # NULL
      /\ f.tool \in 1..MaxTools /\ f.tool \in Filtered(f, tool, reportable_rank)
      /\ seen' = [seen EXCEPT ![f.tool] = Kept(f.tool, f)]
      /\ UNCHANGED <<now, adiak_config, tool_list, initialized, reportable_rank,
                     use_mpi, local_tool_list, tool, report_on_all_ranks, measure,
                     synced, cleaned>>
  BY CallStep DEF storeVars
<1>2. PICK handed, info \in Infos : stack' = [stack EXCEPT ![1] = Called(f, handed, info)]
  BY CallStep
<1>3. f \in FrameType /\ FrameInv(f, now, tool, reportable_rank)
  BY <1>1, TopOfStack
<1>5. PICK g : g = Called(f, handed, info)
  OBVIOUS
<1>6. g \in FrameType /\ FrameInv(g, now', tool, reportable_rank) /\ g.op = f.op
  <2> HIDE DEF f
  <2> QED BY <1>1, <1>3, <1>5, FrameCalls
<1>7. stack' = [stack EXCEPT ![1] = g]
  BY <1>2, <1>5
<1>8. seen' \in [1..MaxTools -> [Names -> 0..now']]
  <2>1. Kept(f.tool, f) \in [Names -> 0..now]
    BY <1>1, <1>3, KeptType
  <2> QED BY <1>1, <2>1 DEF CallInv, Types
<1> QED BY <1>1, <1>6, <1>7, <1>8, TurnCalls

LEMMA FinishCalls ==
    ASSUME CallInv, TimeGoesOn, FinishCall
    PROVE  CallRest'
<1>1. /\ stack # << >> /\ stack' = Tail(stack)
      /\ UNCHANGED <<now, adiak_config, tool_list, initialized, reportable_rank, use_mpi,
                     local_tool_list, tool, report_on_all_ranks, measure, synced, seen, cleaned>>
  BY DEF FinishCall, LoopDone, Pop, storeVars, configVars, rankVars, listVars
<1>2. stack' \in Seq(FrameType) /\ Nesting' /\ Frames'
  BY <1>1, PopKeeps DEF TimeGoesOn
<1>3. measure' \in [Copies -> SUBSET TimerNames]
  BY <1>1 DEF CallInv, Types
<1>4. Types' /\ OneList'
  BY <1>1, <1>2, <1>3, SeenKept, QuietStep
<1> QED BY <1>2, <1>4 DEF CallRest

LEMMA FinishCleanCalls ==
    ASSUME CallInv, TimeGoesOn, FinishClean
    PROVE  CallRest'
<1>1. /\ stack # << >> /\ stack' = Tail(stack) /\ Head(stack).op = "clean"
      /\ tool_list' = NoCopy /\ cleaned' = TRUE
      /\ UNCHANGED <<adiak_config, initialized, reportable_rank, use_mpi,
                     local_tool_list, tool, report_on_all_ranks, measure, synced, seen>>
  BY DEF FinishClean, LoopDone, Pop, rankVars, listVars
<1>2. Len(stack) = 1
  BY <1>1, TopOfStack
<1>3. stack' \in Seq(FrameType) /\ Nesting' /\ Frames'
  BY <1>1, <1>2, PopKeeps DEF TimeGoesOn
<1>4. Types'
  BY <1>1, <1>3, SeenKept DEF CallInv, Types
<1>5. OneList'
  BY <1>1 DEF OneList
<1> QED BY <1>3, <1>4, <1>5 DEF CallRest

\* A measured timer is on the stack above the fini frame that measures it.
LEMMA MeasureStep ==
    ASSUME CallInv, TimeGoesOn, NEW c \in Copies, NEW timer \in TimerNames, MeasureTimer(c, timer)
    PROVE  \E f, g :
              /\ f \in FrameType /\ FrameInv(f, now', tool, reportable_rank)
              /\ f.op = "value" /\ f.name = timer /\ f.value = now' /\ ToCome(f) = Len(tool)
              /\ g \in FrameType /\ FrameInv(g, now', tool, reportable_rank)
              /\ g.op = "fini" /\ g.name = stack[1].name
              /\ g.copy = stack[1].copy /\ g.since = stack[1].since
              /\ g.timers = stack[1].timers \ {timer} /\ stack[1].failed \subseteq g.failed
              /\ stack' = <<f, g>> /\ Len(stack) = 1 /\ stack[1].op = "fini"
              /\ adiak_get_config(c) /\ ~cleaned /\ record_nameval(c, timer, "performance")
              /\ UNCHANGED <<initialized, reportable_rank, use_mpi, local_tool_list, tool,
                             report_on_all_ranks, measure, synced, seen, cleaned>>
<1>1. /\ stack # << >> /\ Head(stack).op = "fini"
      /\ stack' = <<Frame("value", c, timer, "performance", now', Tools(tool_list')),
                    Measured(Head(stack), timer)>> \o Tail(stack)
      /\ adiak_get_config(c) /\ record_nameval(c, timer, "performance")
      /\ UNCHANGED <<initialized, reportable_rank, use_mpi, local_tool_list, tool,
                     report_on_all_ranks, measure, synced, seen, cleaned>>
  BY DEF MeasureTimer, InFini, EnterNameValue, Measured, rankVars, listVars
<1>2. Head(stack) = stack[1] /\ ~cleaned /\ Len(stack) = 1
  BY <1>1, TopOfStack
<1>3. Tail(stack) = << >>
  <2>1. stack \in Seq(FrameType)
    BY DEF CallInv, Types
  <2>2. Tail(stack) \in Seq(FrameType) /\ Len(Tail(stack)) = 0
    BY <1>1, <1>2, <2>1, Popped
  <2>3. \A s \in Seq(FrameType) : Len(s) = 0 => s = << >>
    OBVIOUS
  <2> QED BY <2>2, <2>3
<1>4. Tools(tool_list') = 1..Len(tool)
  BY <1>1, <1>2, ConfigKeeps
<1>5. PICK f : f = Frame("value", c, timer, "performance", now', 1..Len(tool))
  OBVIOUS
<1>6. /\ f \in FrameType /\ FrameInv(f, now', tool, reportable_rank)
      /\ f.op = "value" /\ f.name = timer /\ f.value = now' /\ ToCome(f) = Len(tool)
  <2>1. Event("value", timer, "performance")
    BY ToolsAssumption DEF Event, TimerNames, Timers, ToolsAssumption
  <2>2. now' \in Nat /\ now' \in 0..now' /\ tool \in Seq(ToolKinds)
    BY DEF TimeGoesOn, CallInv, Types
  <2> QED BY <1>5, <2>1, <2>2, FrameStarts
<1>7. PICK g : g = Measured(stack[1], timer)
  OBVIOUS
<1>8. /\ g \in FrameType /\ FrameInv(g, now', tool, reportable_rank)
      /\ g.op = "fini" /\ g.name = stack[1].name
      /\ g.copy = stack[1].copy /\ g.since = stack[1].since
      /\ g.timers = stack[1].timers \ {timer} /\ stack[1].failed \subseteq g.failed
  <2>1. PICK top : top = stack[1]
    OBVIOUS
  <2>2. top \in FrameType /\ FrameInv(top, now, tool, reportable_rank) /\ top.op = "fini"
    BY <1>1, <1>2, <2>1, TopOfStack
  <2>3. FrameInv(top, now', tool, reportable_rank)
    BY <2>2, FrameKept DEF TimeGoesOn, CallInv, Types, StoreTypeOK
  <2> QED BY <1>7, <2>1, <2>2, <2>3, FewerTimers
<1>9. stack' = <<f, g>>
  <2>1. <<f, g>> \o << >> = <<f, g>>
    BY <1>6, <1>8
  <2> QED BY <1>1, <1>2, <1>3, <1>4, <1>5, <1>7, <2>1
<1> QED BY <1>1, <1>2, <1>6, <1>8, <1>9

LEMMA MeasureTimerCalls ==
    ASSUME CallInv, TimeGoesOn, NEW c \in Copies, NEW timer \in TimerNames, MeasureTimer(c, timer)
    PROVE  CallRest'
<1>1. PICK f, g :
         /\ f \in FrameType /\ FrameInv(f, now', tool, reportable_rank) /\ f.op = "value"
         /\ g \in FrameType /\ FrameInv(g, now', tool, reportable_rank) /\ g.op = "fini"
         /\ stack' = <<f, g>> /\ adiak_get_config(c) /\ ~cleaned
         /\ UNCHANGED <<initialized, reportable_rank, use_mpi, local_tool_list, tool,
                        report_on_all_ranks, measure, synced, seen, cleaned>>
  BY MeasureStep
<1>2. tool_list' # NoCopy
  BY <1>1, ConfigKeeps
<1>3. stack' \in Seq(FrameType) /\ Len(stack') = 2 /\ DOMAIN stack' = {1, 2}
  BY <1>1
<1>4. Frames'
  BY <1>1, <1>3 DEF Frames
<1>5. Nesting'
  <2>1. Len(stack') <= MaxDepth + 1
    BY <1>3, ToolsAssumption DEF ToolsAssumption
  <2> QED BY <1>1, <1>2, <1>3, <2>1 DEF Nesting
<1>6. Types' /\ OneList'
  <2>1. synced' \subseteq {t \in 1..Len(tool) : tool[t].category = AllCategories}
    BY <1>1 DEF CallInv, Types
  <2> QED BY <1>1, <1>3, <2>1, SeenKept, ConfigStep
<1> QED BY <1>3, <1>4, <1>5, <1>6 DEF CallRest

LEMMA RaiseFiniStep ==
    ASSUME CallInv, TimeGoesOn, RaiseFini
    PROVE  /\ \E f \in FrameType :
                 /\ FrameInv(f, now', tool, reportable_rank)
                 /\ f.op = "control" /\ f.name = "fini" /\ f.copy = stack[1].copy
                 /\ f.timers = {} /\ f.since = stack[1].since /\ f.failed = stack[1].failed
                 /\ stack' = [stack EXCEPT ![1] = f]
           /\ stack # << >> /\ stack[1].op = "fini" /\ stack[1].copy \in Copies
           /\ stack[1].timers = {}
           /\ adiak_get_config(stack[1].copy)
           /\ UNCHANGED <<storeVars, initialized, reportable_rank, use_mpi, local_tool_list, tool,
                          report_on_all_ranks, measure, synced, seen, cleaned>>
<1>1. /\ stack # << >> /\ Head(stack).op = "fini" /\ Head(stack).timers = {}
      /\ stack' = <<Carrying(Frame("control", Head(stack).copy, "fini", Control, NULL,
                                   Tools(tool_list')),
                             Head(stack).since, Head(stack).failed)>> \o Tail(stack)
      /\ adiak_get_config(Head(stack).copy)
      /\ UNCHANGED <<storeVars, initialized, reportable_rank, use_mpi, local_tool_list, tool,
                     report_on_all_ranks, measure, synced, seen, cleaned>>
  BY DEF RaiseFini, InFini, FiniEvent, Carrying, rankVars, listVars
<1>2. /\ Head(stack) = stack[1] /\ ~cleaned /\ stack[1].copy \in Copies
      /\ stack[1].since \in Nat /\ stack[1].failed \in SUBSET TimerNames
  BY <1>1, TopOfStack DEF FrameType
<1>3. PICK c \in Copies, since \in Nat, failed \in SUBSET TimerNames :
         c = stack[1].copy /\ since = stack[1].since /\ failed = stack[1].failed
  BY <1>2
<1>4. Tools(tool_list') = 1..Len(tool)
  BY <1>1, <1>2, <1>3, ConfigKeeps
<1>5. PICK e : e = Frame("control", c, "fini", Control, NULL, 1..Len(tool))
  OBVIOUS
<1>6. /\ e \in FrameType /\ FrameInv(e, now', tool, reportable_rank)
      /\ e.op = "control" /\ e.name = "fini" /\ e.copy = c /\ e.timers = {}
  <2>1. Event("control", "fini", Control)
    BY DEF Event
  <2>2. now' \in Nat /\ NULL \in 0..now' /\ tool \in Seq(ToolKinds)
    BY DEF TimeGoesOn, CallInv, Types, NULL
  <2>3. e.copy = c /\ e.timers = {}
    BY <1>5, FrameOfCopy
  <2> QED BY <1>5, <2>1, <2>2, <2>3, FrameStarts
<1>7. PICK f : f = Carrying(e, since, failed)
  OBVIOUS
<1>8. /\ f \in FrameType /\ FrameInv(f, now', tool, reportable_rank)
      /\ f.op = "control" /\ f.name = "fini" /\ f.copy = c /\ f.timers = {}
      /\ f.since = since /\ f.failed = failed
  BY <1>6, <1>7, CarryingKeeps
<1>9. stack' = [stack EXCEPT ![1] = f]
  <2>1. stack \in Seq(FrameType)
    BY DEF CallInv, Types
  <2>2. stack' = <<f>> \o Tail(stack)
    BY <1>1, <1>2, <1>3, <1>4, <1>5, <1>7
  <2> QED BY <1>1, <1>8, <2>1, <2>2, Replaced
<1> QED BY <1>1, <1>2, <1>3, <1>8, <1>9

LEMMA RaiseFiniCalls ==
    ASSUME CallInv, TimeGoesOn, RaiseFini
    PROVE  CallRest'
<1>1. /\ stack # << >> /\ stack[1].op = "fini" /\ stack[1].copy \in Copies
      /\ adiak_get_config(stack[1].copy)
      /\ UNCHANGED <<now, initialized, reportable_rank, use_mpi, local_tool_list, tool,
                     report_on_all_ranks, measure, synced, seen, cleaned>>
  BY RaiseFiniStep DEF storeVars
<1>2. PICK f \in FrameType :
         /\ FrameInv(f, now', tool, reportable_rank)
         /\ f.op = "control" /\ stack' = [stack EXCEPT ![1] = f]
  BY RaiseFiniStep
<1>3. tool_list' # NoCopy /\ ~cleaned
  BY <1>1, TopOfStack, ConfigKeeps
<1>4. stack' \in Seq(FrameType) /\ Nesting' /\ Frames'
  BY <1>1, <1>2, <1>3, ReplaceKeeps DEF TimeGoesOn
<1>5. Types' /\ OneList'
  <2>1. synced' \subseteq {t \in 1..Len(tool) : tool[t].category = AllCategories}
    BY <1>1 DEF CallInv, Types
  <2> QED BY <1>1, <1>3, <1>4, <2>1, SeenKept, ConfigStep
<1> QED BY <1>4, <1>5 DEF CallRest

LEMMA NothingCalls ==
    ASSUME CallInv, TimeGoesOn, UNCHANGED vars
    PROVE  CallRest'
<1>1. UNCHANGED <<adiak_config, tool_list, initialized, reportable_rank, use_mpi, local_tool_list,
                  tool, report_on_all_ranks, measure, synced, seen, cleaned, stack>>
  BY DEF vars, toolVars
<1>2. stack' \in Seq(FrameType) /\ Nesting' /\ Frames'
  BY <1>1, SameStack
<1>3. measure' \in [Copies -> SUBSET TimerNames]
  BY <1>1 DEF CallInv, Types
<1>4. Types' /\ OneList'
  BY <1>1, <1>2, <1>3, SeenKept, QuietStep
<1> QED BY <1>2, <1>4 DEF CallRest

\* Every step keeps the invariant of the calls.
LEMMA NextStore ==
    ASSUME CallInv, [Next]_vars
    PROVE  StoreTypeOK' /\ Dated' /\ TimeGoesOn
<1>1. FrameCopies
  <2>1. FramesIn(FrameType)
    BY DEF FramesIn, FrameType, CallInv, Types
  <2> QED BY <2>1 DEF FrameCopies
<1>2. [StoreNext]_storeVars
  BY <1>1, NextOfStore
<1> QED BY <1>2, StoreSide DEF CallInv

LEMMA NextCalls ==
    ASSUME CallInv, [Next]_vars
    PROVE  CallInv'
<1> USE NextStore
<1>1. CASE UNCHANGED vars
  BY <1>1, NothingCalls DEF CallInv, CallRest
<1>2. CASE \E c \in InitCopies, comm \in BOOLEAN : adiak_init(c, comm)
  BY <1>2, InitAgainCalls DEF CallInv, CallRest
<1>3. CASE \E c \in Copies, kind \in ToolKinds : adiak_register(c, kind)
  BY <1>3, RegisterCalls DEF CallInv, CallRest
<1>4. CASE \E c \in Copies, t \in 1..MaxTools : ToolLists(c, t)
  BY <1>4, ToolListsCalls DEF CallInv, CallRest
<1>5. CASE \E c \in Copies, timer \in TimerNames : RequestTimer(c, timer)
  BY <1>5, RequestTimerCalls DEF CallInv, CallRest
<1>6. CASE \E c \in Copies, n \in Names, cat \in Categories : adiak_raw_namevalue(c, n, cat)
  BY <1>6, NameValueCalls DEF CallInv, CallRest
<1>7. CASE \E c \in Copies : adiak_flush(c) \/ adiak_fini(c) \/ adiak_clean(c)
  BY <1>7, FlushCalls, FiniCalls DEF CallInv, CallRest
<1>8. CASE Dispatch
  <2>1. CASE \E c \in Copies, timer \in TimerNames : MeasureTimer(c, timer)
    BY <2>1, MeasureTimerCalls DEF CallInv, CallRest
  <2>2. CASE \E timer \in TimerNames : TimerFails(timer)
    BY <2>2, TimerFailsCalls DEF CallInv, CallRest
  <2>3. CASE RaiseFini \/ SkipTool \/ CallTool \/ ToolReturns \/ FinishCall \/ FinishClean
    BY <2>3, RaiseFiniCalls, SkipToolCalls, CallToolCalls, ToolReturnsCalls, FinishCalls,
       FinishCleanCalls DEF CallInv, CallRest
  <2> QED BY <1>8, <2>1, <2>2, <2>3 DEF Dispatch
<1> QED BY <1>1, <1>2, <1>3, <1>4, <1>5, <1>6, <1>7, <1>8 DEF Next

\* However calls nest, every frame on the call stack has told just the tools that pass its
\* filters and precede its cursor, and all registered tools are on the one list.
THEOREM CallInvariant == Spec => []CallInv
<1>1. Init => CallInv
  BY InitCalls
<1>2. CallInv /\ [Next]_vars => CallInv'
  BY NextCalls
<1> QED BY <1>1, <1>2, PTL DEF Spec

\* The dispatcher's state keeps its types.
THEOREM ToolsTypeCorrect == Spec => []TypeOK
<1>1. CallInv => TypeOK
  <2> SUFFICES ASSUME CallInv PROVE TypeOK
    OBVIOUS
  <2>1. \A i \in DOMAIN stack : FrameOK(stack[i])
    <3> SUFFICES ASSUME NEW i \in DOMAIN stack, NEW f, f = stack[i] PROVE FrameOK(f)
      OBVIOUS
    <3>1. f \in FrameType /\ FrameInv(f, now, tool, reportable_rank)
      BY DEF CallInv, Types, Frames
    <3>2. f.tool \in 0..Len(tool)
      <4>1. f.tool \in Nat /\ Len(tool) \in Nat
        BY <3>1 DEF FrameType, CallInv, Types
      <4>2. f.tool # 0 => f.tool \in 1..f.tool
        BY <4>1
      <4>3. 1..f.tool \subseteq 1..Len(tool)
        BY <3>1 DEF FrameInv
      <4> QED BY <4>1, <4>2, <4>3
    <3>3. f.value \in 0..now
      BY <3>1 DEF FrameInv, FrameType, CallInv, StoreTypeOK
    <3> QED BY <3>1, <3>2, <3>3 DEF FrameOK, FrameInv, FrameType
  <2>2. synced \subseteq 1..Len(tool)
    BY DEF CallInv, Types
  <2> QED BY <2>1, <2>2 DEF CallInv, Types, Nesting, TypeOK
<1> QED BY <1>1, CallInvariant, PTL

\* When a dispatch loop ends, each of the tools that were listed when it began and that pass
\* its filters has been called once, the newest first, whatever the callbacks did.
THEOREM ToolsCalledOnce == Spec => []CalledOnceInOrder
<1>1. CallInv => CalledOnceInOrder
  <2> SUFFICES ASSUME CallInv, LoopDone, NEW f, f = Head(stack)
               PROVE  /\ Range(f.called) = {t \in f.listed : Eligible(t, f.category)}
                      /\ \A i, j \in DOMAIN f.called : i < j => f.called[i] > f.called[j]
    BY DEF CalledOnceInOrder
  <2>1. /\ f \in FrameType /\ FrameInv(f, now, tool, reportable_rank)
        /\ f.op # "fini" /\ ~f.running /\ f.tool = 0
    BY TopOfStack DEF LoopDone, NULL
  <2>2. f.listed \subseteq 1..Len(tool)
    BY <2>1 DEF FrameInv
  <2>3. {t \in Filtered(f, tool, reportable_rank) : t > ToCome(f)}
          = {t \in f.listed : Eligible(t, f.category)}
    BY <2>1, <2>2 DEF Filtered, Eligible, ToCome
  <2> QED BY <2>1, <2>3 DEF FrameInv, Progress
<1> QED BY <1>1, CallInvariant, PTL

-----------------------------------------------------------------------------
\* What tools are told and hold: what becomes of the payloads in dispatch, that a tool
\* which has caught up holds what a query answers, and that the fini event comes last.
\*
\* What matters of the call stack are the pairs in dispatch, and how many tools each
\* is still to be told to (Pairs).  The steps of the dispatcher are six effects on
\* them (Effect).

\* The pairs in dispatch: tools 1 to left are still to be told.
View(f) == [name |-> f.name, value |-> f.value, left |-> ToCome(f)]
Pairs == {View(stack[i]) : i \in {j \in DOMAIN stack : stack[j].op = "value"}}
Lower(p) == [name |-> p.name, value |-> p.value, left |-> p.left - 1]
InControl == \E i \in DOMAIN stack : stack[i].op = "control"

\* The application calls adiak_init through one copy of the library only: each copy has a
\* flag of its own, and the last call sets the rank.
OneInit == \A c, d \in InitCopies : c = d

\* What a pair in dispatch carries is what a record of its name holds.
Delivered ==
    \A p \in Pairs : \E r \in DOMAIN rec : rec[r].name = p.name /\ rec[r].value = p.value

\* A name that a tool has heard of has a record.
Heard ==
    ~cleaned => \A t \in 1..MaxTools : \A n \in Names :
        seen[t][n] # NULL => \E r \in DOMAIN rec : rec[r].name = n

\* Tool t is still to be told of a pair of name n.
Due(t, n) == \E p \in Pairs : p.name = n /\ t <= p.left

\* A tool that has caught up holds what a query answers, unless it is to be told.
MirrorOrDue ==
    ~cleaned /\ ~InClean =>
        \A t \in synced : tool[t].all_ranks \/ reportable_rank =>
            \A n \in Names : seen[t][n] = Value(n) \/ Due(t, n)

\* Before adiak_init every rank reports.
RankSet == initialized = {} => reportable_rank

\* During the flush and fini events only callbacks register.
ControlNames == InControl => \A p \in Pairs : p.name \in CallbackNames

MirrorInv == Delivered /\ Heard /\ MirrorOrDue /\ RankSet /\ ControlNames

-----------------------------------------------------------------------------
\* What changes of the stack do to the pairs.
LEMMA PairIs ==
    ASSUME NEW p
    PROVE  p \in Pairs <=> \E i \in DOMAIN stack : stack[i].op = "value" /\ p = View(stack[i])
BY DEF Pairs

LEMMA PairIsAfter ==
    ASSUME NEW p
    PROVE  p \in Pairs' <=> \E i \in DOMAIN stack' : stack'[i].op = "value" /\ p = View(stack'[i])
BY DEF Pairs, View, ToCome

LEMMA PairsPushed ==
    ASSUME stack \in Seq(FrameType), NEW f \in FrameType, stack' = <<f>> \o stack
    PROVE  /\ \A p : p \in Pairs' <=> p \in Pairs \/ (f.op = "value" /\ p = View(f))
           /\ InClean' <=> InClean \/ f.op = "clean"
           /\ InControl' <=> InControl \/ f.op = "control"
<1>1. /\ DOMAIN stack' = 1..(Len(stack) + 1) /\ DOMAIN stack = 1..Len(stack) /\ Len(stack) \in Nat
      /\ stack'[1] = f /\ \A i \in DOMAIN stack : stack'[i + 1] = stack[i]
  OBVIOUS
<1>2. /\ 1 \in DOMAIN stack' /\ \A i \in DOMAIN stack : i + 1 \in DOMAIN stack'
      /\ \A i \in DOMAIN stack' : i = 1 \/ \E j \in DOMAIN stack : stack'[i] = stack[j]
  <2>1. ASSUME NEW i \in DOMAIN stack', i # 1 PROVE \E j \in DOMAIN stack : stack'[i] = stack[j]
    <3>1. i - 1 \in DOMAIN stack /\ i = (i - 1) + 1
      BY <1>1, <2>1
    <3> QED BY <1>1, <3>1
  <2> QED BY <1>1, <2>1
<1>3. ASSUME NEW p
      PROVE  p \in Pairs' <=> p \in Pairs \/ (f.op = "value" /\ p = View(f))
  <2>1. ASSUME p \in Pairs' PROVE p \in Pairs \/ (f.op = "value" /\ p = View(f))
    <3>1. PICK i \in DOMAIN stack' : stack'[i].op = "value" /\ p = View(stack'[i])
      BY <2>1, PairIsAfter
    <3> QED BY <1>1, <1>2, <3>1, PairIs
  <2>2. ASSUME p \in Pairs PROVE p \in Pairs'
    <3>1. PICK i \in DOMAIN stack : stack[i].op = "value" /\ p = View(stack[i])
      BY <2>2, PairIs
    <3> QED BY <1>1, <1>2, <3>1, PairIsAfter
  <2>3. ASSUME f.op = "value", p = View(f) PROVE p \in Pairs'
    BY <1>1, <1>2, <2>3, PairIsAfter
  <2> QED BY <2>1, <2>2, <2>3
<1>4. InClean' <=> InClean \/ f.op = "clean"
  BY <1>1, <1>2 DEF InClean
<1>5. InControl' <=> InControl \/ f.op = "control"
  BY <1>1, <1>2 DEF InControl
<1> QED BY <1>3, <1>4, <1>5

LEMMA PairsReplaced ==
    ASSUME stack \in Seq(FrameType), stack # << >>, NEW f \in FrameType,
           stack' = [stack EXCEPT ![1] = f], f.op = "value" <=> stack[1].op = "value"
    PROVE  /\ \A p \in Pairs' : p \in Pairs \/ (f.op = "value" /\ p = View(f))
           /\ \A p \in Pairs : p \in Pairs' \/ (f.op = "value" /\ p = View(stack[1]))
           /\ f.op = "value" => View(stack[1]) \in Pairs /\ View(f) \in Pairs'
           /\ InClean' => InClean \/ f.op = "clean"
           /\ InClean => InClean' \/ stack[1].op = "clean"
           /\ f.op = "clean" => InClean'
           /\ InControl' => InControl \/ f.op = "control"
<1>1. /\ DOMAIN stack' = DOMAIN stack /\ 1 \in DOMAIN stack
      /\ \A i \in DOMAIN stack : stack'[i] = IF i = 1 THEN f ELSE stack[i]
  BY Replaced
<1>2. ASSUME NEW p \in Pairs' PROVE p \in Pairs \/ (f.op = "value" /\ p = View(f))
  <2>1. PICK i \in DOMAIN stack' : stack'[i].op = "value" /\ p = View(stack'[i])
    BY PairIsAfter
  <2> QED BY <1>1, <2>1, PairIs
<1>3. ASSUME NEW p \in Pairs PROVE p \in Pairs' \/ (f.op = "value" /\ p = View(stack[1]))
  <2>1. PICK i \in DOMAIN stack : stack[i].op = "value" /\ p = View(stack[i])
    BY PairIs
  <2> QED BY <1>1, <2>1, PairIsAfter
<1>4. f.op = "value" => View(stack[1]) \in Pairs /\ View(f) \in Pairs'
  BY <1>1, PairIs, PairIsAfter
<1>5. /\ InClean' => InClean \/ f.op = "clean"
      /\ InClean => InClean' \/ stack[1].op = "clean"
      /\ f.op = "clean" => InClean'
  BY <1>1 DEF InClean
<1>6. InControl' => InControl \/ f.op = "control"
  BY <1>1 DEF InControl
<1> QED BY <1>2, <1>3, <1>4, <1>5, <1>6

LEMMA PairsPopped ==
    ASSUME stack \in Seq(FrameType), stack # << >>, stack' = Tail(stack)
    PROVE  /\ \A p \in Pairs' : p \in Pairs
           /\ \A p \in Pairs : p \in Pairs' \/ (stack[1].op = "value" /\ p = View(stack[1]))
           /\ stack[1].op = "value" => View(stack[1]) \in Pairs
           /\ InClean => InClean' \/ stack[1].op = "clean"
           /\ InControl' => InControl
<1>1. /\ DOMAIN stack' = 1..(Len(stack) - 1) /\ DOMAIN stack = 1..Len(stack)
      /\ Len(stack) \in Nat /\ 1 \in DOMAIN stack
      /\ \A i \in DOMAIN stack' : stack'[i] = stack[i + 1]
  OBVIOUS
<1>2. /\ \A i \in DOMAIN stack' : i + 1 \in DOMAIN stack
      /\ \A i \in DOMAIN stack : i = 1 \/ (\E j \in DOMAIN stack' : stack[i] = stack'[j])
  <2>1. ASSUME NEW i \in DOMAIN stack, i # 1
        PROVE  \E j \in DOMAIN stack' : stack[i] = stack'[j]
    <3>1. i - 1 \in DOMAIN stack' /\ (i - 1) + 1 = i
      BY <1>1, <2>1
    <3> QED BY <1>1, <3>1
  <2> QED BY <1>1, <2>1
<1>3. ASSUME NEW p \in Pairs' PROVE p \in Pairs
  <2>1. PICK i \in DOMAIN stack' : stack'[i].op = "value" /\ p = View(stack'[i])
    BY PairIsAfter
  <2> QED BY <1>1, <1>2, <2>1, PairIs
<1>4. ASSUME NEW p \in Pairs PROVE p \in Pairs' \/ (stack[1].op = "value" /\ p = View(stack[1]))
  <2>1. PICK i \in DOMAIN stack : stack[i].op = "value" /\ p = View(stack[i])
    BY PairIs
  <2> QED BY <1>1, <1>2, <2>1, PairIsAfter
<1>5. stack[1].op = "value" => View(stack[1]) \in Pairs
  BY <1>1, PairIs
<1>6. InClean => InClean' \/ stack[1].op = "clean"
  BY <1>1, <1>2 DEF InClean
<1>7. InControl' => InControl
  BY <1>1, <1>2 DEF InControl
<1> QED BY <1>3, <1>4, <1>5, <1>6, <1>7

LEMMA PairsSame ==
    ASSUME stack' = stack
    PROVE  Pairs' = Pairs /\ (InClean' <=> InClean) /\ (InControl' <=> InControl)
BY DEF Pairs, View, ToCome, InClean, InControl

\* Pairs name names and are to be told to tools there are.
LEMMA PairType ==
    ASSUME CallInv, NEW p \in Pairs
    PROVE  p.name \in Names /\ p.value \in 1..now \cup {0} /\ p.left \in 0..Len(tool)
           /\ p = [name |-> p.name, value |-> p.value, left |-> p.left]
<1>1. PICK i \in DOMAIN stack : stack[i].op = "value" /\ p = View(stack[i])
  BY PairIs
<1>2. PICK f \in FrameType : f = stack[i]
  BY DEF CallInv, Types
<1>3. FrameInv(f, now, tool, reportable_rank) /\ p = View(f)
  BY <1>1, <1>2 DEF CallInv, Frames
<1>4. /\ f.name \in Names /\ f.value \in Nat /\ f.value <= now /\ f.tool \in Nat
      /\ 1..f.tool \subseteq 1..Len(tool) /\ (f.running => f.tool # 0)
  BY <1>1, <1>2, <1>3 DEF FrameInv, FrameType, NULL
<1>5. Len(tool) \in Nat /\ now \in Nat
  BY DEF CallInv, Types, StoreTypeOK
<1>6. f.tool \in 0..Len(tool)
  <2>1. f.tool # 0 => f.tool \in 1..f.tool
    BY <1>4
  <2> QED BY <1>4, <1>5, <2>1
<1>7. ToCome(f) \in 0..Len(tool)
  BY <1>4, <1>5, <1>6 DEF ToCome
<1> QED BY <1>3, <1>4, <1>5, <1>7 DEF View

-----------------------------------------------------------------------------
\* The effects of the steps.  Nothing that tools hold or are owed changes:
SamePairs == \A p : p \in Pairs' <=> p \in Pairs
Silent ==
    /\ UNCHANGED <<rec, seen, synced, cleaned>> /\ SamePairs
    /\ InClean => InClean'
    /\ InControl' => InControl \/ Pairs = {}

\* A pair is recorded and is to be told to all tools:
NewPair(c, n, cat) ==
    /\ record_nameval(c, n, cat) /\ UNCHANGED <<seen, synced, cleaned>>
    /\ \A p : p \in Pairs' <=> p \in Pairs \/ p = [name |-> n, value |-> now', left |-> Len(tool)]
    /\ SameNameReentry \/ \A p \in Pairs : p.name # n
    /\ ~cleaned /\ ~InClean
    /\ InControl' => InControl /\ n \in CallbackNames

\* A tool is told of a pair, or passed over by the filters, or the last one was:
Watches(t) == tool[t].category = AllCategories /\ (tool[t].all_ranks \/ reportable_rank)
Told(p) ==
    /\ p \in Pairs /\ UNCHANGED <<rec, synced, cleaned>>
    /\ \A q \in Pairs' : q \in Pairs \/ q = Lower(p)
    /\ \A q \in Pairs : q \in Pairs' \/ q = p
    /\ p.left # 0 => Lower(p) \in Pairs'
    /\ \/ /\ p.left # 0
          /\ seen' = [seen EXCEPT ![p.left] = [seen[p.left] EXCEPT ![p.name] = p.value]]
       \/ seen' = seen /\ (p.left # 0 => ~Watches(p.left))
    /\ InClean => InClean'
    /\ InControl' => InControl

\* A tool forgets what it holds, told of the clean event:
Forgets ==
    /\ UNCHANGED <<rec, synced, cleaned>> /\ SamePairs /\ InClean'
    /\ InControl' => InControl
    /\ \E t \in 1..MaxTools : seen' = [seen EXCEPT ![t] = [n \in Names |-> NULL]]

Effect ==
    \/ Silent
    \/ \E c \in Copies, n \in Names, cat \in Categories : NewPair(c, n, cat)
    \/ \E p \in Pairs : Told(p)
    \/ \E c \in Copies, t \in 1..MaxTools : ToolLists(c, t)
    \/ Forgets
    \/ cleaned' /\ Pairs' = {}

-----------------------------------------------------------------------------
\* Each step has one of the effects.
LEMMA NoPairs ==
    ASSUME CallInv, stack = << >> \/ (Len(stack) = 1 /\ stack[1].op # "value")
    PROVE  Pairs = {}
<1>1. stack \in Seq(FrameType)
  BY DEF CallInv, Types
<1>2. \A i \in DOMAIN stack : stack[i].op # "value"
  BY <1>1
<1> QED BY <1>2 DEF Pairs

LEMMA SilentStack ==
    ASSUME UNCHANGED <<rec, seen, synced, cleaned, stack>>
    PROVE  Effect
BY PairsSame DEF Effect, Silent, SamePairs

LEMMA NameValueEffect ==
    ASSUME CallInv, TimeGoesOn, NEW c \in Copies, NEW n \in Names, NEW cat \in Categories,
           adiak_raw_namevalue(c, n, cat)
    PROVE  Effect
<1>1. /\ \/ ByApplication
         \/ ByCallback /\ ~InClean /\ n \in CallbackNames
            /\ (SameNameReentry \/ n \notin InDispatch)
      /\ record_nameval(c, n, cat) /\ adiak_get_config(c)
      /\ UNCHANGED <<seen, synced, cleaned, tool>>
      /\ stack' = <<Frame("value", c, n, cat, now', Tools(tool_list'))>> \o stack
  BY DEF adiak_raw_namevalue, EnterNameValue, listVars, Push
<1>2. ~cleaned
  BY <1>1, NotCleaned
<1>3. Tools(tool_list') = 1..Len(tool)
  BY <1>1, <1>2, ConfigKeeps
<1>4. PICK f : f = Frame("value", c, n, cat, now', 1..Len(tool))
  OBVIOUS
<1>5. f \in FrameType /\ f.op = "value" /\ f.name = n /\ f.value = now' /\ ToCome(f) = Len(tool)
  <2>1. now' \in Nat /\ now' \in 0..now' /\ tool \in Seq(ToolKinds) /\ Event("value", n, cat)
    BY DEF TimeGoesOn, CallInv, Types, Event
  <2> QED BY <1>4, <2>1, FrameStarts
<1>6. stack \in Seq(FrameType) /\ stack' = <<f>> \o stack
  BY <1>1, <1>3, <1>4 DEF CallInv, Types
<1>7. View(f) = [name |-> n, value |-> now', left |-> Len(tool)]
  BY <1>5 DEF View
<1>8. /\ \A p : p \in Pairs' <=> p \in Pairs \/ p = [name |-> n, value |-> now', left |-> Len(tool)]
      /\ InControl' => InControl
  BY <1>5, <1>6, <1>7, PairsPushed
<1>9. CASE ByApplication
  <2>1. stack = << >> /\ DOMAIN stack = {}
    BY <1>9 DEF ByApplication
  <2>2. Pairs = {} /\ ~InClean /\ ~InControl
    BY <2>1, NoPairs DEF InClean, InControl
  <2>3. NewPair(c, n, cat)
    BY <1>1, <1>2, <1>8, <2>2 DEF NewPair
  <2> QED BY <2>3 DEF Effect
<1>10. CASE ~InClean /\ n \in CallbackNames /\ (SameNameReentry \/ n \notin InDispatch)
  <2>1. ASSUME NEW p \in Pairs, n \notin InDispatch PROVE p.name # n
    <3>1. PICK i \in DOMAIN stack : stack[i].op = "value" /\ p = View(stack[i])
      BY PairIs
    <3> QED BY <2>1, <3>1 DEF InDispatch, View
  <2>2. NewPair(c, n, cat)
    BY <1>1, <1>2, <1>8, <1>10, <2>1 DEF NewPair
  <2> QED BY <2>2 DEF Effect
<1> QED BY <1>1, <1>9, <1>10

LEMMA MeasureEffect ==
    ASSUME CallInv, TimeGoesOn, NEW c \in Copies, NEW timer \in TimerNames, MeasureTimer(c, timer)
    PROVE  Effect
<1>1. PICK f, g :
         /\ f.op = "value" /\ f.name = timer /\ f.value = now' /\ ToCome(f) = Len(tool)
         /\ g.op = "fini" /\ f \in FrameType /\ g \in FrameType
         /\ stack' = <<f, g>> /\ Len(stack) = 1 /\ stack[1].op = "fini"
         /\ ~cleaned /\ record_nameval(c, timer, "performance")
         /\ UNCHANGED <<tool, synced, seen, cleaned>>
  BY MeasureStep
<1>2. timer \in Names /\ "performance" \in Categories
  BY ToolsAssumption DEF TimerNames, Timers, ToolsAssumption
<1>3. Pairs = {}
  BY <1>1, NoPairs
<1>4. DOMAIN stack' = {1, 2} /\ stack'[1] = f /\ stack'[2] = g
  BY <1>1
<1>5. View(f) = [name |-> timer, value |-> now', left |-> Len(tool)]
  BY <1>1 DEF View
<1>6. \A p : p \in Pairs' <=> p = [name |-> timer, value |-> now', left |-> Len(tool)]
  BY <1>1, <1>4, <1>5, PairIsAfter
<1>7. ~InClean /\ ~InControl'
  <2>1. DOMAIN stack = {1}
    BY <1>1 DEF CallInv, Types
  <2> QED BY <1>1, <1>4, <2>1 DEF InClean, InControl
<1>8. NewPair(c, timer, "performance")
  BY <1>1, <1>3, <1>6, <1>7 DEF NewPair
<1> QED BY <1>2, <1>8 DEF Effect

\* flush, fini and clean begin.
LEMMA EventEffect ==
    ASSUME CallInv, NEW c \in Copies, TimeGoesOn, CallInv',
           adiak_flush(c) \/ adiak_fini(c) \/ adiak_clean(c)
    PROVE  Effect
<1>1. /\ stack = << >> /\ UNCHANGED <<rec, seen, synced, cleaned>>
      /\ \E f : stack' = <<f>> \o stack /\ f.op # "value"
  <2>1. CASE adiak_flush(c) \/ adiak_clean(c)
    <3>1. PICK n \in {"flush", "clean"}, op \in {"control", "clean"} :
             stack' = <<Frame(op, c, n, Control, NULL, Tools(tool_list'))>> \o stack
      BY <2>1 DEF adiak_flush, adiak_clean, Push
    <3>2. PICK f : f = Frame(op, c, n, Control, NULL, Tools(tool_list'))
      OBVIOUS
    <3>3. f.op # "value"
      BY <3>1, <3>2 DEF Frame
    <3> QED BY <2>1, <3>1, <3>2, <3>3 DEF adiak_flush, adiak_clean, ByApplication, storeVars
  <2>2. CASE adiak_fini(c)
    <3>1. PICK f : f = [Frame("fini", c, "fini", Control, NULL, {})
                              EXCEPT !.timers = measure[c], !.since = now]
      OBVIOUS
    <3>2. f.op = "fini"
      BY <3>1 DEF Frame
    <3>3. stack' = <<f>> \o stack
      BY <2>2, <3>1 DEF adiak_fini, Push
    <3> QED BY <2>2, <3>2, <3>3 DEF adiak_fini, ByApplication, storeVars
  <2> QED BY <2>1, <2>2
<1>2. PICK f : stack' = <<f>> \o stack /\ f.op # "value"
  BY <1>1
<1>3. stack' = <<f>>
  BY <1>1, <1>2
<1>4. DOMAIN stack' = {1} /\ stack'[1] = f /\ DOMAIN stack = {}
  BY <1>1, <1>3
<1>5. Pairs = {} /\ ~InClean
  BY <1>1, <1>4, NoPairs DEF InClean
<1>6. Pairs' = {}
  BY <1>2, <1>4 DEF Pairs
<1> QED BY <1>1, <1>5, <1>6 DEF Effect, Silent, SamePairs

\* A step that replaces the top frame by one that stands for the same pair.
LEMMA SameView ==
    ASSUME CallInv, stack # << >>, NEW f \in FrameType, stack' = [stack EXCEPT ![1] = f],
           f.op = stack[1].op, f.op = "value" => View(f) = View(stack[1]),
           UNCHANGED <<rec, seen, synced, cleaned>>
    PROVE  Effect
<1>1. stack \in Seq(FrameType)
  BY DEF CallInv, Types
<1>2. /\ \A p \in Pairs' : p \in Pairs \/ (f.op = "value" /\ p = View(f))
      /\ \A p \in Pairs : p \in Pairs' \/ (f.op = "value" /\ p = View(stack[1]))
      /\ f.op = "value" => View(stack[1]) \in Pairs /\ View(f) \in Pairs'
      /\ InClean => InClean' \/ stack[1].op = "clean"
      /\ f.op = "clean" => InClean'
      /\ InControl' => InControl \/ f.op = "control"
  BY <1>1, PairsReplaced
<1>3. SamePairs
  BY <1>2 DEF SamePairs
<1>4. InControl' => InControl
  <2>1. 1 \in DOMAIN stack
    BY <1>1
  <2> QED BY <1>2, <2>1 DEF InControl
<1> QED BY <1>2, <1>3, <1>4 DEF Effect, Silent

LEMMA TimerFailsEffect ==
    ASSUME CallInv, TimeGoesOn, NEW timer \in TimerNames, TimerFails(timer)
    PROVE  Effect
<1>1. /\ stack # << >> /\ Head(stack).op = "fini"
      /\ stack' = [stack EXCEPT ![1] = Missed(stack[1], timer)]
      /\ UNCHANGED <<rec, synced, seen, cleaned>>
  BY DEF TimerFails, InFini, Missed, storeVars
<1>2. PICK g : g = Missed(stack[1], timer)
  OBVIOUS
<1>3. g \in FrameType /\ g.op = stack[1].op /\ g.op = "fini"
  BY <1>1, <1>2, TopOfStack, FewerTimers
<1> QED BY <1>1, <1>2, <1>3, SameView

LEMMA RaiseFiniEffect ==
    ASSUME CallInv, TimeGoesOn, RaiseFini
    PROVE  Effect
<1>1. /\ stack # << >> /\ stack[1].op = "fini" /\ UNCHANGED <<rec, synced, seen, cleaned>>
      /\ \E f \in FrameType : f.op = "control" /\ stack' = [stack EXCEPT ![1] = f]
  BY RaiseFiniStep DEF storeVars
<1>2. PICK f \in FrameType : f.op = "control" /\ stack' = [stack EXCEPT ![1] = f]
  BY <1>1
<1>3. Pairs = {}
  BY <1>1, TopOfStack, NoPairs
<1>4. /\ \A p \in Pairs' : p \in Pairs \/ (f.op = "value" /\ p = View(f))
      /\ InClean => InClean' \/ stack[1].op = "clean"
  <2>1. stack \in Seq(FrameType)
    BY DEF CallInv, Types
  <2> QED BY <1>1, <1>2, <2>1, PairsReplaced
<1> QED BY <1>1, <1>2, <1>3, <1>4 DEF Effect, Silent, SamePairs

\* A turn of the loop of a pair lowers what is left of it.
LEMMA TurnOfPair ==
    ASSUME CallInv, stack # << >>, NEW f \in FrameType, stack' = [stack EXCEPT ![1] = f],
           f.op = "value", stack[1].op = "value", View(f) = Lower(View(stack[1]))
    PROVE  LET p == View(stack[1])
           IN  /\ p \in Pairs /\ Lower(p) \in Pairs'
               /\ \A q \in Pairs' : q \in Pairs \/ q = Lower(p)
               /\ \A q \in Pairs : q \in Pairs' \/ q = p
               /\ InClean => InClean'
               /\ InControl' => InControl
<1>1. stack \in Seq(FrameType)
  BY DEF CallInv, Types
<1> QED BY <1>1, PairsReplaced

LEMMA SkipToolEffect ==
    ASSUME CallInv, TimeGoesOn, SkipTool
    PROVE  Effect
<1>1. /\ stack # << >> /\ Head(stack).op # "fini" /\ ~Head(stack).running
      /\ Head(stack).tool # NULL /\ ~Eligible(Head(stack).tool, Head(stack).category)
      /\ stack' = [stack EXCEPT ![1] = [stack[1] EXCEPT !.tool = NextTool(stack[1].tool)]]
      /\ UNCHANGED <<rec, synced, seen, cleaned>>
  BY DEF SkipTool, AtTool, storeVars
<1>2. PICK f \in FrameType : f = stack[1] /\ f = Head(stack)
  BY <1>1, TopOfStack
<1>3. /\ FrameInv(f, now, tool, reportable_rank) /\ NextTool(f.tool) = f.tool - 1
      /\ f.tool \in f.listed
  BY <1>1, <1>2, TopOfStack
<1>4. PICK g : g = Advanced(f)
  OBVIOUS
<1>5. /\ g \in FrameType /\ g.op = f.op /\ g.name = f.name /\ g.value = f.value
      /\ ToCome(g) = f.tool - 1 /\ ToCome(f) = f.tool
  <2>1. f.tool \notin Filtered(f, tool, reportable_rank)
    BY <1>1, <1>2, <1>3, EligibleIsFiltered
  <2>2. f.op # "fini" /\ f.tool # NULL /\ ~f.running
    BY <1>1, <1>2
  <2>3. ToCome(f) = f.tool
    BY <2>2 DEF ToCome
  <2> QED BY <1>3, <1>4, <2>1, <2>2, <2>3, FrameAdvances
<1>6. stack' = [stack EXCEPT ![1] = g]
  <2>1. g = [f EXCEPT !.tool = f.tool - 1]
    BY <1>1, <1>2, <1>4 DEF FrameType, Advanced
  <2> QED BY <1>1, <1>2, <1>3, <2>1
<1>7. CASE f.op # "value"
  BY <1>1, <1>2, <1>5, <1>6, <1>7, SameView
<1>8. CASE f.op = "value"
  <2>1. View(g) = Lower(View(f)) /\ View(f).left = f.tool
    BY <1>5 DEF View, Lower
  <2>2. ~Watches(f.tool)
    BY <1>1, <1>2 DEF Eligible, Watches
  <2>3. Told(View(f))
    BY <1>1, <1>2, <1>5, <1>6, <1>8, <2>1, <2>2, TurnOfPair DEF Told
  <2> QED BY <2>3 DEF Effect, Told
<1> QED BY <1>7, <1>8

LEMMA ToolReturnsEffect ==
    ASSUME CallInv, TimeGoesOn, ToolReturns
    PROVE  Effect
<1>1. /\ stack # << >> /\ Head(stack).running
      /\ stack' = [stack EXCEPT ![1] =
                      [stack[1] EXCEPT !.running = FALSE, !.tool = NextTool(stack[1].tool)]]
      /\ UNCHANGED <<rec, synced, seen, cleaned>>
  BY DEF ToolReturns, Running, storeVars
<1>2. PICK f \in FrameType : f = stack[1] /\ f = Head(stack)
  BY <1>1, TopOfStack
<1>3. FrameInv(f, now, tool, reportable_rank) /\ f.running /\ f.op # "fini" /\ f.tool # NULL
  BY <1>1, <1>2, TopOfStack DEF FrameInv
<1>4. NextTool(f.tool) = f.tool - 1
  BY <1>1, <1>2, <1>3, TopOfStack
<1>5. PICK g : g = Advanced(f)
  OBVIOUS
<1>6. /\ g \in FrameType /\ g.op = f.op /\ g.name = f.name /\ g.value = f.value
      /\ ToCome(g) = f.tool - 1 /\ ToCome(f) = f.tool - 1
  <2>1. ToCome(f) = f.tool - 1
    BY <1>3 DEF ToCome
  <2> QED BY <1>3, <1>5, <2>1, FrameAdvances
<1>7. stack' = [stack EXCEPT ![1] = g]
  BY <1>1, <1>2, <1>4, <1>5 DEF Advanced
<1>8. View(g) = View(f)
  BY <1>6 DEF View
<1> QED BY <1>1, <1>2, <1>6, <1>7, <1>8, SameView

LEMMA CallToolEffect ==
    ASSUME CallInv, TimeGoesOn, CallTool
    PROVE  Effect
<1>1. PICK f : f = stack[1]
  OBVIOUS
<1>2. /\ stack # << >> /\ f.op # "fini" /\ ~f.running /\ f.tool # NULL
      /\ f.tool \in 1..MaxTools /\ f.tool \in Filtered(f, tool, reportable_rank)
      /\ \E handed, info \in Infos : stack' = [stack EXCEPT ![1] = Called(f, handed, info)]
      /\ seen' = [seen EXCEPT ![f.tool] = Kept(f.tool, f)]
      /\ UNCHANGED <<rec, synced, cleaned>>
  BY <1>1, CallStep DEF storeVars
<1>3. PICK handed, info \in Infos : stack' = [stack EXCEPT ![1] = Called(f, handed, info)]
  BY <1>2
<1>4. f \in FrameType /\ FrameInv(f, now, tool, reportable_rank)
  BY <1>1, <1>2, TopOfStack
<1>5. PICK g : g = Called(f, handed, info)
  OBVIOUS
<1>6. /\ g \in FrameType /\ g.op = f.op /\ g.name = f.name /\ g.value = f.value
      /\ ToCome(g) = f.tool - 1 /\ ToCome(f) = f.tool
  <2>1. ToCome(f) = f.tool
    BY <1>2 DEF ToCome
  <2> QED BY <1>2, <1>4, <1>5, <2>1, FrameCalls
<1>7. stack' = [stack EXCEPT ![1] = g]
  BY <1>3, <1>5
<1>8. CASE f.op = "value"
  <2>1. /\ View(g) = Lower(View(f)) /\ View(f).left = f.tool
        /\ View(f).name = f.name /\ View(f).value = f.value
    BY <1>6 DEF View, Lower
  <2>2. seen' = [seen EXCEPT ![f.tool] = [seen[f.tool] EXCEPT ![f.name] = f.value]]
    BY <1>2, <1>8 DEF Kept
  <2>3. Told(View(f))
    BY <1>1, <1>2, <1>6, <1>7, <1>8, <2>1, <2>2, TurnOfPair DEF Told, NULL
  <2> QED BY <2>3 DEF Effect, Told
<1>9. CASE f.op = "clean"
  <2>1. seen' = [seen EXCEPT ![f.tool] = [n \in Names |-> NULL]]
    BY <1>2, <1>9 DEF Kept
  <2>2. stack \in Seq(FrameType) /\ 1 \in DOMAIN stack
    BY <1>2 DEF CallInv, Types
  <2>3. /\ \A p \in Pairs' : p \in Pairs \/ (g.op = "value" /\ p = View(g))
        /\ \A p \in Pairs : p \in Pairs' \/ (g.op = "value" /\ p = View(stack[1]))
        /\ g.op = "clean" => InClean'
        /\ InControl' => InControl \/ g.op = "control"
    BY <1>1, <1>2, <1>6, <1>7, <2>2, PairsReplaced
  <2>4. SamePairs
    BY <1>6, <1>9, <2>3 DEF SamePairs
  <2>5. Forgets
    BY <1>2, <1>6, <1>9, <2>1, <2>3, <2>4 DEF Forgets
  <2> QED BY <2>5 DEF Effect
<1>10. CASE f.op # "value" /\ f.op # "clean"
  <2>1. Kept(f.tool, f) = seen[f.tool]
    BY <1>10 DEF Kept
  <2>2. seen' = seen
    BY <1>2, <2>1 DEF CallInv, Types
  <2> QED BY <1>1, <1>2, <1>6, <1>7, <1>10, <2>2, SameView
<1> QED BY <1>8, <1>9, <1>10

LEMMA FinishCallEffect ==
    ASSUME CallInv, TimeGoesOn, FinishCall
    PROVE  Effect
<1>1. /\ stack # << >> /\ stack' = Tail(stack) /\ Head(stack).op # "clean"
      /\ Head(stack).tool = 0 /\ ~Head(stack).running
      /\ UNCHANGED <<rec, synced, seen, cleaned>>
  BY DEF FinishCall, LoopDone, Pop, storeVars, NULL
<1>2. Head(stack) = stack[1] /\ stack \in Seq(FrameType)
  BY <1>1, TopOfStack DEF CallInv, Types
<1>3. /\ \A p \in Pairs' : p \in Pairs
      /\ \A p \in Pairs : p \in Pairs' \/ (stack[1].op = "value" /\ p = View(stack[1]))
      /\ stack[1].op = "value" => View(stack[1]) \in Pairs
      /\ InClean => InClean' \/ stack[1].op = "clean"
      /\ InControl' => InControl
  BY <1>1, <1>2, PairsPopped
<1>4. View(stack[1]).left = 0
  BY <1>1, <1>2 DEF View, ToCome
<1>5. CASE stack[1].op = "value"
  <2>1. Told(View(stack[1]))
    BY <1>1, <1>2, <1>3, <1>4, <1>5 DEF Told
  <2> QED BY <1>3, <1>5, <2>1 DEF Effect
<1>6. CASE stack[1].op # "value"
  BY <1>1, <1>2, <1>3, <1>6 DEF Effect, Silent, SamePairs
<1> QED BY <1>5, <1>6

LEMMA FinishCleanEffect ==
    ASSUME CallInv, CallInv', FinishClean
    PROVE  Effect
<1>1. cleaned' /\ stack' = << >>
  BY DEF FinishClean, CallInv, Nesting
<1>2. Pairs' = {}
  BY <1>1 DEF Pairs
<1> QED BY <1>1, <1>2 DEF Effect

LEMMA NextEffect ==
    ASSUME CallInv, [Next]_vars
    PROVE  Effect
<1>1. TimeGoesOn /\ CallInv'
  BY NextStore, NextCalls
<1>2. CASE UNCHANGED vars
  BY <1>2, SilentStack DEF vars, storeVars, toolVars
<1>3. CASE \E c \in InitCopies, comm \in BOOLEAN : adiak_init(c, comm)
  BY <1>3, SilentStack DEF adiak_init, storeVars
<1>4. CASE \E c \in Copies, kind \in ToolKinds : adiak_register(c, kind)
  BY <1>4, SilentStack DEF adiak_register, storeVars
<1>5. CASE \E c \in Copies, t \in 1..MaxTools : ToolLists(c, t)
  BY <1>5 DEF Effect
<1>6. CASE \E c \in Copies, timer \in TimerNames : RequestTimer(c, timer)
  BY <1>6, SilentStack DEF RequestTimer, storeVars
<1>7. CASE \E c \in Copies, n \in Names, cat \in Categories : adiak_raw_namevalue(c, n, cat)
  BY <1>1, <1>7, NameValueEffect
<1>8. CASE \E c \in Copies : adiak_flush(c) \/ adiak_fini(c) \/ adiak_clean(c)
  BY <1>1, <1>8, EventEffect
<1>9. CASE Dispatch
  BY <1>1, <1>9, MeasureEffect, TimerFailsEffect, RaiseFiniEffect, SkipToolEffect,
     CallToolEffect, ToolReturnsEffect, FinishCallEffect, FinishCleanEffect DEF Dispatch
<1> QED BY <1>2, <1>3, <1>4, <1>5, <1>6, <1>7, <1>8, <1>9 DEF Next

-----------------------------------------------------------------------------
\* What recording a pair does: record x now holds it, and the others are as before.
Recorded(x, n, cat) ==
    /\ rec'[x] = [name |-> n, category |-> cat, value |-> now']
    /\ x \in DOMAIN rec => rec[x].name = n
    /\ DOMAIN rec' = DOMAIN rec \cup {x}
    /\ \A r \in DOMAIN rec \ {x} : rec'[r] = rec[r]

LEMMA RecordOfName ==
    ASSUME StoreTypeOK, NEW c \in Copies, NEW n \in Names, NEW cat \in Categories,
           record_nameval(c, n, cat)
    PROVE  \E x \in DOMAIN rec' : Recorded(x, n, cat)
<1>1. now' = now + 1 /\ now \in Nat /\ DOMAIN rec \subseteq 1..now
  BY DEF record_nameval, StoreTypeOK
<1>2. CASE OverwriteRecord(c, n, cat)
  <2> DEFINE x == find_record_by_name(c, n)
  <2>1. x \in OnChain(c, n)
    <3>1. OnChain(c, n) # {}
      BY <1>2 DEF OverwriteRecord, find_record_by_name
    <3>2. OnChain(c, n) \subseteq 0..now
      BY <1>1 DEF OnChain
    <3> QED BY <1>1, <3>1, <3>2, MaxIn DEF find_record_by_name
  <2>2. x \in DOMAIN rec /\ rec[x].name = n
    BY <2>1 DEF OnChain
  <2>3. rec' = [rec EXCEPT ![x] = [name |-> n, category |-> cat, value |-> now']]
    BY <1>1, <1>2 DEF OverwriteRecord
  <2> HIDE DEF x
  <2> QED BY <2>2, <2>3 DEF Recorded
<1>3. CASE InsertRecord(c, n, cat)
  <2>1. now + 1 \notin DOMAIN rec
    BY <1>1
  <2>2. rec' = [r \in DOMAIN rec \cup {now + 1} |->
                   IF r = now + 1 THEN [name |-> n, category |-> cat, value |-> now + 1]
                   ELSE rec[r]]
    BY <1>3 DEF InsertRecord
  <2> QED BY <1>1, <2>1, <2>2 DEF Recorded
<1> QED BY <1>2, <1>3 DEF record_nameval

\* The payloads in dispatch are alive if callbacks do not register a name in dispatch.
LEMMA NextDelivered ==
    ASSUME ~SameNameReentry, CallInv, Delivered, [Next]_vars
    PROVE  Delivered'
<1>1. CASE Silent
  BY <1>1 DEF Silent, SamePairs, Delivered
<1>2. CASE \E c \in Copies, n \in Names, cat \in Categories : NewPair(c, n, cat)
  <2>1. PICK c \in Copies, n \in Names, cat \in Categories : NewPair(c, n, cat)
    BY <1>2
  <2>2. record_nameval(c, n, cat) /\ \A p \in Pairs : p.name # n
    BY <2>1 DEF NewPair
  <2>3. PICK x \in DOMAIN rec' : Recorded(x, n, cat)
    BY <2>2, RecordOfName DEF CallInv
  <2>4. ASSUME NEW p \in Pairs'
        PROVE  \E r \in DOMAIN rec' : rec'[r].name = p.name /\ rec'[r].value = p.value
    <3>1. CASE p = [name |-> n, value |-> now', left |-> Len(tool)]
      BY <2>3, <3>1 DEF Recorded
    <3>2. CASE p \in Pairs
      <4>1. PICK r \in DOMAIN rec : rec[r].name = p.name /\ rec[r].value = p.value
        BY <3>2 DEF Delivered
      <4>2. r # x
        BY <2>2, <2>3, <3>2, <4>1 DEF Recorded
      <4> QED BY <2>3, <4>1, <4>2 DEF Recorded
    <3> QED BY <2>1, <3>1, <3>2 DEF NewPair
  <2> QED BY <2>4 DEF Delivered
<1>3. CASE \E p \in Pairs : Told(p)
  <2>1. PICK p \in Pairs : Told(p)
    BY <1>3
  <2>2. Lower(p).name = p.name /\ Lower(p).value = p.value
    BY DEF Lower
  <2> QED BY <2>1, <2>2 DEF Told, Delivered
<1>4. CASE \E c \in Copies, t \in 1..MaxTools : ToolLists(c, t)
  <2>1. UNCHANGED <<rec, stack>>
    BY <1>4 DEF ToolLists, storeVars
  <2> QED BY <2>1, PairsSame DEF Delivered
<1>5. CASE Forgets
  BY <1>5 DEF Forgets, SamePairs, Delivered
<1>6. CASE Pairs' = {}
  BY <1>6 DEF Delivered
<1> QED BY <1>1, <1>2, <1>3, <1>4, <1>5, <1>6, NextEffect DEF Effect

\* Whatever callbacks register, a pair in dispatch has a record of its name, with the payload
\* that it carries or a later one.
DeliveredOrReplaced ==
    \A p \in Pairs : \E r \in DOMAIN rec :
        rec[r].name = p.name /\ (rec[r].value = p.value \/ rec[r].value > p.value)

LEMMA NextReplaced ==
    ASSUME CallInv, DeliveredOrReplaced, [Next]_vars
    PROVE  DeliveredOrReplaced'
<1> DEFINE Stands(R, p) == \E r \in DOMAIN R :
               R[r].name = p.name /\ (R[r].value = p.value \/ R[r].value > p.value)
<1>1. CASE Silent
  BY <1>1 DEF Silent, SamePairs, DeliveredOrReplaced
<1>2. CASE \E c \in Copies, n \in Names, cat \in Categories : NewPair(c, n, cat)
  <2>1. PICK c \in Copies, n \in Names, cat \in Categories : NewPair(c, n, cat)
    BY <1>2
  <2>2. record_nameval(c, n, cat) /\ now' = now + 1 /\ now \in Nat
    BY <2>1 DEF NewPair, record_nameval, CallInv, StoreTypeOK
  <2>3. PICK x \in DOMAIN rec' : Recorded(x, n, cat)
    BY <2>2, RecordOfName DEF CallInv
  <2>4. rec'[x].name = n /\ rec'[x].value = now'
    BY <2>3 DEF Recorded
  <2>5. ASSUME NEW p \in Pairs' PROVE Stands(rec', p)
    <3>1. CASE p = [name |-> n, value |-> now', left |-> Len(tool)]
      BY <2>4, <3>1
    <3>2. CASE p \in Pairs
      <4>1. PICK r \in DOMAIN rec :
               rec[r].name = p.name /\ (rec[r].value = p.value \/ rec[r].value > p.value)
        BY <3>2 DEF DeliveredOrReplaced
      <4>2. p.value \in 0..now
        BY <2>2, <3>2, PairType
      <4>3. CASE r = x
        <5>1. p.name = n
          BY <2>3, <4>1, <4>3 DEF Recorded
        <5>2. rec'[x].value > p.value
          BY <2>2, <2>4, <4>2
        <5> QED BY <2>4, <5>1, <5>2
      <4>4. CASE r # x
        <5>1. r \in DOMAIN rec' /\ rec'[r] = rec[r]
          BY <2>3, <4>4 DEF Recorded
        <5> QED BY <4>1, <5>1
      <4> QED BY <4>3, <4>4
    <3> QED BY <2>1, <3>1, <3>2 DEF NewPair
  <2> QED BY <2>5 DEF DeliveredOrReplaced
<1>3. CASE \E p \in Pairs : Told(p)
  <2>1. PICK p \in Pairs : Told(p)
    BY <1>3
  <2>2. Lower(p).name = p.name /\ Lower(p).value = p.value
    BY DEF Lower
  <2> QED BY <2>1, <2>2 DEF Told, DeliveredOrReplaced
<1>4. CASE \E c \in Copies, t \in 1..MaxTools : ToolLists(c, t)
  <2>1. UNCHANGED <<rec, stack>>
    BY <1>4 DEF ToolLists, storeVars
  <2> QED BY <2>1, PairsSame DEF DeliveredOrReplaced
<1>5. CASE Forgets
  BY <1>5 DEF Forgets, SamePairs, DeliveredOrReplaced
<1>6. CASE Pairs' = {}
  BY <1>6 DEF DeliveredOrReplaced
<1> QED BY <1>1, <1>2, <1>3, <1>4, <1>5, <1>6, NextEffect DEF Effect

\* Whoever has heard of a name, it has a record.
LEMMA NextHeard ==
    ASSUME CallInv, Delivered, Heard, [Next]_vars
    PROVE  Heard'
<1> DEFINE Known(n) == \E r \in DOMAIN rec : rec[r].name = n
<1> SUFFICES ASSUME ~cleaned', NEW t \in 1..MaxTools, NEW n \in Names, seen'[t][n] # NULL
             PROVE  \E r \in DOMAIN rec' : rec'[r].name = n
  BY DEF Heard
<1>1. seen \in [1..MaxTools -> [Names -> 0..now]]
  BY DEF CallInv, Types
<1>2. CASE Silent
  BY <1>2 DEF Silent, Heard
<1>3. CASE \E c \in Copies, m \in Names, cat \in Categories : NewPair(c, m, cat)
  <2>1. PICK c \in Copies, m \in Names, cat \in Categories : NewPair(c, m, cat)
    BY <1>3
  <2>2. PICK x \in DOMAIN rec' : Recorded(x, m, cat)
    BY <2>1, RecordOfName DEF CallInv, NewPair
  <2>3. PICK r \in DOMAIN rec : rec[r].name = n
    BY <2>1 DEF NewPair, Heard
  <2>4. rec'[r].name = n /\ r \in DOMAIN rec'
    BY <2>2, <2>3 DEF Recorded
  <2> QED BY <2>4
<1>4. CASE \E p \in Pairs : Told(p)
  <2>1. PICK p \in Pairs : Told(p)
    BY <1>4
  <2>2. PICK r \in DOMAIN rec : rec[r].name = p.name
    BY DEF Delivered
  <2>3. ~cleaned /\ rec' = rec
    BY <2>1 DEF Told
  <2>4. CASE seen' = seen
    BY <2>3, <2>4 DEF Heard
  <2>5. CASE seen' = [seen EXCEPT ![p.left] = [seen[p.left] EXCEPT ![p.name] = p.value]]
    <3>1. n = p.name \/ seen'[t][n] = seen[t][n]
      BY <1>1, <2>5
    <3> QED BY <2>2, <2>3, <3>1 DEF Heard
  <2> QED BY <2>1, <2>4, <2>5 DEF Told
<1>5. CASE \E c \in Copies, u \in 1..MaxTools : ToolLists(c, u)
  <2> DEFINE rs(m) == {r \in adiak_list_namevals(Categories) : rec[r].name = m}
  <2>1. PICK u \in 1..MaxTools :
           /\ seen' = [seen EXCEPT ![u] = [m \in Names |->
                 IF rs(m) = {} THEN seen[u][m] ELSE rec[Min(rs(m))].value]]
           /\ UNCHANGED <<rec, cleaned>>
    BY <1>5 DEF ToolLists, storeVars
  <2>2. CASE rs(n) = {}
    <3>1. seen'[t][n] = seen[t][n]
      BY <1>1, <2>1, <2>2
    <3> QED BY <2>1, <3>1 DEF Heard
  <2>3. CASE rs(n) # {}
    BY <2>1, <2>3 DEF adiak_list_namevals
  <2> QED BY <2>2, <2>3
<1>6. CASE Forgets
  <2>1. PICK u \in 1..MaxTools : seen' = [seen EXCEPT ![u] = [m \in Names |-> NULL]]
    BY <1>6 DEF Forgets
  <2>2. seen'[t][n] = seen[t][n]
    BY <1>1, <2>1
  <2> QED BY <1>6, <2>2 DEF Forgets, Heard
<1> QED BY <1>2, <1>3, <1>4, <1>5, <1>6, NextEffect DEF Effect

LEMMA NextControlNames ==
    ASSUME CallInv, ControlNames, [Next]_vars
    PROVE  ControlNames'
<1>1. CASE Silent
  BY <1>1 DEF Silent, SamePairs, ControlNames
<1>2. CASE \E c \in Copies, n \in Names, cat \in Categories : NewPair(c, n, cat)
  <2>1. PICK c \in Copies, n \in Names, cat \in Categories : NewPair(c, n, cat)
    BY <1>2
  <2>2. ASSUME InControl', NEW p \in Pairs' PROVE p.name \in CallbackNames
    <3>1. InControl /\ n \in CallbackNames
      BY <2>1, <2>2 DEF NewPair
    <3>2. p \in Pairs \/ p.name = n
      BY <2>1, <2>2 DEF NewPair
    <3> QED BY <3>1, <3>2 DEF ControlNames
  <2> QED BY <2>2 DEF ControlNames
<1>3. CASE \E p \in Pairs : Told(p)
  <2>1. PICK p \in Pairs : Told(p)
    BY <1>3
  <2>2. Lower(p).name = p.name
    BY DEF Lower
  <2> QED BY <2>1, <2>2 DEF Told, ControlNames
<1>4. CASE \E c \in Copies, t \in 1..MaxTools : ToolLists(c, t)
  <2>1. stack' = stack
    BY <1>4 DEF ToolLists
  <2> QED BY <2>1, PairsSame DEF ControlNames
<1>5. CASE Forgets
  BY <1>5 DEF Forgets, SamePairs, ControlNames
<1>6. CASE Pairs' = {}
  BY <1>6 DEF ControlNames
<1> QED BY <1>1, <1>2, <1>3, <1>4, <1>5, <1>6, NextEffect DEF Effect

\* The rank is set once, by adiak_init: a rank that reports no longer may have told its
\* tools before, never the other way round.
LEMMA NextRank ==
    ASSUME OneInit, CallInv, RankSet, [Next]_vars
    PROVE  RankSet' /\ (reportable_rank' => reportable_rank)
<1>1. CASE \E c \in InitCopies, comm \in BOOLEAN : adiak_init(c, comm)
  <2>1. initialized = {} /\ initialized' # {}
    BY <1>1 DEF adiak_init, CallInv, Types, OneInit
  <2> QED BY <2>1 DEF RankSet
<1>2. CASE UNCHANGED <<initialized, reportable_rank>>
  BY <1>2 DEF RankSet
<1> QED BY <1>1, <1>2 DEF Next, Dispatch, adiak_register, ToolLists, RequestTimer, EnterNameValue,
      adiak_raw_namevalue, adiak_flush, adiak_fini, adiak_clean, MeasureTimer, TimerFails,
      RaiseFini, SkipTool, CallTool, ToolReturns, FinishCall, FinishClean, rankVars,
      vars, toolVars

-----------------------------------------------------------------------------
\* What a query answers, of the records R.
ValueIn(R, n) ==
    LET rs == {r \in DOMAIN R : R[r].name = n}
    IN  IF rs = {} THEN NULL ELSE R[Max(rs)].value

LEMMA ValueIsIn ==
    ASSUME NEW n
    PROVE  Value(n) = ValueIn(rec, n) /\ Value(n)' = ValueIn(rec', n)
BY DEF Value, ValueIn

LEMMA ValueOfRecord ==
    ASSUME NEW R, DOMAIN R \subseteq Nat, NEW r \in DOMAIN R,
           \A q \in DOMAIN R : R[q].name = R[r].name => q = r
    PROVE  ValueIn(R, R[r].name) = R[r].value
<1> DEFINE rs == {q \in DOMAIN R : R[q].name = R[r].name}
<1>1. rs \subseteq Nat /\ r \in rs /\ \A q \in rs : q = r
  OBVIOUS
<1>2. Max(rs) = r
  <2> HIDE DEF rs
  <2> QED BY <1>1, MaxOfOne
<1> QED BY <1>1, <1>2 DEF ValueIn

LEMMA ValueKept ==
    ASSUME StoreTypeOK, NEW n \in Names, NEW cat, NEW x, Recorded(x, n, cat), NEW m, m # n
    PROVE  Value(m)' = Value(m)
<1>1. {r \in DOMAIN rec' : rec'[r].name = m} = {r \in DOMAIN rec : rec[r].name = m}
  BY DEF Recorded
<1>2. \A r \in DOMAIN rec : rec[r].name = m => rec'[r] = rec[r]
  BY DEF Recorded
<1> DEFINE rs == {r \in DOMAIN rec : rec[r].name = m}
<1>3. Value(m)' = IF rs = {} THEN NULL ELSE rec'[Max(rs)].value
  BY <1>1 DEF Value
<1>4. Value(m) = IF rs = {} THEN NULL ELSE rec[Max(rs)].value
  BY DEF Value
<1>5. CASE rs = {}
  BY <1>3, <1>4, <1>5
<1>6. CASE rs # {}
  <2>1. rs \subseteq 0..now /\ now \in Nat
    BY DEF StoreTypeOK
  <2>2. Max(rs) \in rs
    <3> HIDE DEF rs
    <3> QED BY <1>6, <2>1, MaxIn
  <2>3. PICK y \in rs : y = Max(rs)
    BY <2>2
  <2>4. rec'[y] = rec[y]
    BY <1>2, <2>3
  <2> HIDE DEF rs
  <2> QED BY <1>3, <1>4, <1>6, <2>3, <2>4
<1> QED BY <1>5, <1>6

\* Tools stay as they registered.
LEMMA ToolsStay ==
    ASSUME CallInv, [Next]_vars, NEW t \in 1..Len(tool)
    PROVE  tool'[t] = tool[t]
<1>1. tool \in Seq(ToolKinds)
  BY DEF CallInv, Types
<1>2. CASE \E c \in Copies, kind \in ToolKinds : adiak_register(c, kind)
  BY <1>1, <1>2 DEF adiak_register
<1>3. CASE tool' = tool
  BY <1>3
<1> QED BY <1>2, <1>3 DEF Next, Dispatch, adiak_init, ToolLists, RequestTimer, EnterNameValue,
      adiak_raw_namevalue, adiak_flush, adiak_fini, adiak_clean, MeasureTimer, TimerFails,
      RaiseFini, SkipTool, CallTool, ToolReturns, FinishCall, FinishClean, listVars,
      vars, toolVars

\* What one tool holds of one name, step by step.
Holds(t, n) == seen[t][n] = Value(n) \/ Due(t, n)

LEMMA ToldHolds ==
    ASSUME CallInv, UniqueNames, Delivered, NEW p, Told(p),
           NEW t \in 1..Len(tool), Watches(t), NEW n \in Names, Holds(t, n)
    PROVE  Holds(t, n)'
<1>1. /\ seen \in [1..MaxTools -> [Names -> 0..now]]
      /\ DOMAIN rec \subseteq Nat /\ t \in 1..MaxTools /\ t \in Nat /\ t >= 1
  BY ToolsAssumption DEF CallInv, Types, StoreTypeOK, ToolsAssumption
<1>2. /\ p \in Pairs /\ p.left \in Nat /\ p.name \in Names
      /\ Lower(p).name = p.name /\ Lower(p).left = p.left - 1
  BY PairType DEF Told, Lower, CallInv, Types
<1>3. Value(n)' = Value(n)
  BY DEF Told, Value
<1>4. ASSUME t # p.left \/ n # p.name, Due(t, n)
      PROVE  Due(t, n)'
  <2>1. PICK q \in Pairs : q.name = n /\ t <= q.left
    BY <1>4 DEF Due
  <2>2. CASE q \in Pairs'
    BY <2>1, <2>2 DEF Due
  <2>3. CASE q = p
    <3>1. p.left # 0 /\ t <= p.left - 1
      BY <1>1, <1>2, <1>4, <2>1, <2>3
    <3>2. Lower(p) \in Pairs'
      BY <3>1 DEF Told
    <3> QED BY <1>2, <2>1, <2>3, <3>1, <3>2 DEF Due
  <2> QED BY <2>1, <2>2, <2>3 DEF Told
<1>5. CASE t = p.left /\ n = p.name
  <2>1. seen'[t][n] = p.value
    <3>1. seen' = [seen EXCEPT ![p.left] = [seen[p.left] EXCEPT ![p.name] = p.value]]
      BY <1>1, <1>5 DEF Told
    <3> QED BY <1>1, <1>2, <1>5, <3>1
  <2>2. PICK r \in DOMAIN rec : rec[r].name = n /\ rec[r].value = p.value
    BY <1>2, <1>5 DEF Delivered
  <2>3. Value(n) = p.value
    BY <1>1, <2>2, ValueIsIn, ValueOfRecord DEF UniqueNames
  <2> QED BY <1>3, <2>1, <2>3 DEF Holds
<1>6. CASE t # p.left \/ n # p.name
  <2>1. seen'[t][n] = seen[t][n]
    <3>1. CASE seen' = [seen EXCEPT ![p.left] = [seen[p.left] EXCEPT ![p.name] = p.value]]
      <4>1. CASE t # p.left
        BY <1>1, <3>1, <4>1
      <4>2. CASE t = p.left /\ n # p.name
        BY <1>1, <3>1, <4>2
      <4> QED BY <1>6, <4>1, <4>2
    <3> QED BY <3>1 DEF Told
  <2> QED BY <1>3, <1>4, <1>6, <2>1 DEF Holds
<1> QED BY <1>5, <1>6

LEMMA ListsHolds ==
    ASSUME CallInv, UniqueNames, Heard, ~cleaned, NEW c \in Copies, NEW u \in 1..MaxTools,
           ToolLists(c, u), NEW t \in 1..Len(tool), t # u => (\A m \in Names : Holds(t, m)),
           NEW n \in Names
    PROVE  Holds(t, n)'
<1> DEFINE rs(m) == {r \in adiak_list_namevals(Categories) : rec[r].name = m}
<1>1. /\ seen \in [1..MaxTools -> [Names -> 0..now]]
      /\ DOMAIN rec \subseteq Nat /\ t \in 1..MaxTools
      /\ \A r \in DOMAIN rec : rec[r].category \in Categories
  BY ToolsAssumption DEF CallInv, Types, StoreTypeOK, ToolsAssumption, Record
<1>2. /\ seen' = [seen EXCEPT ![u] = [m \in Names |->
             IF rs(m) = {} THEN seen[u][m] ELSE rec[Min(rs(m))].value]]
      /\ UNCHANGED <<rec, stack>>
  BY DEF ToolLists, storeVars
<1>3. Value(n)' = Value(n)
  BY <1>2 DEF Value
<1>4. Due(t, n)' <=> Due(t, n)
  BY <1>2, PairsSame DEF Due
<1>5. CASE t # u
  <2>1. seen'[t][n] = seen[t][n]
    BY <1>1, <1>2, <1>5
  <2> QED BY <1>3, <1>4, <1>5, <2>1 DEF Holds
<1>6. CASE t = u
  <2>1. rs(n) = {r \in DOMAIN rec : rec[r].name = n}
    BY <1>1 DEF adiak_list_namevals
  <2>2. CASE rs(n) = {}
    <3>1. seen'[t][n] = seen[t][n]
      BY <1>1, <1>2, <1>6, <2>2
    <3>2. seen[t][n] = NULL
      BY <1>1, <2>1, <2>2 DEF Heard
    <3>3. Value(n) = NULL
      BY <2>1, <2>2 DEF Value
    <3> QED BY <1>3, <3>1, <3>2, <3>3 DEF Holds
  <2>3. CASE rs(n) # {}
    <3>1. seen'[t][n] = rec[Min(rs(n))].value
      BY <1>1, <1>2, <1>6, <2>3
    <3>2. PICK x : x = Min(rs(n))
      OBVIOUS
    <3>3. x \in DOMAIN rec /\ rec[x].name = n
      <4>1. rs(n) \subseteq Nat
        BY <1>1, <2>1
      <4>2. x \in rs(n)
        <5> HIDE DEF rs
        <5> QED BY <2>3, <3>2, <4>1, MinIn
      <4> QED BY <2>1, <4>2
    <3>4. Value(n) = rec[x].value
      BY <1>1, <3>3, ValueIsIn, ValueOfRecord DEF UniqueNames
    <3> QED BY <1>3, <3>1, <3>2, <3>4 DEF Holds
  <2> QED BY <2>2, <2>3
<1> QED BY <1>5, <1>6

LEMMA NewPairHolds ==
    ASSUME CallInv, NEW c \in Copies, NEW m \in Names, NEW cat \in Categories, NewPair(c, m, cat),
           NEW t \in 1..Len(tool), NEW n \in Names, Holds(t, n)
    PROVE  Holds(t, n)'
<1>1. CASE n = m
  <2>1. PICK p : p = [name |-> m, value |-> now', left |-> Len(tool)]
    OBVIOUS
  <2>2. p \in Pairs' /\ p.name = n /\ t <= p.left
    BY <1>1, <2>1 DEF NewPair
  <2> QED BY <2>2 DEF Holds, Due
<1>2. CASE n # m
  <2>1. PICK x \in DOMAIN rec' : Recorded(x, m, cat)
    BY RecordOfName DEF CallInv, NewPair
  <2>2. Value(n)' = Value(n)
    BY <1>2, <2>1, ValueKept DEF CallInv
  <2>3. seen'[t][n] = seen[t][n] /\ (Due(t, n) => Due(t, n)')
    BY DEF NewPair, Due
  <2> QED BY <2>2, <2>3 DEF Holds
<1> QED BY <1>1, <1>2

LEMMA NextMirror ==
    ASSUME CallInv, UniqueNames, Delivered, Heard, MirrorOrDue,
           reportable_rank' => reportable_rank, [Next]_vars
    PROVE  MirrorOrDue'
<1> SUFFICES ASSUME ~cleaned', ~InClean', NEW t \in synced',
                    tool'[t].all_ranks \/ reportable_rank', NEW n \in Names
             PROVE  Holds(t, n)'
  BY DEF MirrorOrDue, Holds
<1>1. \A u \in synced : u \in 1..Len(tool) /\ tool[u].category = AllCategories
  BY DEF CallInv, Types
<1>2. ASSUME t \in synced, ~cleaned, ~InClean PROVE Watches(t) /\ \A m \in Names : Holds(t, m)
  <2>1. tool'[t] = tool[t]
    BY <1>1, <1>2, ToolsStay
  <2> QED BY <1>1, <1>2, <2>1 DEF MirrorOrDue, Holds, Watches
<1>3. CASE Silent
  <2>1. Holds(t, n)
    BY <1>2, <1>3 DEF Silent
  <2>2. Value(n)' = Value(n) /\ (Due(t, n) => Due(t, n)') /\ seen' = seen
    BY <1>3 DEF Silent, SamePairs, Due, Value
  <2> QED BY <2>1, <2>2 DEF Holds
<1>4. CASE \E c \in Copies, m \in Names, cat \in Categories : NewPair(c, m, cat)
  <2>1. PICK c \in Copies, m \in Names, cat \in Categories : NewPair(c, m, cat)
    BY <1>4
  <2>2. t \in synced /\ ~cleaned /\ ~InClean
    BY <2>1 DEF NewPair
  <2> QED BY <1>1, <1>2, <2>1, <2>2, NewPairHolds
<1>5. CASE \E p \in Pairs : Told(p)
  <2>1. PICK p \in Pairs : Told(p)
    BY <1>5
  <2>2. t \in synced /\ ~cleaned /\ ~InClean
    BY <2>1 DEF Told
  <2> QED BY <1>1, <1>2, <2>1, <2>2, ToldHolds
<1>6. CASE \E c \in Copies, u \in 1..MaxTools : ToolLists(c, u)
  <2>1. PICK c \in Copies, u \in 1..MaxTools : ToolLists(c, u)
    BY <1>6
  <2>2. /\ stack' = stack /\ cleaned' = cleaned /\ synced' = synced \cup {u}
        /\ u \in 1..Len(tool)
    BY <2>1 DEF ToolLists, CallInv, Types
  <2>3. ~cleaned /\ ~InClean /\ t \in 1..Len(tool) /\ (t # u => t \in synced)
    BY <1>1, <2>2, PairsSame
  <2> QED BY <1>2, <2>1, <2>3, ListsHolds
<1>7. CASE Forgets
  BY <1>7 DEF Forgets
<1> QED BY <1>3, <1>4, <1>5, <1>6, <1>7, NextEffect DEF Effect

-----------------------------------------------------------------------------
LEMMA InitMirror == ASSUME Init PROVE MirrorInv
<1>1. stack = << >> /\ DOMAIN stack = {} /\ synced = {} /\ reportable_rank
  BY DEF Init
<1>2. Pairs = {} /\ ~InControl
  BY <1>1 DEF Pairs, InControl
<1>3. Heard
  BY DEF Init, Heard
<1> QED BY <1>1, <1>2, <1>3 DEF MirrorInv, Delivered, MirrorOrDue, RankSet, ControlNames

\* The payload of a pair in dispatch is freed only by a later registration of its name:
\* however many copies with however many tables there are, and whatever callbacks do.
THEOREM FreedOnlyByName == Spec => []PendingOrReplaced
<1>1. Init => DeliveredOrReplaced
  <2> SUFFICES ASSUME Init PROVE DeliveredOrReplaced
    OBVIOUS
  <2>1. Pairs = {}
    BY DEF Init, Pairs
  <2> QED BY <2>1 DEF DeliveredOrReplaced
<1>2. CallInv /\ DeliveredOrReplaced /\ [Next]_vars => DeliveredOrReplaced'
  BY NextReplaced
<1>3. DeliveredOrReplaced => PendingOrReplaced
  <2> SUFFICES ASSUME DeliveredOrReplaced, NEW i \in DOMAIN stack, stack[i].op = "value"
               PROVE  \E r \in DOMAIN rec :
                         /\ rec[r].name = stack[i].name
                         /\ rec[r].value = stack[i].value \/ rec[r].value > stack[i].value
    BY DEF PendingOrReplaced, Pending
  <2>1. View(stack[i]) \in Pairs
    BY PairIs
  <2>2. View(stack[i]).name = stack[i].name /\ View(stack[i]).value = stack[i].value
    BY DEF View
  <2> QED BY <2>1, <2>2 DEF DeliveredOrReplaced
<1> QED BY <1>1, <1>2, <1>3, CallInvariant, PTL DEF Spec

\* How the library is used, for tools to hold what a query answers: all copies see one set
\* of chains, no callback registers a name in dispatch, and one copy calls adiak_init.
OrderlyUse == SingleHash /\ ~SameNameReentry /\ OneInit

\* A tool that has caught up holds what a query answers, or is about to be told.
THEOREM MirrorInvariant == OrderlyUse => (Spec => []MirrorInv)
<1> SUFFICES ASSUME OrderlyUse PROVE Spec => []MirrorInv
  OBVIOUS
<1>1. Init => MirrorInv
  BY InitMirror
<1>2. CallInv /\ UniqueNames /\ MirrorInv /\ [Next]_vars => MirrorInv'
  BY NextDelivered, NextHeard, NextControlNames, NextRank, NextMirror DEF MirrorInv, OrderlyUse
<1>3. Spec => []UniqueNames
  BY DispatcherKeepsStore, PTL DEF OrderlyUse
<1> QED BY <1>1, <1>2, <1>3, CallInvariant, PTL DEF Spec

\* Whenever no call is in progress, such a tool holds exactly what a query answers.
THEOREM MirrorIsCurrent == OrderlyUse => (Spec => []MirrorCurrent)
<1> SUFFICES ASSUME OrderlyUse PROVE Spec => []MirrorCurrent
  OBVIOUS
<1>1. CallInv /\ MirrorInv => MirrorCurrent
  <2> SUFFICES ASSUME MirrorInv, stack = << >> PROVE MirrorCurrent
    BY DEF MirrorCurrent
  <2>1. Pairs = {} /\ ~InClean
    BY DEF Pairs, InClean
  <2> QED BY <2>1 DEF MirrorInv, MirrorOrDue, MirrorCurrent, Due
<1> QED BY <1>1, MirrorInvariant, CallInvariant, PTL


-----------------------------------------------------------------------------
\* adiak_fini: each timer that its copy was asked for is still to be read, or could not
\* be, or has a record that is younger than the call.
Younger(n, k) == \E r \in DOMAIN rec : rec[r].name = n /\ rec[r].value > k
Measures(f) ==
    /\ f.since <= now
    /\ f.op = "control" => f.timers = {}
    /\ \A n \in measure[f.copy] \ (f.timers \cup f.failed) : Younger(n, f.since)
FiniInv == \A i \in DOMAIN stack : IsFini(stack[i]) => Measures(stack[i])

\* Names keep their records until adiak_clean, and payloads only get younger.
RecordsStay == \A n : \A k \in Nat : k <= now /\ Younger(n, k) => Younger(n, k)'

LEMMA SameRecords == rec' = rec => RecordsStay
BY DEF RecordsStay, Younger

LEMMA RegisteringStays ==
    ASSUME CallInv, NEW c \in Copies, NEW n \in Names, NEW cat \in Categories,
           record_nameval(c, n, cat)
    PROVE  RecordsStay /\ (\A k \in Nat : k <= now => Younger(n, k)')
<1>1. now \in Nat /\ now' = now + 1
  BY DEF record_nameval, CallInv, StoreTypeOK
<1>2. PICK x \in DOMAIN rec' : Recorded(x, n, cat)
  BY RecordOfName DEF CallInv
<1>3. rec'[x].name = n /\ rec'[x].value = now'
  BY <1>2 DEF Recorded
<1>4. ASSUME NEW k \in Nat, k <= now PROVE now' > k
  BY <1>1, <1>4
<1>5. ASSUME NEW k \in Nat, k <= now PROVE Younger(n, k)'
  BY <1>3, <1>4, <1>5 DEF Younger
<1>6. ASSUME NEW m, NEW k \in Nat, k <= now, Younger(m, k) PROVE Younger(m, k)'
  <2>1. PICK r \in DOMAIN rec : rec[r].name = m /\ rec[r].value > k
    BY <1>6 DEF Younger
  <2>2. CASE r = x
    <3>1. m = n
      BY <1>2, <2>1, <2>2 DEF Recorded
    <3> QED BY <1>5, <1>6, <3>1
  <2>3. CASE r # x
    <3>1. r \in DOMAIN rec' /\ rec'[r] = rec[r]
      BY <1>2, <2>3 DEF Recorded
    <3> QED BY <2>1, <3>1 DEF Younger
  <2> QED BY <2>2, <2>3
<1> QED BY <1>5, <1>6 DEF RecordsStay

\* A frame of adiak_fini that stands as before.
LEMMA MeasuresKept ==
    ASSUME TimeGoesOn, now \in Nat, RecordsStay, measure' = measure,
           NEW g, NEW f, SameFini(g, f), f.since \in Nat, Measures(f)
    PROVE  Measures(g)'
<1>1. f.since <= now /\ f.since <= now'
  BY DEF Measures, TimeGoesOn
<1>2. \A n \in measure[f.copy] \ (f.timers \cup f.failed) : Younger(n, f.since)'
  BY <1>1 DEF Measures, RecordsStay
<1> QED BY <1>1, <1>2 DEF Measures, SameFini, Younger

\* A step after which every frame of adiak_fini was there before.
LEMMA FiniKept ==
    ASSUME CallInv, TimeGoesOn, FiniInv, RecordsStay, measure' = measure,
           \A i \in DOMAIN stack' : \/ ~IsFini(stack'[i])
                                    \/ \E j \in DOMAIN stack : SameFini(stack'[i], stack[j])
    PROVE  FiniInv'
<1> SUFFICES ASSUME NEW i \in DOMAIN stack', IsFini(stack'[i])
             PROVE  Measures(stack[i])'
  BY DEF FiniInv, IsFini
<1>1. PICK j \in DOMAIN stack : SameFini(stack'[i], stack[j])
  BY Zenon
<1>2. PICK g, f : g = stack'[i] /\ f = stack[j]
  OBVIOUS
<1>3. IsFini(f) /\ f.since \in Nat /\ now \in Nat
  <2>1. IsFini(g) /\ SameFini(g, f)
    BY <1>1, <1>2
  <2>2. f \in FrameType
    BY <1>2 DEF CallInv, Types
  <2> QED BY <2>1, <2>2 DEF IsFini, SameFini, FrameType, CallInv, StoreTypeOK
<1>4. Measures(g)'
  <2>1. Measures(f)
    BY <1>2, <1>3 DEF FiniInv
  <2> QED BY <1>1, <1>2, <1>3, <2>1, MeasuresKept
<1> QED BY <1>2, <1>4 DEF Measures

\* A step that replaces the frame on top, or takes it off.
LEMMA FiniReplaced ==
    ASSUME CallInv, TimeGoesOn, FiniInv, RecordsStay, measure' = measure, stack # << >>,
           NEW f \in FrameType, stack' = [stack EXCEPT ![1] = f], SameFini(f, stack[1])
    PROVE  FiniInv'
<1>1. /\ DOMAIN stack' = DOMAIN stack /\ 1 \in DOMAIN stack
      /\ \A i \in DOMAIN stack : stack'[i] = IF i = 1 THEN f ELSE stack[i]
  <2>1. stack \in Seq(FrameType)
    BY DEF CallInv, Types
  <2> QED BY <2>1, Replaced
<1>2. ASSUME NEW i \in DOMAIN stack' PROVE SameFini(stack'[i], stack[i])
  BY <1>1 DEF SameFini
<1> QED BY <1>1, <1>2, FiniKept

LEMMA FiniPopped ==
    ASSUME CallInv, TimeGoesOn, FiniInv, RecordsStay, measure' = measure, stack # << >>,
           stack' = Tail(stack)
    PROVE  FiniInv'
<1>1. \A i \in DOMAIN stack' : i + 1 \in DOMAIN stack /\ stack'[i] = stack[i + 1]
  <2>1. stack \in Seq(FrameType)
    BY DEF CallInv, Types
  <2> QED BY <2>1, Popped
<1>2. ASSUME NEW i \in DOMAIN stack' PROVE SameFini(stack'[i], stack[i + 1])
  BY <1>1 DEF SameFini
<1> QED BY <1>1, <1>2, FiniKept

\* A step that leaves the stack alone, or pushes a frame that is not of adiak_fini.
LEMMA FiniStands ==
    ASSUME CallInv, TimeGoesOn, FiniInv, RecordsStay, measure' = measure, stack' = stack
    PROVE  FiniInv'
<1>1. ASSUME NEW i \in DOMAIN stack' PROVE SameFini(stack'[i], stack[i])
  BY DEF SameFini
<1> QED BY <1>1, FiniKept

LEMMA FiniPushed ==
    ASSUME CallInv, TimeGoesOn, FiniInv, RecordsStay, measure' = measure,
           NEW f, ~IsFini(f), stack' = <<f>> \o stack, f \in FrameType
    PROVE  FiniInv'
<1>1. \A i \in DOMAIN stack' :
         \/ i = 1 /\ stack'[i] = f
         \/ i - 1 \in DOMAIN stack /\ stack'[i] = stack[i - 1]
  <2>1. stack \in Seq(FrameType)
    BY DEF CallInv, Types
  <2> QED BY <2>1, Pushed
<1>2. ASSUME NEW i \in DOMAIN stack', stack'[i] = stack[i - 1] PROVE SameFini(stack'[i], stack[i - 1])
  BY <1>2 DEF SameFini
<1> QED BY <1>1, <1>2, FiniKept

\* adiak_fini begins: all its timers are to be read.
LEMMA FiniBegins ==
    ASSUME CallInv, TimeGoesOn, NEW c \in Copies, adiak_fini(c)
    PROVE  FiniInv'
<1>1. PICK f : f = [Frame("fini", c, "fini", Control, NULL, {})
                      EXCEPT !.timers = measure[c], !.since = now]
  OBVIOUS
<1>2. f.op = "fini" /\ f.copy = c /\ f.timers = measure[c] /\ f.since = now
  BY <1>1 DEF Frame
<1>3. stack' = <<f>> \o << >> /\ now' = now /\ measure' = measure
  BY <1>1 DEF adiak_fini, ByApplication, Push, storeVars
<1>4. DOMAIN stack' = {1} /\ stack'[1] = f
  BY <1>3
<1>5. Measures(f)'
  BY <1>2, <1>3 DEF Measures, CallInv, StoreTypeOK
<1>6. ASSUME NEW i \in DOMAIN stack' PROVE Measures(stack[i])'
  BY <1>4, <1>5 DEF Measures
<1> QED BY <1>6 DEF FiniInv

\* A timer is read and recorded, or cannot be read.
LEMMA TimerMeasured ==
    ASSUME CallInv, TimeGoesOn, FiniInv, NEW c \in Copies, NEW timer \in TimerNames,
           MeasureTimer(c, timer)
    PROVE  FiniInv'
<1>1. PICK f, g :
         /\ f.op = "value" /\ f \in FrameType
         /\ g.op = "fini" /\ g \in FrameType
         /\ g.name = stack[1].name /\ g.copy = stack[1].copy /\ g.since = stack[1].since
         /\ g.timers = stack[1].timers \ {timer} /\ stack[1].failed \subseteq g.failed
         /\ stack' = <<f, g>> /\ Len(stack) = 1 /\ stack[1].op = "fini"
         /\ record_nameval(c, timer, "performance") /\ measure' = measure
  BY MeasureStep
<1>2. timer \in Names /\ "performance" \in Categories
  BY ToolsAssumption DEF TimerNames, Timers, ToolsAssumption
<1>3. RecordsStay /\ (\A k \in Nat : k <= now => Younger(timer, k)')
  BY <1>1, <1>2, RegisteringStays
<1>4. PICK top : top = stack[1]
  OBVIOUS
<1>5. top \in FrameType /\ IsFini(top) /\ Measures(top) /\ top.since \in Nat /\ now \in Nat
  <2>1. stack \in Seq(FrameType) /\ 1 \in DOMAIN stack
    BY <1>1 DEF CallInv, Types
  <2>2. top \in FrameType /\ now \in Nat
    BY <1>4, <2>1 DEF CallInv, StoreTypeOK
  <2>3. IsFini(top)
    BY <1>1, <1>4 DEF IsFini
  <2> QED BY <1>4, <2>1, <2>2, <2>3 DEF FiniInv, FrameType
<1>6. ASSUME NEW n \in measure[top.copy] \ (g.timers \cup g.failed) PROVE Younger(n, top.since)'
  <2>1. CASE n = timer
    BY <1>3, <1>5, <2>1 DEF Measures
  <2>2. CASE n # timer
    <3>1. n \in measure[top.copy] \ (top.timers \cup top.failed)
      BY <1>1, <1>4, <1>6, <2>2
    <3>2. Younger(n, top.since) /\ top.since <= now
      BY <1>5, <3>1 DEF Measures
    <3> QED BY <1>3, <1>5, <3>2 DEF RecordsStay
  <2> QED BY <2>1, <2>2
<1>7. Measures(g)'
  <2>1. top.since <= now'
    BY <1>5 DEF Measures, TimeGoesOn
  <2> QED BY <1>1, <1>4, <1>6, <2>1 DEF Measures, Younger
<1>8. DOMAIN stack' = {1, 2} /\ stack'[1] = f /\ stack'[2] = g
  BY <1>1
<1>9. ASSUME NEW i \in DOMAIN stack', IsFini(stack'[i]) PROVE Measures(stack[i])'
  <2>1. i = 2
    BY <1>1, <1>8, <1>9 DEF IsFini
  <2> QED BY <1>7, <1>8, <2>1 DEF Measures
<1> QED BY <1>9 DEF FiniInv, IsFini

LEMMA TimerMissed ==
    ASSUME CallInv, TimeGoesOn, FiniInv, NEW timer \in TimerNames, TimerFails(timer)
    PROVE  FiniInv'
<1>1. /\ stack # << >> /\ Head(stack).op = "fini"
      /\ stack' = [stack EXCEPT ![1] = Missed(stack[1], timer)]
      /\ UNCHANGED <<rec, now, measure>>
  BY DEF TimerFails, InFini, Missed, storeVars
<1>2. PICK top, g : top = stack[1] /\ g = Missed(top, timer)
  OBVIOUS
<1>3. /\ g \in FrameType /\ g.op = "fini" /\ g.copy = top.copy /\ g.since = top.since
      /\ g.timers = top.timers \ {timer} /\ top.failed \cup {timer} \subseteq g.failed
  <2>1. top \in FrameType /\ FrameInv(top, now, tool, reportable_rank) /\ top.op = "fini"
    BY <1>1, <1>2, TopOfStack
  <2> QED BY <1>2, <2>1, FewerTimers
<1>4. DOMAIN stack = {1} /\ DOMAIN stack' = {1} /\ stack'[1] = g
  <2>1. stack \in Seq(FrameType) /\ Len(stack) = 1
    BY <1>1, TopOfStack DEF CallInv, Types
  <2> QED BY <1>1, <1>2, <1>3, <2>1
<1>5. Measures(top)
  BY <1>1, <1>2, <1>4, TopOfStack DEF FiniInv, IsFini
<1>6. Measures(g)'
  BY <1>1, <1>3, <1>5 DEF Measures, Younger
<1>7. ASSUME NEW i \in DOMAIN stack' PROVE Measures(stack[i])'
  BY <1>4, <1>6 DEF Measures
<1> QED BY <1>7 DEF FiniInv

\* The fini event is raised when no timer is left.
LEMMA FiniRaised ==
    ASSUME CallInv, TimeGoesOn, FiniInv, RaiseFini
    PROVE  FiniInv'
<1>1. /\ stack # << >> /\ stack[1].op = "fini" /\ stack[1].timers = {}
      /\ UNCHANGED <<rec, now, measure>>
  BY RaiseFiniStep DEF storeVars
<1>2. PICK f \in FrameType :
         /\ f.op = "control" /\ f.name = "fini" /\ f.copy = stack[1].copy
         /\ f.timers = {} /\ f.since = stack[1].since /\ f.failed = stack[1].failed
         /\ stack' = [stack EXCEPT ![1] = f]
  BY RaiseFiniStep
<1>3. DOMAIN stack = {1} /\ DOMAIN stack' = {1} /\ stack'[1] = f
  <2>1. stack \in Seq(FrameType) /\ Len(stack) = 1
    BY <1>1, TopOfStack DEF CallInv, Types
  <2> QED BY <1>2, <2>1
<1>4. Measures(stack[1])
  BY <1>1, <1>3 DEF FiniInv, IsFini
<1>5. Measures(f)'
  BY <1>1, <1>2, <1>4 DEF Measures, Younger
<1>6. ASSUME NEW i \in DOMAIN stack' PROVE Measures(stack[i])'
  BY <1>3, <1>5 DEF Measures
<1> QED BY <1>6 DEF FiniInv

\* A turn of the dispatch loop.
LEMMA TurnFini ==
    ASSUME CallInv, CallInv', TimeGoesOn, FiniInv, SkipTool \/ CallTool \/ ToolReturns
    PROVE  FiniInv'
<1>1. stack # << >> /\ UNCHANGED <<rec, measure>> /\ stack[1] \in FrameType
  <2>1. stack # << >> /\ UNCHANGED <<rec, measure>>
    BY DEF SkipTool, CallTool, ToolReturns, AtTool, Running, storeVars
  <2> QED BY <2>1, TopOfStack
<1>2. PICK top \in FrameType : top = stack[1] /\ top = Head(stack)
  BY <1>1, TopOfStack
<1>3. \E f : SameFini(f, top) /\ stack' = [stack EXCEPT ![1] = f]
  <2>1. CASE SkipTool
    <3>1. PICK f : f = [top EXCEPT !.tool = NextTool(top.tool)]
      OBVIOUS
    <3>2. SameFini(f, top)
      BY <3>1 DEF SameFini, FrameType
    <3> QED BY <1>2, <2>1, <3>1, <3>2 DEF SkipTool
  <2>2. CASE ToolReturns
    <3>1. PICK f : f = [top EXCEPT !.running = FALSE, !.tool = NextTool(top.tool)]
      OBVIOUS
    <3>2. SameFini(f, top)
      BY <3>1 DEF SameFini, FrameType
    <3> QED BY <1>2, <2>2, <3>1, <3>2 DEF ToolReturns
  <2>3. CASE CallTool
    <3>1. PICK handed, info \in Infos : stack' = [stack EXCEPT ![1] = Called(stack[1], handed, info)]
      BY <2>3, CallStep
    <3>2. PICK f : f = Called(top, handed, info)
      OBVIOUS
    <3>3. SameFini(f, top)
      BY <3>2 DEF SameFini, FrameType, Called
    <3> QED BY <1>2, <3>1, <3>2, <3>3
  <2> QED BY <2>1, <2>2, <2>3
<1>4. PICK f : SameFini(f, top) /\ stack' = [stack EXCEPT ![1] = f]
  BY <1>3
<1>5. f \in FrameType
  <2>1. stack' \in Seq(FrameType) /\ stack \in Seq(FrameType)
    BY DEF CallInv, Types
  <2>2. 1 \in DOMAIN stack' /\ stack'[1] = f
    BY <1>1, <1>4, <2>1
  <2> QED BY <2>1, <2>2
<1>6. RecordsStay
  BY <1>1, SameRecords
<1> QED BY <1>1, <1>2, <1>4, <1>5, <1>6, FiniReplaced

\* A step outside adiak_fini: it leaves the stack alone, pushes a frame that is not of
\* adiak_fini, or finds the stack empty.
LEMMA CallsFini ==
    ASSUME CallInv, CallInv', TimeGoesOn, FiniInv, NEW c \in Copies,
           \/ \E n \in Names, cat \in Categories : adiak_raw_namevalue(c, n, cat)
           \/ adiak_flush(c) \/ adiak_clean(c)
    PROVE  FiniInv'
<1>1. \E f : stack' = <<f>> \o stack /\ ~IsFini(f)
  <2>1. CASE \E n \in Names, cat \in Categories : adiak_raw_namevalue(c, n, cat)
    <3>1. PICK n \in Names, cat \in Categories : adiak_raw_namevalue(c, n, cat)
      BY <2>1
    <3>2. PICK f : f = Frame("value", c, n, cat, now', Tools(tool_list'))
      OBVIOUS
    <3>3. ~IsFini(f)
      BY <3>2 DEF Frame, IsFini
    <3> QED BY <3>1, <3>2, <3>3 DEF adiak_raw_namevalue, Push
  <2>2. CASE adiak_flush(c)
    <3>1. PICK f : f = Frame("control", c, "flush", Control, NULL, Tools(tool_list'))
      OBVIOUS
    <3>2. ~IsFini(f)
      BY <3>1 DEF Frame, IsFini
    <3> QED BY <2>2, <3>1, <3>2 DEF adiak_flush, Push
  <2>3. CASE adiak_clean(c)
    <3>1. PICK f : f = Frame("clean", c, "clean", Control, NULL, Tools(tool_list'))
      OBVIOUS
    <3>2. ~IsFini(f)
      BY <3>1 DEF Frame, IsFini
    <3> QED BY <2>3, <3>1, <3>2 DEF adiak_clean, Push
  <2> QED BY <2>1, <2>2, <2>3
<1>2. PICK f : stack' = <<f>> \o stack /\ ~IsFini(f)
  BY <1>1
<1>3. f \in FrameType
  <2>1. stack \in Seq(FrameType) /\ stack' \in Seq(FrameType)
    BY DEF CallInv, Types
  <2>2. 1 \in DOMAIN stack' /\ stack'[1] = f
    BY <1>2, <2>1
  <2> QED BY <2>1, <2>2
<1>4. RecordsStay /\ measure' = measure
  <2>1. CASE \E n \in Names, cat \in Categories : adiak_raw_namevalue(c, n, cat)
    BY <2>1, RegisteringStays DEF adiak_raw_namevalue, EnterNameValue
  <2>2. CASE adiak_flush(c) \/ adiak_clean(c)
    BY <2>2, SameRecords DEF adiak_flush, adiak_clean, storeVars
  <2> QED BY <2>1, <2>2
<1> QED BY <1>2, <1>3, <1>4, FiniPushed

LEMMA NextFini ==
    ASSUME CallInv, FiniInv, [Next]_vars
    PROVE  FiniInv'
<1>1. TimeGoesOn /\ CallInv'
  BY NextStore, NextCalls
<1> USE <1>1
<1>2. ASSUME UNCHANGED <<rec, measure, stack>> PROVE FiniInv'
  BY <1>2, SameRecords, FiniStands
<1>3. ASSUME stack' = << >> PROVE FiniInv'
  BY <1>3 DEF FiniInv
<1>4. CASE UNCHANGED vars
  BY <1>2, <1>4 DEF vars, storeVars, toolVars
<1>5. CASE \E c \in InitCopies, comm \in BOOLEAN : adiak_init(c, comm)
  BY <1>2, <1>5 DEF adiak_init, storeVars
<1>6. CASE \E c \in Copies, kind \in ToolKinds : adiak_register(c, kind)
  BY <1>2, <1>6 DEF adiak_register, storeVars
<1>7. CASE \E c \in Copies, t \in 1..MaxTools : ToolLists(c, t)
  BY <1>2, <1>7 DEF ToolLists, storeVars
<1>8. CASE \E c \in Copies, timer \in TimerNames : RequestTimer(c, timer)
  BY <1>3, <1>8 DEF RequestTimer, ByApplication
<1>9. CASE \E c \in Copies, n \in Names, cat \in Categories : adiak_raw_namevalue(c, n, cat)
  BY <1>9, CallsFini
<1>10. CASE \E c \in Copies : adiak_flush(c) \/ adiak_fini(c) \/ adiak_clean(c)
  BY <1>10, CallsFini, FiniBegins
<1>11. CASE FinishCall
  BY <1>11, SameRecords, FiniPopped DEF FinishCall, LoopDone, Pop, storeVars
<1>12. CASE FinishClean
  <2>1. cleaned'
    BY <1>12 DEF FinishClean
  <2> QED BY <1>3, <2>1 DEF CallInv, Nesting
<1>13. CASE \/ \E c \in Copies, timer \in TimerNames : MeasureTimer(c, timer)
            \/ \E timer \in TimerNames : TimerFails(timer)
            \/ RaiseFini \/ SkipTool \/ CallTool \/ ToolReturns
  BY <1>13, TimerMeasured, TimerMissed, FiniRaised, TurnFini
<1> QED BY <1>4, <1>5, <1>6, <1>7, <1>8, <1>9, <1>10, <1>11, <1>12, <1>13 DEF Next, Dispatch

\* When tools hear of the fini event, adiak_fini has read and recorded every timer that its
\* copy was asked for, but those it could not read, the tools that have caught up hold what
\* it recorded, and no other call of the library is in progress below the event.
THEOREM FiniComesLast ==
    OrderlyUse /\ CallbackNames \cap TimerNames = {} => (Spec => []FiniIsLast)
<1> SUFFICES ASSUME OrderlyUse, CallbackNames \cap TimerNames = {} PROVE Spec => []FiniIsLast
  OBVIOUS
<1>1. Init => FiniInv
  BY DEF Init, FiniInv
<1>2. CallInv /\ FiniInv /\ [Next]_vars => FiniInv'
  BY NextFini
<1>3. CallInv /\ UniqueNames /\ MirrorInv /\ FiniInv => FiniIsLast
  <2> SUFFICES ASSUME CallInv, UniqueNames, MirrorInv, FiniInv, NEW i \in DOMAIN stack,
                      stack[i].name = "fini", stack[i].op = "control"
               PROVE  /\ i = Len(stack)
                      /\ \A n \in measure[stack[i].copy] \ stack[i].failed :
                            /\ Value(n) > stack[i].since
                            /\ \A t \in stack[i].listed \cap synced :
                                  Eligible(t, "performance") => seen[t][n] = Value(n)
    BY DEF FiniIsLast
  <2>1. i = Len(stack)
    BY DEF CallInv, Nesting
  <2>2. ASSUME NEW n \in measure[stack[i].copy] \ stack[i].failed PROVE Value(n) > stack[i].since
    <3>1. Measures(stack[i]) /\ stack[i].timers = {}
      BY DEF FiniInv, IsFini, Measures
    <3>2. PICK r \in DOMAIN rec : rec[r].name = n /\ rec[r].value > stack[i].since
      BY <2>2, <3>1 DEF Measures, Younger
    <3>3. DOMAIN rec \subseteq Nat
      BY DEF CallInv, StoreTypeOK
    <3>4. Value(n) = rec[r].value
      BY <3>2, <3>3, ValueIsIn, ValueOfRecord DEF UniqueNames
    <3> QED BY <3>2, <3>4
  <2>3. ASSUME NEW n \in measure[stack[i].copy], NEW t \in stack[i].listed \cap synced,
               Eligible(t, "performance")
        PROVE  seen[t][n] = Value(n)
    <3>1. n \in TimerNames /\ n \in Names
      <4>1. stack[i].copy \in Copies
        <5>1. stack[i] \in FrameType
          BY DEF CallInv, Types
        <5> QED BY <5>1 DEF FrameType
      <4> QED BY <2>3, <4>1 DEF CallInv, Types, TimerNames
    <3>2. ~cleaned /\ ~InClean
      BY DEF CallInv, Nesting, InClean
    <3>3. ~Due(t, n)
      <4>1. InControl
        BY DEF InControl
      <4> QED BY <3>1, <4>1 DEF MirrorInv, ControlNames, Due
    <3> QED BY <2>3, <3>1, <3>2, <3>3 DEF MirrorInv, MirrorOrDue, Eligible
  <2> QED BY <2>1, <2>2, <2>3
<1>4. Spec => []UniqueNames
  BY DispatcherKeepsStore, PTL DEF OrderlyUse
<1> QED BY <1>1, <1>2, <1>3, <1>4, MirrorInvariant, CallInvariant, PTL DEF Spec
=============================================================================
