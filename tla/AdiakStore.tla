----------------------------- MODULE AdiakStore -----------------------------
(***************************************************************************)
(* The name/value record store of src/src/adiak.c: record_nameval,         *)
(* find_record_by_name, the query and list calls, and the part of          *)
(* adiak_clean that frees the records.                                     *)
(*                                                                         *)
(* Several copies of the library can be linked into one process (an        *)
(* application, its shared libraries, a tool).  They share the adiak_t     *)
(* that the dynamic linker finds under the name adiak_public, with its     *)
(* record list and (from structure version 1 on) its hash table; every     *)
(* copy also has a static hash table of its own, used when the shared      *)
(* structure is of an older version.                                       *)
(*                                                                         *)
(* A record is named by the number of the registration that created it.    *)
(* Records are only ever prepended to the list and to a hash chain, so     *)
(* both are sets of record numbers walked from the largest to the smallest.*)
(***************************************************************************)
EXTENDS Integers, FiniteSets, FiniteSetsExt

CONSTANTS
    Copies,            \* the copies of the library in the process
    Names,             \* the names that get registered
    Categories,        \* the categories they are registered under
    Buckets,           \* hash buckets (RECORD_HASH_SIZE of them)
    Hash,              \* strhash_djb2(name) % RECORD_HASH_SIZE
    PublicVersion,     \* ADIAK_T_VERSION of the copy that owns adiak_public
    OldCopies,         \* the copies built with ADIAK_T_VERSION 0
    MaxRegistrations,  \* bound on the registrations of one behaviour
    NoValue            \* what a query answers for an unknown name

ASSUME StoreAssumption ==
    /\ Hash \in [Names -> Buckets]
    /\ PublicVersion \in {0, 1}
    /\ OldCopies \subseteq Copies
    /\ MaxRegistrations \in Nat
    /\ NoValue \notin [value : Nat \ {0}, category : Categories]

VARIABLES
    now,                \* registrations made so far; the clock of the model
    rec,                \* the live records; DOMAIN rec is shared_record_list
    minimum_version,    \* adiak_t.minimum_version
    record_hash,        \* adiak_t.record_hash, the shared chains
    local_record_hash   \* the static chains of each copy

storeVars == <<now, rec, minimum_version, record_hash, local_record_hash>>

\* A record's payload is the number of the registration that set it: it stands
\* for the value, the type, the subcategory and the info block, which
\* record_nameval frees and replaces together.
Record == [name : Names, category : Categories, value : Nat \ {0}]

\* No record: the NULL that ends a chain.
NULL == 0

EmptyHash == [b \in Buckets |-> {}]

-----------------------------------------------------------------------------
\* The chains copy c works on.
get_record_hash_list(c) ==
    IF minimum_version >= 1 THEN record_hash ELSE local_record_hash[c]

\* The records of name n that copy c has on the chain of n's bucket.
OnChain(c, n) ==
    {r \in get_record_hash_list(c)[Hash[n]] \cap DOMAIN rec : rec[r].name = n}

\* Mutant: only the head of the chain is compared with the name.
FindAtHead(c, n) ==
    LET chain == get_record_hash_list(c)[Hash[n]]
    IN  IF chain # {} /\ Max(chain) \in OnChain(c, n) THEN Max(chain) ELSE NULL

\* Mutant: the head of the chain is taken without comparing its name.
FindHeadUncompared(c, n) ==
    LET chain == get_record_hash_list(c)[Hash[n]]
    IN  IF chain = {} THEN NULL ELSE Max(chain)

\* The first one on the chain: chains are prepended to, so the newest.
find_record_by_name(c, n) ==
    IF OnChain(c, n) = {} THEN NULL ELSE Max(OnChain(c, n))

\* Following the chain of n's bucket meets only records that are allocated.
\* A walk over a freed record is undefined behaviour and the model takes no such
\* step; NoFreedRecord says that none is due, FreedByOthers when one can be.
Walkable(c, n) == get_record_hash_list(c)[Hash[n]] \subseteq DOMAIN rec

\* The answer of adiak_get_nameval and adiak_get_nameval_with_info in copy c.
adiak_get_nameval(c, n) ==
    LET r == find_record_by_name(c, n)
    IN  IF r = NULL THEN NoValue
        ELSE [value |-> rec[r].value, category |-> rec[r].category]

\* The records a callback of adiak_list_namevals is handed, from the largest to
\* the smallest: the whole list, newest record first, filtered by category.
adiak_list_namevals(cats) == {r \in DOMAIN rec : rec[r].category \in cats}

-----------------------------------------------------------------------------
StoreInit ==
    /\ now = 0
    /\ rec = << >>
    /\ minimum_version = PublicVersion
    /\ record_hash = EmptyHash
    /\ local_record_hash = [c \in Copies |-> EmptyHash]

\* Mutant: the category the name was first registered under is kept.
OverwriteKeepingCategory(c, n, cat) ==
    /\ find_record_by_name(c, n) # NULL
    /\ rec' = [rec EXCEPT ![find_record_by_name(c, n)].value = now + 1]
    /\ UNCHANGED <<record_hash, local_record_hash>>

\* The name is on the chain already: its payload and category are replaced in
\* place, and the record keeps its position in the list and in the chain.
OverwriteRecord(c, n, cat) ==
    /\ find_record_by_name(c, n) # NULL
    /\ rec' = [rec EXCEPT ![find_record_by_name(c, n)] =
                   [name |-> n, category |-> cat, value |-> now + 1]]
    /\ UNCHANGED <<record_hash, local_record_hash>>

\* Mutant: the new record heads the bucket, its hash_next is left NULL.
InsertCuttingChain(c, n, cat) ==
    /\ find_record_by_name(c, n) = NULL
    /\ rec' = [r \in DOMAIN rec \cup {now + 1} |->
                  IF r = now + 1
                  THEN [name |-> n, category |-> cat, value |-> now + 1]
                  ELSE rec[r]]
    /\ record_hash' = [record_hash EXCEPT ![Hash[n]] = {now + 1}]
    /\ UNCHANGED local_record_hash

\* The chains with the record under creation put before the bucket of n.
Linked(chains, n) == [chains EXCEPT ![Hash[n]] = @ \cup {now + 1}]

\* The name is not on the chain: a new record is prepended to the shared list
\* and to the chain this copy works on.
InsertRecord(c, n, cat) ==
    /\ find_record_by_name(c, n) = NULL
    /\ rec' = [r \in DOMAIN rec \cup {now + 1} |->
                  IF r = now + 1
                  THEN [name |-> n, category |-> cat, value |-> now + 1]
                  ELSE rec[r]]
    /\ IF minimum_version >= 1
       THEN /\ record_hash' = Linked(record_hash, n)
            /\ UNCHANGED local_record_hash
       ELSE /\ local_record_hash' = [local_record_hash EXCEPT ![c] = Linked(@, n)]
            /\ UNCHANGED record_hash

record_nameval(c, n, cat) ==
    /\ now < MaxRegistrations
    /\ Walkable(c, n)
    /\ now' = now + 1
    /\ OverwriteRecord(c, n, cat) \/ InsertRecord(c, n, cat)
    /\ UNCHANGED minimum_version

\* Mutant: the shared chains are zeroed whatever the version.
FreeRecordsSharedHash(c) ==
    /\ rec' = << >>
    /\ record_hash' = EmptyHash
    /\ UNCHANGED <<now, minimum_version, local_record_hash>>

\* Mutant: the copy's own chains are zeroed whatever the version.
FreeRecordsOwnHash(c) ==
    /\ rec' = << >>
    /\ local_record_hash' = [local_record_hash EXCEPT ![c] = EmptyHash]
    /\ UNCHANGED <<now, minimum_version, record_hash>>

\* The tail of adiak_clean in copy c: every record of the shared list is freed
\* and the chains that this copy works on are zeroed.
FreeRecords(c) ==
    /\ rec' = << >>
    /\ IF minimum_version >= 1
       THEN /\ record_hash' = EmptyHash
            /\ UNCHANGED local_record_hash
       ELSE /\ local_record_hash' = [local_record_hash EXCEPT ![c] = EmptyHash]
            /\ UNCHANGED record_hash
    /\ UNCHANGED <<now, minimum_version>>

\* Mutant: minimum_version is lowered without comparing it first.
OldCopyJoinsUnchecked(c) ==
    /\ c \in OldCopies
    /\ minimum_version' = minimum_version - 1
    /\ UNCHANGED <<now, rec, record_hash, local_record_hash>>

\* A copy built with an older ADIAK_T_VERSION runs its adiak_get_config for the
\* first time: it lowers minimum_version to its own version.  Where that is the
\* version already, adiak_get_config changes nothing in the store.
OldCopyJoins(c) ==
    /\ c \in OldCopies
    /\ minimum_version > 0
    /\ minimum_version' = 0
    /\ UNCHANGED <<now, rec, record_hash, local_record_hash>>

\* Every call starts with adiak_get_config, so an old copy has joined before it
\* registers or cleans.
Joined(c) == c \in OldCopies => minimum_version = 0

StoreNext ==
    \/ \E c \in Copies, n \in Names, cat \in Categories :
          Joined(c) /\ record_nameval(c, n, cat)
    \/ \E c \in Copies : Joined(c) /\ FreeRecords(c)
    \/ \E c \in Copies : OldCopyJoins(c)

StoreSpec == StoreInit /\ [][StoreNext]_storeVars

-----------------------------------------------------------------------------
\* All copies see one set of chains: either the shared structure is of version
\* 1 and no older copy ever joins, or there is only one copy.
SingleHash ==
    /\ OldCopies = {}
    /\ PublicVersion >= 1 \/ \A c, d \in Copies : c = d

\* Type invariant of the store of src/src/adiak.c: records and chains hold
\* numbers of registrations that were made.
StoreTypeOK ==
    /\ now \in 0..MaxRegistrations
    /\ DOMAIN rec \subseteq 1..now
    /\ rec \in [DOMAIN rec -> Record]
    /\ minimum_version \in {0, 1}
    /\ record_hash \in [Buckets -> SUBSET (1..now)]
    /\ local_record_hash \in [Copies -> [Buckets -> SUBSET (1..now)]]

\* No two records of the shared list have one name: adiak_list_namevals never
\* reports a name twice, whichever copies registered it under which categories
\* (record_nameval looks in the hash table only, never in the list).
UniqueNames ==
    \A r, s \in DOMAIN rec : rec[r].name = rec[s].name => r = s

\* A lookup by any copy finds the record that any copy listed: the chains that
\* find_record_by_name walks and the list that adiak_list_namevals walks hold
\* the same records.
LookupComplete ==
    \A c \in Copies : \A r \in DOMAIN rec : find_record_by_name(c, rec[r].name) = r

\* Copy c has a chain that leads to a record which adiak_clean has freed.
Stale(c) == \E b \in Buckets : ~(get_record_hash_list(c)[b] \subseteq DOMAIN rec)

\* No chain that a lookup or a registration will walk holds a record that
\* adiak_clean, called through any copy, has freed: afterwards adiak_get_nameval
\* reports no pair through any copy.
NoFreedRecord == \A c \in Copies : ~Stale(c)

\* With tables of their own, the copies depend on who cleans: a copy's chains lead
\* to freed records only from an adiak_clean by another copy, in a process whose
\* structure is of version 0, until its own adiak_clean.  Registering, overwriting
\* and the change of tables by an old copy that joins leave no copy with one.
FreedByOthers ==
    [][\A c \in Copies :
          /\ FreeRecords(c) => ~Stale(c)'
          /\ ~Stale(c) /\ Stale(c)' =>
                minimum_version = 0 /\ \E d \in Copies \ {c} : FreeRecords(d)]_storeVars

\* Copy c, seen through adiak_get_nameval, is the abstract store.
Abstract(c) == INSTANCE NameValueStore
    WITH store <- [n \in Names |-> adiak_get_nameval(c, n)], registered <- now

AbstractInit == \A c \in Copies : Abstract(c)!Init
AbstractStep ==
    \A d \in Copies :
        /\ Abstract(d)!Next \/ UNCHANGED Abstract(d)!vars
        /\ \A c \in Copies, n \in Names, cat \in Categories :
              record_nameval(c, n, cat) => Abstract(d)!SetValue(n, cat)

\* Every copy of the library implements the one map from names to their last
\* registration, also for the names that other copies registered: seen through
\* each copy's adiak_get_nameval, every step of record_nameval, adiak_clean and
\* adiak_get_config in any copy is a step of NameValueStore or changes nothing,
\* and registering a name is setting that name, to that category.
ImplementsStore == AbstractInit /\ [][AbstractStep]_storeVars
=============================================================================
