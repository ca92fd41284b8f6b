# Adiak in TLA+

TLA+ modules that specify the Adiak metadata library (`src/`), the TLC
configurations that check them on small instances, and proofs, checked by TLAPS,
of the results that hold for every instance.

## 1. The system

Adiak collects name/value pairs about a run of an HPC program. An application
(or libraries it uses) registers pairs; tools subscribe to them with callbacks or
query them. Everything happens in the process of the caller, without threads
or locks; the MPI part runs collectives over the ranks of a communicator.

| Component | State | Operations | Interacts with |
|---|---|---|---|
| Name/value record store (`src/src/adiak.c`: `record_nameval`, `find_record_by_name`, queries, listing, freeing in `adiak_clean`) | `adiak_t.shared_record_list`, `adiak_t.record_hash` or `local_record_hash` of each copy, `minimum_version` | register (overwrite in place, or insert), look up, list, free all | every copy of the library in the process shares the list |
| Shared configuration (`adiak_public`, `adiak_get_config`, `adiak_init`) | `reportable_rank`, `use_mpi`, `report_on_all_ranks`, `tool_list`, per copy `adiak_config`, `initialized` | cache the shared structure, donate a tool list head, record rank settings | other copies through the linker symbol `adiak_public` |
| Tool list and event dispatch (`adiak_register*`, `adiak_raw_namevalue`, `adiak_flush`, `adiak_fini`, `adiak_clean`) | the list of `adiak_tool_t`, timers requested, the call stack of nested calls | register a tool, raise a pair, raise flush / fini / clean | calls back into tools, which call back into the library |
| Type strings (`parse_typestr`, `toplevel_type`, `find_end_brace`, `adiak_type_to_string`) | none (pure) | parse a printf-like type, print a type | `adiak_namevalue`, the C++ and Python layers |
| Value copies (`copy_value`, `calc_size`, `adiak_get_subval`, `free_adiak_value`) | owned heap blocks of a value | deep copy, zero-copy access, release | store (release on overwrite and clean) |
| Host list over MPI (`src/src/adksys_mpi.c`) | communicators while splitting, cached list | split until host names agree, gather, broadcast | all ranks of the communicator |
| Implicit routines (`adiak_user` ... `adiak_collect_all`) | none, but the answer about the hosts is cached | read the system, register a pair | `adksys_*`, the MPI layer |
| System layer (`src/src/adksys_*.c`) | none of its own; `errno`, files and lists of the process that other threads change | clocks, names, `/proc`, loaded objects | operating system, dynamic linker |
| C++ interface (`src/include/adiak.hpp`, `adiak_internal.hpp`) | none | map C++ types to datatypes and values | C interface |
| Python bindings (`src/src/interface/python`) | callback tables | convert values, register, iterate | C++ and tool interface |

What is hard in each, and what makes it correct:

* **Record store.** The list decides what is listed and freed, the hash chains
  decide what is found and overwritten, and which chains a copy uses depends on a
  field of the shared structure that another copy may lower at any time. Correct:
  a name is listed once, whatever is listed is found by every copy, and no chain
  leads to a freed record (`UniqueNames`, `LookupComplete`, `NoFreedRecord`); each
  copy looks like one map from names to values (`ImplementsStore`).
* **Configuration and dispatch.** There are no threads, but there is reentrancy:
  callbacks run inside the loop over the tool list and may register pairs (which
  frees payloads) and tools (which changes the list). Correct: no event is lost,
  repeated or out of order for any tool, what is delivered is allocated, `fini`
  comes last, calls return.
* **Type strings and values.** A type is read twice from one string, dimensions
  are consumed from a `va_list` at every depth, and memory is walked by sizes
  computed from the type; allocation and release are decided by two separate
  switches over the type. Correct: the type parsed is the type written, a tool
  finds every element with the data promised for a copy or a reference, and what
  is released is what was allocated.
* **Host list.** Parts of a communicator proceed at their own pace through a
  number of rounds that depends on a hash; every rank must reach the same
  collectives, failures are local to a rank. Correct: ranks of a host stay
  together, all ranks obtain the same list of one entry per host, communicators
  are freed, everyone is answered.
* **Implicit routines, system layer.** Two routines read in two passes what other
  threads of the program may change between them (the command line and the loaded
  objects); reads are interrupted and resumed; the vendor of the MPI library depends
  on the order of string tests; a borrow in the subtraction of times. Correct: what
  is registered is what was there, a routine that fails takes nothing from the others,
  buffers are not overrun, `adiak_numhosts` agrees with the list, calls return.
* **C++ and Python.** A second way of building types and values, with one datatype
  shared by elements of different sizes, and a second reader of them. Correct: tools
  find the elements the C++ object had, and tools in Python what tools in C find.

`PROJECT.json` lists each hazard at its line with the properties aimed at it.

## 2. Modules

Written in this order, the most important behaviour first.

| Module | Models | Uses |
|---|---|---|
| `NameValueStore` | the abstract map from names to their last registration | |
| `AdiakStore` | the record store shared by copies of the library | `NameValueStore` (refinement) |
| `AdiakTools` | configuration, tool list, dispatch, timers, clean | extends `AdiakStore` |
| `LeastNumber` | induction and iteration on numbers, for the proofs | |
| `AdiakToolsProofs` | proofs about the store, the calls, the list of tools, what tools are told | `AdiakTools`, `LeastNumber` |
| `HostListSpec` | what the collective host list promises | |
| `HostList` | `adksys_hostlist` and its callers on all ranks | `HostListSpec` (refinement) |
| `HostListProofs` | proofs about `HostList` and its refinement | `HostList`, `LeastNumber` |
| `HostnameColor` | the 32-bit hash that colours host names | `MCHostList` uses it |
| `Nesting` | induction and recursion over structures that nest to a bounded depth | `LeastNumber` |
| `TypeString` | datatypes, the parser and the printer of type strings | |
| `TypeGrammar` | what the documentation says of type strings, and the layout of C objects | extends `TypeString` |
| `AdiakValue` | the life of one value: register, read, release | extends `TypeGrammar` |
| `CxxValue` | `adiak::value` of the C++ interface, registering in the same record | extends `AdiakValue` |
| `PyadiakTool` | how the Python binding reads values for tools | extends `CxxValue` |
| `TypeProofs` | proofs about the parser | `TypeGrammar`, `Nesting` |
| `ValueProofs` | proofs about values that C programs register: blocks, types, printed strings, what tools read | `AdiakValue`, `TypeProofs` |
| `CxxProofs` | the same with registrations from C++, and what tools in Python read | `PyadiakTool`, `ValueProofs` |
| `TimeValue` | timevals, clock ticks, days | |
| `MpiLibrary` | vendor and version from the string of an MPI library | |
| `Collectors` | the routines that read the system, `adiak_collect_all`, the timers | extends `TimeValue`, `MpiLibrary` |
| `CollectorsProofs` | proofs about times, the number of hosts and the calls of the routines | `Collectors`, `LeastNumber` |
| `MC*` | instances for TLC | |

`AdiakTools` and `Collectors` both have the timers of `adiak_fini`: the first with
the events they raise and the calls that nest in them, the second with the times they compute.
`HostList` and `Collectors` both have the hosts: the first over all ranks, the
second on one, with the cached answer shared by two routines.

### How state and actions correspond to the code

**`AdiakStore`.** A record is named by the number of the registration that created
it. Records are only prepended to the list and to a chain, so list and chain are
sets of numbers walked from the largest down. `rec` is the shared list with its
records, `record_hash` and `local_record_hash` are the tables, `get_record_hash_list`
chooses by `minimum_version` as the code does, at every call. `record_nameval`
overwrites in place or inserts; the value, type, subcategory and info that it frees
and replaces together are one number. `FreeRecords` is the second half of
`adiak_clean`. `OldCopyJoins` is the first `adiak_get_config` of a copy built with
`ADIAK_T_VERSION` 0, which comes before anything else it does (`Joined`); from then on it registers and
cleans like the others. A chain with a freed record cannot be walked in the model
(`Walkable`); `NoFreedRecord` says that none ever has to be, and `FreedByOthers`, where copies
have tables of their own, whose `adiak_clean` makes it so.

**`AdiakTools`.** The C call stack is the variable `stack`. A frame is a call of
`adiak_raw_namevalue` (or of `adiak_flush`, `adiak_fini`, `adiak_clean`) with its
cursor `tool` in the list, `info_ptr`, and whether the callback of the tool at the
cursor is running. A step is one turn of a loop (`SkipTool`, `CallTool`,
`ToolReturns`), a call by the application or by the running callback, or a return.
`adiak_fini` first measures the requested timers, each of which is a nested
registration or fails. Tools keep what they were last handed for each name
(`seen`), so that properties compare what tools know with the store. A frame of `adiak_fini` keeps when it began and the timers that could not
be read. After
`adiak_clean` the application makes no call (`adiak.h`). What tools do is external:
they may register pairs and tools and list the records.

**`HostList`.** A collective is one action of all ranks of its communicator, taken
when the last has arrived; a communicator is the set of its ranks. `Split`,
`Agree` and `Differ` are the loop of `get_unique_host`, `HostSplit` and `Gather`
are `gethostlist`, `Bcast` the end of `adksys_hostlist`, `Call` and `Return` the
callers. `Fail` is an error of a collective that `get_unique_host` checks, possible
when the communicator has an error handler that returns. `held` is the set of
communicators that a rank has created and not freed, each named by the round that made it. The
variables `oldcomm`, `newcomm` and `set_oldcomm` of `get_unique_host` are modelled by name (`handles`), so what
each path frees is what they name there (`OldFrees`, `ExitFrees`): freeing clears `oldcomm` and not `newcomm`, and a
split that fails leaves in `newcomm` the handle that was there or none, for MPI does not say. `refreed`
records that a rank has freed a handle it no longer held.

**`TypeString`, `TypeGrammar`, `AdiakValue`.** A type string is a sequence of tokens:
a bracket, a separator, `&`, or a whole specifier such as `%i16`. A *term* of
`TypeGrammar` is what a user has in mind; `Written` and `Dimensions` are the string
and the arguments the documentation says to pass for it, `Meaning` the datatype that it describes.
`parse_typestr_helper` follows the code branch by branch, with the position and the
`va_list` passed through the recursion. The recursion of the code is that of recursive functions over
datatypes and terms up to a depth, and for the parser over the number of tokens left, up to
`MaxLength`. What `va_arg` yields past the last argument is arbitrary (`stray`). In `AdiakValue` the application's object is a set of cells at addresses,
laid out as a C compiler does; `copy_value` and `adiak_get_subval` compute addresses
with `calc_size` as the code does, and a load that hits no cell is garbage; `copy_value`
returns the value together with the blocks it allocates. An integer is kept as the bits of its field: `SignExtended` is the number that `copy_value` and
`adiak_get_subval` read through the signed type of its size, `DocumentedNumber` what the table in
`adiak.h` tells a tool to cast that to. Data have
versions, so that a copy can be told from a reference. `heap` is the set of
blocks that Adiak has allocated and not freed, each known by the registration and by its
place in the value. The application changes its data at any time, and frees what
the documentation lets it free.

**`CxxValue`, `PyadiakTool`.** `adiak::value` is one more action on the record of
`AdiakValue`. An object is a type, a term of `TypeGrammar` without sizes, with its
elements; `make_type` builds the datatype from the type alone, and `make_value` the value
and the datatype as it leaves it: a container writes its size into a datatype
that it shares with its siblings, so `make_value` returns the datatype too and passes
it from one element to the next. C++ registers `char` and `short` as `int` and `float` as `double`
(`Widened`), with the base type of that size, so a C++ object never has the datatypes of `%i8` or `%f32`; and it leaves the `numerical` field of a range unset
(`numerical`). `convert_adiak_value_to_python` casts each number as its branch does (`CastNumber`). It is a pure function of
a datatype and a value, compared in every state with what `adiak_get_subval`
gives. Its failures are the exceptions of the C++ code, and those that Python raises for
sets of elements that cannot be hashed or ordered.

**`Collectors`.** `todo` is the list of routines a call still has to run: one for a
single routine, seventeen for `adiak_collect_all` (`CollectOrder`), the requested timers for
`adiak_fini`. A routine that makes one system call is one action, with success and
failure (`Fault`) as alternatives. `adksys_get_cmdline_buffer` and
`adksys_get_libraries` are several actions each, because `Retitle`, `Load` and
`Unload`, steps of other threads of the program, fall between them. `fread` returns
what it was asked for, what there is, or less, with `EINTR`, when a signal
interrupts; `errno` is what the code reads, so what earlier calls left in it is part of the
state. `registered` is the pairs of the call so far. System answers are constants; strings are
sequences of characters or words where the code looks into them.

## 3. Runs

| Run | Question | Bounds |
|---|---|---|
| `StoreShared` | Two copies, one version 1 structure: the store properties, and each copy implements `NameValueStore` | 3 names of which 2 share a bucket, 2 categories, 5 registrations: enough to overwrite the head and the middle of a chain, clean, and fill it again |
| `StoreOldJoins` | A copy of version 0 joins at any point, and then both copies register and clean through tables of their own: what leaves a copy with a chain to a freed record, and what cures it | 2 copies, 4 registrations: pairs before the copy joins, through both copies after it, and after a clean by either |
| `ToolsReentrant` | Nested registrations of pairs and tools from callbacks, through two copies of the library, on a rank that is not the root; `adiak_init` called again | 2 copies, 2 tools, depth 3, 3 registrations: a tool registered in a nested call through the other copy, with an outer loop still under way |
| `ToolsFini` | `adiak_fini` with two timers of which each may fail: what has been done when tools hear of `fini`; callbacks that register the name in dispatch too: which payloads are freed under a loop; liveness of all calls | 2 timers, 2 tools, depth 3, 3 registrations: a timer that waits while a name is registered again inside its own dispatch |
| `HostListJob` | The whole collective with and without errors: safety, the handles freed on every path, refinement of `HostListSpec`, liveness without errors | 4 ranks on 3 hosts; the names of two hosts have equal colours for two rounds, with colours computed by the real hash |
| `ValueCopies` | Parsing, reading and releasing values of some 130 types up to three levels deep, registered from C or C++ and read from C or Python | 2 versions of the data, 2 registrations, with one of three terms in the second: a value of each kind replaces and is replaced by one of the other interface; type strings of at most 20 tokens (`MaxLength`), longer than any written or printed for these types; unsigned numbers of 4 and 8 bytes have their top bit set (`UnsignedHigh`), in an `int` and a `long` scaled down to 20 and 24 bits (`IntMax`, `LongMax`), more than the 2 bytes of `%u16` |
| `Collectors` | All routines alone, `adiak_collect_all` and `adiak_fini`, with failures, interrupted reads and other threads at work | per call 1 failing system call, 2 interrupted reads, 1 object loaded and 1 unloaded, 1 overwriting of the arguments, in a behaviour: enough for an interruption in each of three pieces, for `errno` to be stale at the end of a file, and for each routine to fail while the others succeed |
| `ToolsControlInfo` (violation) | Is an info tool handed the category of a control event? | |
| `ToolsRecategorise` (violation) | Is what a tool retains valid until `adiak_clean`? | |
| `ValuesPadded` (violation) | Are the structs of the documentation's examples read back? | |
| `TypeNestedTuple` (violation) | Does a tuple of tuples parse as written? | |
| `CxxRagged` (violation) | Is a C++ vector of vectors of different lengths read back? | |

Deadlock is checked where the system always has a next call (the stores, whose
`FreeRecords` is always possible, and the values). It is not checked in the runs of
`AdiakTools`, where the process ends after `adiak_clean`, and in `HostListJob`,
where all ranks come to the end of their calls and where a rank with an error
leaves the others waiting. Nor is it checked in the runs of values that look for a
violation, which end when the one registration has been used.

Symmetry is not used: the names of the store have fixed buckets, and liveness
properties and orders by rank exclude it elsewhere.

The assumption `NamesSeparate` of `MCHostList` says that no two names of two
letters of a small alphabet have equal colours in all the rounds of the instance; it is a
check of the hash by evaluation. `MalformedRefused` of `MCAdiakValue` says that malformed type strings are refused.
`MCTuplesLast`, `TermsGapless` and `MCRectangular` say of the terms and objects of `ValueCopies` what
the theorems of section 4 assume of all terms and objects.

### Fairness

`AdiakTools!FairSpec`: the calling thread keeps running, that is `Dispatch` is
weakly fair. No thread, lock or message is involved, so a loop that can turn does
turn, and a callback that has finished its calls returns; the bounds on tools and
registrations stand for callbacks that make a bounded number of calls of their own.

`HostList!FairSpec`: every rank keeps calling (`adiak.h` asks that all ranks call the
routine), a collective that all ranks of its communicator have entered completes,
which MPI guarantees, and a rank whose call has its answer returns. Liveness is
claimed only when no collective returns an error.

`Collectors!FairSpec`: the thread that calls Adiak keeps running, that is `Collect`
is weakly fair; some step of it is always possible during a call, since none waits
for another thread. Nothing is assumed of the other threads. The bound
`MaxInterrupts` stands for signals that stop coming: with a signal at every read the
loop over the command line need not end. `CallsReturn` leaves out two states, named
`Spinning` and discussed in section 5, in which the call indeed never returns.

## 4. Proofs

All theorems hold for every value of the constants that the assumptions named in the
modules allow. Where a theorem needs more, it has a hypothesis, listed in the table.

| Theorem | States | Hypothesis |
|---|---|---|
| `AdiakToolsProofs`: `StoreTypeCorrect`, `FreedOnlyByOthers` | `StoreTypeOK`, `FreedByOthers` | |
| `NamesAreUnique`, `LookupsAreComplete`, `StoreRefinement` | `UniqueNames`, `LookupComplete`, `ImplementsStore` | `SingleHash` |
| `DispatcherRefinesStore`, `DispatcherKeepsStore` | `ImplementsAdiakStore`, and with it `UniqueNames`, `LookupComplete` and `NoFreedRecord` | the second: `SingleHash` |
| `ToolsTypeCorrect`, `ToolsCalledOnce` | `TypeOK`, `CalledOnceInOrder` | |
| `FreedOnlyByName` | `PendingOrReplaced` | |
| `MirrorIsCurrent` | `MirrorCurrent` | `OrderlyUse` |
| `FiniComesLast` | `FiniIsLast` | `OrderlyUse`, and no callback registers the name of a timer |
| `HostListProofs`: `TypeCorrect`, `HostsStay`, `CommunicatorsFreed`, `FreedOnceButByFailedSplit`, `NumHostsCorrect` | `TypeOK`, `HostsStayTogether`, `CommsFreed`, `FreedTwiceOnlyByFailedSplit`, `NumHostsRight` | |
| `HostListRefinement` | `ImplementsHostListSpec` | |
| `Nesting`: `NestingInduction`, `NestingRecursion` | induction over nested structures, and that functions defined by recursion on them exist | `Nested`, which is proved of datatypes, terms and objects |
| `TypeProofs`: `ReadingsAgree` | `toplevel_type` and `parse_typestr` agree on every string that is accepted | |
| `TermReadBack` | the datatype parsed is the one the term means | `TuplesLast` of the term, `MaxLength` |
| `ValueProofs`: `CopiesAreFreed` | `free_adiak_value_worker` frees what `copy_value` allocates, for every datatype | |
| `ValueTypes`, `BlocksReleased`, `TopTypes` | `TypeOK`, `HeapIsRecord`, `TopTypeAgrees` of C programs | |
| `ParsedAsWritten` | `ParsesAsWritten` of C programs | `AllTuplesLast` |
| `StringReadBack`, `StringsParse` | the string printed for a datatype is parsed as that datatype; `StringParsesBack` of C programs | `TuplesLast`, no range |
| `ValuesReadBack` | `ReadBack` of C programs | `AllTuplesLast`, `AllGapless`, `NarrowLow` |
| `CxxProofs`: `ObjectsAreMeant` | `make_value` returns what a C program gets that registers the same data, promoted (`Widened`), but for the `numerical` field of ranges | the object is `Rectangular` |
| `CxxValueTypes`, `CxxBlocksReleased`, `CxxTopTypes` | `TypeOK`, `HeapIsRecord`, `TopTypeAgrees` | `AllRectangular` |
| `CxxParsedAsWritten`, `CxxStringsParse` | `ParsesAsWritten`, `StringParsesBack` | and `AllTuplesLast` |
| `CxxValuesReadBack`, `CxxObjectsReadBack`, `PythonReadsTheSame` | `ReadBack`, `CxxReadBack`, `PythonAgrees` | and `AllGapless`, `NarrowLow` |
| `CollectorsProofs`: `ElapsedExact`, `TicksNormal`, `WallTime`, `NumHosts` | the arithmetic of times, `WallTimeRight`, `NumHostsAgree` | |
| `CollectorsTypeCorrect`, `CmdlineReadWhole`, `LibrariesFit`, `ResultsTell` | `TypeOK`, `CmdlineWhole`, `LibrariesInBounds`, `ResultTells` | |
| `PublishedVendorsTold`, `VendorIsRight`, `FailuresStayIndependent` | the vendor of a string, `VendorRight`, `FailuresIndependent` | `AsPublished` for every string of `MpiInfos` |

**The hypotheses.** `SingleHash` says that a version 1 structure is shared, which no older copy
joins, or that there is one copy only. It is needed: with two copies on chains of their own, as also after an older
copy has joined, names are registered twice, lookups miss them and walk freed records. What can still be said then is `FreedOnlyByOthers`, which needs no hypothesis.
`OrderlyUse` is `SingleHash`, `~SameNameReentry`, that no callback registers the
name that is in dispatch, and `OneInit`, that one copy is initialised; without the second the older value
reaches tools last, after it has been freed; without the third tools may not hear of pairs that are listed, for the rank
may stop reporting. `FreedOnlyByName` needs neither. Section 5 has the runs. `AsPublished` says that a
string has the form that the comments of `adksys_mpi_library_version` show for its vendor and
names none of the vendors tested before, or is that of another vendor and names none of the
five. That the strings of `MCMpiInfos` are such is an assumption of `MCCollectors`, which TLC checks.

`Rectangular` says that the containers inside one container of a C++ object are equally long,
`TuplesLast` that no element of a tuple but the last is a tuple itself, `Gapless` that the
structs of the application have no padding, and `NarrowLow` that no unsigned integer of one or two bytes has its top
bit set. `All...` claims it of all terms or objects that are registered. Each is needed: the
runs `CxxRagged`, `TypeNestedTuple` and `ValuesPadded` break a property without the first three, `UnsignedHigh = {1, 2}` without the last. The
instance of `ValueCopies` meets all four, with the top bit set in unsigned integers of four and eight bytes.
`PythonReadsTheSame` has the last three only because they show that the record's value is a member of
`Values`, for which the conversion is defined. That `PythonAgrees` leaves out `unsigned long long` is needed:
section 5.

**The store.** Uniqueness of names is not inductive, because `record_nameval` decides by
the chains and never looks at the list. The inductive invariant `StoreInv` adds `ChainsAreList`: the chains every copy
works on are exactly the list, split by bucket. Under it `FindByName` says what a lookup
returns, and each action has its lemma. `FreedOnlyByOthers` is for copies of any versions: as long as the structure is
of version 1 the shared chains hold listed records and those of the copies are empty (`TablesInv`), so an
old copy that joins takes to empty chains; after that only the `adiak_clean` of one copy
leaves another with a chain that is `Stale`. The refinement `StoreRefinement` is for all
copies at once: every step, of any copy, is a step of the abstract map seen through each
copy's queries, or changes nothing there.

**The dispatcher.** `DispatcherRefinesStore` needs `FrameCopies`: every frame of the
stack belongs to a copy, which is what `FinishClean` needs to be a step of the store.
What the tools see needs an invariant over all frames, because `CalledOnceInOrder` speaks of
a frame that has ended, after anything may have nested in it. `CallInv` says of each frame
that it has called just those of the tools listed when it began that pass its filters and lie behind its cursor,
the newest first (`Progress`), that all copies lead to one list (`OneList`), and that only the
bottom frame is not a registration (`Nesting`). A tool registered meanwhile is ahead of
the head at which the walk began, so no walk meets it.

What is in dispatch can be freed only by `record_nameval` for the same name, for `adiak_clean` frees when no call
below it is left (`Nesting`). `DeliveredOrReplaced` says it of all frames at once: the payload a frame carries is the current one
of its name, or a younger registration of the name has replaced it.

`MirrorCurrent` compares tools with the store when no call is in progress; in between the two
differ. `MirrorInv` says where the difference is kept: a tool that has caught up holds what a
query answers, or a frame that carries a pair of that name is still to reach it
(`MirrorOrDue`). Nested registrations of one name in different frames would make the older one
overwrite the newer in the tool, hence `~SameNameReentry`. The steps of the dispatcher are six effects on
the pairs in dispatch (`Effect`), so that the invariants are proved for six cases
and not for sixteen actions. `FiniComesLast` adds `ControlNames`, while control events are raised
what is registered comes from callbacks, and `FiniInv`: a timer that a frame of `adiak_fini` no longer has to measure is
recorded since that frame began, or the frame has noted that it could not be read.

**The host list.** `HostInv` has eleven parts. `HostsStayTogether` needs `Parts`: the members of
a communicator agree on who is in it and are in one round, for `MPI_Comm_split` compares
colours of one round only. `CommsFreed` needs to know what is held at each place of the code
(`HeldByPlace`) and what `oldcomm`, `newcomm` and `set_oldcomm` are there (`LocalsByPlace`), for the code frees by them: between two
rounds both handles name one communicator, which is where a failed split frees it twice
(`FreedOnceButByFailedSplit`). That the list has one entry per host needs `Represented`, each host has one
representative when the rounds are over, and it is its lowest rank; that all ranks
obtain it needs `Phases`, nobody is ahead of a collective of all. `NumHostsCorrect` counts: representatives
and hosts are in one-to-one correspondence. Nothing is assumed of the colours but that
each host name has one in each round.

**Times and the number of hosts.** The subtraction of `measure_walltime` is exact and normal
for all integers, and the conversion of ticks gives fewer than a million microseconds for every tick rate
(from a lemma on products of a remainder and a quotient).
`NumHostsAgree` is not inductive as it stands: between the two
routines the list could be asked for again with another answer. The strengthening
`HostsKept` says that what a call has registered of the two comes from the cached
answer, which `adksys_hostlist` never changes.

**The routines.** `CallsInv` has three parts, each inductive given the answers that `hosts` may hold.

* `RoutineInv`: no routine is left to run twice, and none has failed or registered before it ran
  (`RunsOnce`), so that the pairs registered are those of the routines that have returned and told
  (`Collected`). The routines that return in one step are brought to one form (`Returned`) first.
* `LibrariesInv`: what the second pass finds is what the first counted, more by what was
  loaded and less by what was unloaded. It rests on counting the named objects in a sequence with one entry
  added or taken away.
* `CmdlineInv`: what has been read is an initial part of the file, and unless the
  arguments were overwritten the file is the image of the arguments. `ArgumentsComeBack` then
  says that splitting the image of any arguments at the NULs gives the arguments again: `myargv(Image(a)) = a`.

`Image` is a fold over the arguments, so the last is an induction over data, which the library's
induction theorems do not allow here. `LeastNumber` proves induction up to a bound for a *set* of numbers
from well-foundedness, and `CollectorsProofs` describes the fold by the function of its partial results (`Builds`), whose
existence is proved by that induction.

**Recursion over types.** Datatypes, terms and objects nest, and the operators on them are
recursive functions. `Nesting` is about the structures `All` that nest to a depth of at most `MaxDepth`, given
the parts of a structure and the structures with parts in a set. `NestingInduction` is stated with a
set, of the structures that have the property in question, so no theorem with an operator as parameter is needed;
`NestingRecursion` says that a function defined from its values for the parts exists and satisfies its
equation. The modules about values instantiate it once for each recursive function.

**The parser.** `ReadingsAgree` shows that both readings of a string decide by the same token, the first
that is neither a separator nor `&` (`FirstTokenParsed`).
What is written for a term is `Balanced`: all brackets that open in it close in it, so that `find_end_brace`
finds the end of a container and not that of an element. `TermReadBack` is by induction over terms, for a string in which what is
written for the term is found at any position (`Behind`), with its dimensions at any place of the
`va_list`: the elements of a tuple are placed one behind the other (`Placed`), and the position moves on
only after an element that is not a tuple, which is what `TuplesLast` is about. For the printed string, `StringReadBack`
shows that it is what is written for the `PlainTerm`, the term without references and lengths of numbers, and
cites `TermReadBack` for that one.

**Blocks.** `HeapIsRecord` rests on `CopiesAreFreed`, an induction over datatypes: `copy_value` and
`free_adiak_value_worker` make the same decisions from separate switches over the type. `ValueInv` adds that the
record holds as many elements as its datatype counts, for the old value is released by its own type.

**What tools read.** `ReadBack` compares two readings of memory that has changed meanwhile. `Kept` says what a
record keeps of data at an address: copies are as old as the registration, of what is referenced there is only the address.
`KeptInv` says that the value of the record is that of its data, and that the application has kept what
the documentation says it must (`ObjectKept`). That `copy_value` finds each element where the C
compiler has put it needs `Begins`, where the elements of a structure without gaps begin, and that cells of
different elements are `Apart`, so that every load hits its own cell.

**The interfaces.** For C++ the difficulty is that `make_value` changes the datatype it is
given, and siblings share it. `ObjectsAreMeant` is an induction over terms with all the datatypes that an element may find
(`MayFind`): the one made from its type, or the one a sibling has left. If inner containers are equally
long these agree, and what `make_value` leaves is what `adiak_namevalue` would keep for the same data (`AsMeant`).
So one invariant serves both interfaces, and the C++ theorems follow from it; `CxxObjectsReadBack` then compares the leaves
of the object with those promised for its term (`LeavesMeant`). `PythonReadsTheSame` is an induction over
datatypes (`Agree`): the conversion gives the elements that `adiak_get_subval` gives, or raises an exception
because a range or a set is somewhere in the type.

Before they were proved, the invariants of the store, the dispatcher, the host list and the routines were checked by TLC as
invariants of the component's run. `KeptInv` speaks of all data and is not for TLC to evaluate; its consequences, the
properties, are what `ValueCopies` checks.

**Only model-checked.** All liveness (`CallsReturn` of `AdiakTools` and of `Collectors`,
`AllAnswered` of `HostList`): fairness and `ENABLED` are beyond the prover. Two assumptions
that TLC evaluates, `NamesSeparate` about `HostnameColor`, with its bitwise operators, and `MalformedRefused`
about malformed type strings. And what the runs add that find a violation.
Every invariant and every safety property of the passing runs is stated by a theorem.

## 5. Disagreements between code and documentation

Five are shown by runs.

* `ToolsControlInfo`: for a control event `info` is declared inside the loop body of
  `adiak_raw_namevalue`, and `info_ptr` keeps pointing at it: from the second info tool on,
  the callback gets an object out of scope.
* `ToolsRecategorise`: a pair registered again under another category frees a
  payload that a tool following the first category may retain, according to `BasicUsage.rst`, until it hears of `clean`.
* `ValuesPadded`: tuples are read without the padding of the structs that `adiak.h`
  and `ApplicationAPI.rst` give as examples.
* `TypeNestedTuple`: after an element that is a tuple, the parser does not move on.
* `CxxRagged`: the elements of a C++ container share one datatype, into which each
  inner container writes its size; the last one decides for all (`adiak_internal.hpp:219`).

These are shown by a change of a passing run: with the property named added to its configuration, and with the constant
changed where one is given, TLC finds the property violated.

* `NoFreedRecord` in `StoreOldJoins`: `adiak_clean` frees the records of all copies and empties the chains of the caller
  (`adiak.c:1161`). Copies with tables of their own then walk freed records, where `adiak.h:465-467` says that Adiak has no pairs.
* `LookupComplete` in `StoreOldJoins`: such copies do not find each other's pairs, and list a name twice.
* `DeliveredLive` in `ToolsFini`: a callback that registers the very name in dispatch frees what the outer loop
  still delivers to the next tool (`adiak.c:141-162`, `1097`).
* `InitOnce` in `ToolsReentrant` with `InitCopies = {app, lib}`: `adiak_init` takes effect again through a second copy of the
  library, against `adiak.h:272-273` ("Subsequent calls have no effect"), and replaces the settings that all copies share.
* `FreedOnce` in `HostListJob`: after the first round `oldcomm` and `newcomm` are one handle; if the next split fails and leaves
  `newcomm` as it was, the error path of `get_unique_host` frees it twice (`adksys_mpi.c:84-89`).
* `ReadBack` in `ValueCopies` with `UnsignedHigh = {1, 2, 4, 8}`: `%u8` and `%u16` elements with the top bit set are read as
  negative numbers (`adiak.c:780`), and the cast of `adiak.h:221` does not bring them back.
* `PythonReadsUnsigned` in `ValueCopies`: a tool in Python gets an `unsigned long long` from 2^63 on as a negative
  number (`pyadiak_tool.cpp:172`), where `adiak.h:235` says to read it "as unsigned long long".
* `ContainersCategorical` in `ValueCopies`: ranges registered from C++ have no `numerical` property (`adiak_internal.hpp:176-189`),
  where `adiak.h:91` and the C functions make them categorical.
* `AllCollected` in `Collectors`: `adiak_collect_all` does not call `adiak_mpi_library`, where `adiak.h:450` has it invoke
  "all of the pre-defined routines" and `ApplicationAPI.rst:68` all "except walltime, systime, and cputime".

Others were met on the way.

* `adiak.h:127-128` says that a range is passed to the C interface "as two values"; the code and the tests pass a pointer to
  an array of two, and the model follows them.
* The short string of a range lacks the closing bracket (`StringParsesBack` leaves ranges out).
* `adiak_num_hosts` registers 1 after an error of a collective, where
  `adiak_hostlist` fails.
* The least `int` as a colour stays negative (`SplitColor`), and MPI does not accept it.
* `adiak_workdir` tests for a result that `adksys_get_cwd` never returns: on failure
  uninitialised memory is registered (`ResultTells` excepts it).
* A library unloaded between the second pass and the registration leaves a dangling
  name (`ResultTells` excepts it); with two loaded meanwhile the array of names is
  overrun (`LibrariesInBounds` is stated for one).
* The loop that reads the command line takes an old `EINTR` in `errno` for an
  interruption; if the file is shorter than it was measured, it never ends. The loop that measures it
  asks `fgetc` until the end of the file, and never ends if reading fails and goes on failing (`MeasureForEver`). Both are
  states of `Spinning`, which `CallsReturn` excepts.
* The Python binding raises an exception for every range (`PythonAgrees` allows it) and reads
  zero-copy containers as arrays of values (`PythonAgrees` is stated where there are none).

## 6. Not modelled, and why

* The layer for macOS (`adksys_osx.c`): the same interface with other system
  calls. Of the Linux layer, the truncation of names to fixed buffers is left out.
* The calls of the Python module into C++ and the conversions that pybind11 generates
  for them, among them that of a set of `Timepoint` (which are ordered by a field that is
  written only when they are handed to Adiak); and where an exception thrown in a Python
  callback goes, once it has to leave the C loop that called it.
* C++ functions other than `adiak::value`, which forward to the C functions one by one.
* `adiak_list_namevals` calls its callback once per record, and the callback may register pairs in between; `ToolLists`
  hands over all records in one step. Registering prepends to the list or overwrites in place, so the walk goes on
  to the records it would have reached; what it hands over of them is then newer.
* Allocation failure is not modelled, as the code does not handle it. The
  unchecked collectives of `gethostlist` are assumed to succeed.
* Host names are cut at the first dot and are at most as long as the buffer; the
  truncation of longer names is left out.
* The long form of `adiak_type_to_string`, `adiak_numerical_from_type` and
  `adiak_get_basetype` are constant tables.
