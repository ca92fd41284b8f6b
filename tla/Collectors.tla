------------------------------ MODULE Collectors ------------------------------
(***************************************************************************)
(* The routines that read the system and register what they find:          *)
(* adiak_user, adiak_executable, ..., adiak_collect_all, and the timers    *)
(* that adiak_fini measures (src/src/adiak.c), over the system layer       *)
(* (src/src/adksys_*.c).                                                   *)
(*                                                                         *)
(* A routine is known by the pair it registers ("working_directory" is     *)
(* adiak_workdir).  Most make one system call.  Two read in several steps  *)
(* what other threads of the program may change meanwhile: the command     *)
(* line, whose memory the program may overwrite, and the list of loaded    *)
(* objects.  The pairs of one call are looked at, not the record store.    *)
(***************************************************************************)
EXTENDS TimeValue, MpiLibrary, FiniteSets

CONSTANTS
    ArgLists,        \* argument vectors, of arguments that are sequences of characters
    Titles,          \* bytes that a thread may write over the arguments
    Loaded,          \* the names of the objects loaded at first, the program's is empty
    LaterLibraries,  \* names of objects that may be loaded later
    MpiInfos,        \* library version strings, each with its library
    System,          \* the system's other answers
    EndTimes,        \* the times at which adiak_fini may be called
    Ticks,           \* processor times
    MaxFaults,       \* bound on the system calls of one call that fail
    MaxInterrupts,   \* bound on the interrupted reads of one call
    MaxLoads,        \* bound on the objects loaded during one call
    Garbage          \* what uninitialised or freed memory holds

VARIABLES
    args, file, retitled,              \* the arguments, /proc/self/cmdline, has it changed
    libs,                              \* the loaded objects
    use_mpi, hosts, errno,             \* state of the process
    call, todo, count, result,         \* the call, its routines still to run, and result
    registered,                        \* the pairs it has registered
    failed, interrupts,                \* the system calls that failed, the reads interrupted
    loads, unloaded,                   \* objects loaded meanwhile, was one unloaded
    step, size, buffer,                \* adksys_get_cmdline_buffer
    counted, names,                    \* adksys_get_libraries
    mpi_info, now                      \* what MPI and the clock have answered

systemVars == <<args, file, retitled, libs>>
processVars == <<use_mpi, hosts, errno>>
callVars == <<call, todo, count, result, registered>>
cmdlineVars == <<size, buffer>>
libraryVars == <<counted, names>>
answerVars == <<mpi_info, now>>
eventVars == <<interrupts, loads, unloaded>>
vars == <<systemVars, processVars, callVars, failed, eventVars, step, cmdlineVars,
          libraryVars, answerVars>>

NUL == "NUL"
NoPairs == [n \in {} |-> 0]
Pair(name, value) == [n \in {name} |-> value]

\* adiak_namevalue for each pair.
Add(pairs, others) ==
    [n \in DOMAIN pairs \cup DOMAIN others |->
         IF n \in DOMAIN pairs THEN pairs[n] ELSE others[n]]

\* What a sequence holds, and that it is one.
Entries(s) == {s[i] : i \in DOMAIN s}
IsSeq(s) == s \in Seq(Entries(s))

Errnos == {"none", "EINTR", "EIO"}

CollectorsAssumption ==
    /\ \A a \in ArgLists : IsSeq(a) /\ a # << >> /\ \A i \in DOMAIN a : IsSeq(a[i]) /\ NUL \notin Entries(a[i])
    /\ \A t \in Titles : IsSeq(t) /\ t # << >>
    /\ IsSeq(Loaded) /\ \A m \in MpiInfos : IsSeq(m.info)
    /\ Garbage \notin Entries(Loaded) /\ Garbage \notin LaterLibraries /\ Garbage # System.cwd
    /\ Normal(System.start) /\ \A t \in EndTimes : Normal(t)
    /\ Ticks \subseteq Nat /\ System.tics_per_sec \in Nat \ {0}
    /\ {MaxFaults, MaxInterrupts, MaxLoads} \subseteq Nat
ASSUME CollectorsAssumption

-----------------------------------------------------------------------------
\* Conversions.

\* A string up to a character, and from the last one on.
UpTo(s, c) ==
    LET at == {i \in DOMAIN s : s[i] = c} IN IF at = {} THEN s ELSE SubSeq(s, 1, First(at) - 1)
AfterLast(s, c) ==
    LET after == {i \in 1..(Len(s) + 1) : \A j \in i..Len(s) : s[j] # c}
    IN  SubSeq(s, First(after), Len(s))

Digits == {"0", "1", "2", "3", "4", "5", "6", "7", "8", "9"}
clustername(host) == SelectSeq(UpTo(host, "."), LAMBDA c : c \notin Digits)

\* The bytes of an argument vector: each argument ends with a NUL.
Image(argv) ==
    LET image[i \in 0..Len(argv)] == IF i = 0 THEN << >> ELSE image[i - 1] \o argv[i] \o <<NUL>>
    IN  image[Len(argv)]

\* The j-th number of a set.
Nth(S, j) == CHOOSE i \in S : Cardinality({k \in S : k <= i}) = j

\* myargv of adiak_cmdline: as many arguments as there are NULs in the bytes.
Nuls(bytes) == {k \in DOMAIN bytes : bytes[k] = NUL}
Nul(bytes, j) == IF j = 0 THEN 0 ELSE Nth(Nuls(bytes), j)
myargv(bytes) ==
    [j \in 1..Cardinality(Nuls(bytes)) |-> SubSeq(bytes, Nul(bytes, j - 1) + 1, Nul(bytes, j) - 1)]

\* Mutant: the program itself, which has no name, is counted too.
count_all(objects) == Len(objects)

\* Mutant: the program itself is stored with the libraries.
get_all_names(objects) == objects

\* The callbacks of dl_iterate_phdr, which count and store the objects with a name.
Named(objects) == {i \in DOMAIN objects : objects[i] # ""}
count_libraries(objects) == Cardinality(Named(objects))
get_library_name(objects) ==
    [j \in 1..Cardinality(Named(objects)) |-> objects[Nth(Named(objects), j)]]

\* What the routines register that make one system call.
Found ==
    [adiakversion |-> System.version,
     user |-> UpTo(System.user, ","),
     uid |-> System.gecos,
     launchdate |-> System.start.tv_sec,
     launchday |-> DayOf(System.start.tv_sec),
     executable |-> AfterLast(System.executable, "/"),
     executablepath |-> System.executable,
     working_directory |-> System.cwd,
     hostname |-> System.host,
     cluster |-> clustername(System.host)]

CollectOrder ==
    <<"adiakversion", "user", "uid", "launchdate", "launchday", "executable", "executablepath",
      "working_directory", "libraries", "cmdline", "hostname", "cluster", "jobsize", "numhosts",
      "hostlist", "mpi_version", "mpi_library_version">>
Routines == {CollectOrder[i] : i \in DOMAIN CollectOrder} \cup {"mpi_library"}
Timers == {"cputime", "systime", "walltime"}

-----------------------------------------------------------------------------
Init ==
    /\ args \in ArgLists /\ file = Image(args) /\ retitled = FALSE
    /\ libs = Loaded
    /\ use_mpi \in BOOLEAN /\ hosts = "unasked" /\ errno \in {"none", "EINTR"}
    /\ call = "none" /\ todo = << >> /\ count = 0 /\ result = 0 /\ registered = NoPairs
    /\ failed = {} /\ interrupts = 0 /\ loads = 0 /\ unloaded = FALSE
    /\ step = "start" /\ size = 0 /\ buffer = << >> /\ counted = 0 /\ names = << >>
    /\ mpi_info = NoLibrary /\ now = System.start

Idle == todo = << >>
Running(r) == todo # << >> /\ Head(todo) = r

\* Mutant: the count is not set to zero at the start.
BeginUncounted(name, routines) ==
    /\ Idle /\ routines # << >>
    /\ call' = name /\ todo' = routines /\ result' = 0 /\ registered' = NoPairs
    /\ failed' = {} /\ interrupts' = 0 /\ loads' = 0 /\ unloaded' = FALSE
    /\ step' = "start" /\ mpi_info' = NoLibrary /\ now' = System.start
    /\ UNCHANGED <<systemVars, processVars, count, cmdlineVars, libraryVars>>

\* A call of a routine, of adiak_collect_all or of adiak_fini begins.
Begin(name, routines) ==
    /\ Idle /\ routines # << >>
    /\ call' = name /\ todo' = routines /\ count' = 0 /\ result' = 0 /\ registered' = NoPairs
    /\ failed' = {} /\ interrupts' = 0 /\ loads' = 0 /\ unloaded' = FALSE
    /\ step' = "start" /\ size' = 0 /\ buffer' = << >> /\ counted' = 0 /\ names' = << >>
    /\ mpi_info' = NoLibrary /\ now' = System.start
    /\ UNCHANGED <<systemVars, processVars>>

adiak_collect_all == Begin("collect_all", CollectOrder)
adiak_fini(requested) ==
    LET Measure(t) == IF t \in requested THEN <<t>> ELSE << >>
    IN  Begin("fini", Measure("cputime") \o Measure("systime") \o Measure("walltime"))

\* Mutant: adiak_collect_all returns at the first routine that fails.
FinishAtFailure(r, pairs) ==
    /\ registered' = Add(pairs, registered)
    /\ todo' = IF r = 0 THEN Tail(todo) ELSE << >>
    /\ count' = IF r = 0 THEN count + 1 ELSE count
    /\ result' = IF call = "collect_all" THEN (IF count' > 0 THEN 0 ELSE -1) ELSE r
    /\ step' = "start"
    /\ UNCHANGED call

\* A routine registers its pairs and returns r; adiak_collect_all counts the
\* routines that return 0.
Finish(r, pairs) ==
    /\ registered' = Add(pairs, registered)
    /\ todo' = Tail(todo)
    /\ count' = IF r = 0 THEN count + 1 ELSE count
    /\ result' = IF call = "collect_all" THEN (IF count' > 0 THEN 0 ELSE -1) ELSE r
    /\ step' = "start"
    /\ UNCHANGED call

Fault(f) == Cardinality(failed) < MaxFaults /\ failed' = failed \cup {f}
Fails(r) == Fault(r) /\ Finish(-1, NoPairs)
Succeeds(pairs) == UNCHANGED failed /\ Finish(0, pairs)

\* What only the routines of several steps change.
Simple == UNCHANGED <<systemVars, use_mpi, errno, eventVars, cmdlineVars, libraryVars>>

\* A routine of one system call.  adiak_workdir compares with 1 the result of
\* adksys_get_cwd, which is 0 or -1.
CollectOne(r) ==
    /\ Running(r)
    /\ \/ Succeeds(Pair(r, Found[r]))
       \/ r \notin {"adiakversion", "working_directory"} /\ Fails(r)
       \/ r = "working_directory" /\ Fault(r) /\ Finish(0, Pair(r, Garbage))
    /\ Simple /\ UNCHANGED <<hosts, answerVars>>

-----------------------------------------------------------------------------
\* The routines that ask MPI, and the timers.

adiak_job_size ==
    /\ Running("jobsize")
    /\ \/ ~use_mpi /\ Succeeds(Pair("jobsize", 1))
       \/ use_mpi /\ Succeeds(Pair("jobsize", System.job_size))
       \/ use_mpi /\ Fails("jobsize")
    /\ Simple /\ UNCHANGED <<hosts, answerVars>>

\* Mutant: the list is asked for at every call.
hostlist_anew ==
    \/ hosts' = "list" /\ UNCHANGED failed
    \/ hosts' = "error" /\ Fault("hosts")

\* The first answer is kept, an error too.
adksys_hostlist ==
    \/ hosts # "unasked" /\ UNCHANGED <<hosts, failed>>
    \/ hosts = "unasked" /\ hosts' = "list" /\ UNCHANGED failed
    \/ hosts = "unasked" /\ hosts' = "error" /\ Fault("hosts")

\* Without a list there is one host, whatever the reason.
adiak_num_hosts ==
    /\ Running("numhosts")
    /\ IF use_mpi THEN adksys_hostlist ELSE UNCHANGED <<hosts, failed>>
    /\ Finish(0, Pair("numhosts", IF use_mpi /\ hosts' = "list" THEN Len(System.hosts) ELSE 1))
    /\ Simple /\ UNCHANGED answerVars

adiak_hostlist ==
    /\ Running("hostlist")
    /\ IF use_mpi THEN adksys_hostlist ELSE UNCHANGED <<hosts, failed>>
    /\ IF use_mpi /\ hosts' = "list"
       THEN Finish(0, Pair("hostlist", System.hosts)) ELSE Finish(-1, NoPairs)
    /\ Simple /\ UNCHANGED answerVars

\* MPI_VERSION is a constant of the header, the library's string a call.
adiak_mpi_version ==
    /\ Running("mpi_version")
    /\ \/ use_mpi /\ Succeeds(Pair("mpi_version", System.mpi_version))
       \/ ~use_mpi /\ UNCHANGED failed /\ Finish(-1, NoPairs)
    /\ Simple /\ UNCHANGED <<hosts, answerVars>>

adiak_mpi_library ==
    /\ Running("mpi_library")
    /\ \/ use_mpi /\ Succeeds(Pair("mpi_library", System.mpi_library))
       \/ use_mpi /\ Fails("mpi_library")
       \/ ~use_mpi /\ UNCHANGED failed /\ Finish(-1, NoPairs)
    /\ Simple /\ UNCHANGED <<hosts, answerVars>>

VendorPairs(lib) ==
    [n \in {"mpi_library_vendor", "mpi_library_version"} |->
         IF n = "mpi_library_vendor" THEN lib.vendor ELSE lib.version]

adiak_mpi_library_version ==
    /\ Running("mpi_library_version")
    /\ \/ \E m \in MpiInfos : \E lib \in {adksys_mpi_library_version(m.info)} :
            /\ use_mpi /\ mpi_info' = m.library
            /\ UNCHANGED failed
            /\ IF lib = NoLibrary THEN Finish(-1, NoPairs) ELSE Finish(0, VendorPairs(lib))
       \/ use_mpi /\ Fails("mpi_library_version") /\ UNCHANGED mpi_info
       \/ ~use_mpi /\ UNCHANGED <<failed, mpi_info>> /\ Finish(-1, NoPairs)
    /\ Simple /\ UNCHANGED <<hosts, now>>

\* measure_cputime and measure_systime
MeasureTimes(r) ==
    /\ Running(r)
    /\ \/ \E tics \in Ticks : Succeeds(Pair(r, TicksToTime(tics, System.tics_per_sec)))
       \/ Fails(r)
    /\ Simple /\ UNCHANGED <<hosts, answerVars>>

measure_walltime ==
    /\ Running("walltime")
    /\ \/ now' \in EndTimes /\ Succeeds(Pair("walltime", Elapsed(System.start, now')))
       \/ Fails("walltime") /\ UNCHANGED now
    /\ Simple /\ UNCHANGED <<hosts, mpi_info>>

-----------------------------------------------------------------------------
\* The command line: /proc/self/cmdline is read once to measure it and once
\* more into a buffer of that size.

Cmdline ==
    UNCHANGED <<systemVars, use_mpi, hosts, loads, unloaded, libraryVars, answerVars>>

\* What earlier calls have left in errno shows only from here on.
OpenCmdline ==
    /\ Running("cmdline") /\ step = "start"
    /\ \/ step' = "measure" /\ errno' \in {"none", "EINTR"} /\ UNCHANGED <<callVars, failed>>
       \/ Fails("cmdline") /\ UNCHANGED errno
    /\ Cmdline /\ UNCHANGED <<interrupts, cmdlineVars>>

\* Mutant: the character that fgetc does not get at the end is counted.
MeasuredPastEnd(bytes) == Len(bytes) + 1

\* fgetc runs once more than there are bytes, and size-- corrects that.
Measured(bytes) == Len(bytes)

\* A failing fgetc does not end the loop, and is counted as a character.
MeasureCmdline ==
    /\ Running("cmdline") /\ step = "measure" /\ "measure" \notin failed /\ step' = "read"
    /\ buffer' = << >>
    /\ \/ size' = Measured(file) /\ UNCHANGED <<errno, failed>>
       \/ size' = Measured(file) + 1 /\ Fault("measure") /\ errno' \in {"EINTR", "EIO"}
    /\ Cmdline /\ UNCHANGED <<callVars, interrupts>>

\* When fgetc goes on failing, feof never becomes true: the loop repeats for ever.
MeasureForEver ==
    /\ Running("cmdline") /\ step = "measure"
    /\ \/ "measure" \notin failed /\ Fault("measure") /\ errno' = "EIO"
       \/ "measure" \in failed /\ UNCHANGED <<failed, errno>>
    /\ Cmdline /\ UNCHANGED <<callVars, interrupts, step, cmdlineVars>>

Left == Len(file) - Len(buffer)   \* what the file still has

\* Mutant: fread is asked for the whole size again after an interruption.
WantAll == size

\* What fread is asked for.
Want == size - Len(buffer)

\* fread gets k bytes: all it wants, all there are, or fewer if a signal interrupts.
ReadBytes ==
    /\ Running("cmdline") /\ step = "read"
    /\ \E k \in 1..Left :
         /\ k <= Want
         /\ \/ k \in {Want, Left} /\ UNCHANGED <<errno, interrupts>>
            \/ k < Want /\ k < Left /\ interrupts < MaxInterrupts
               /\ errno' = "EINTR" /\ interrupts' = interrupts + 1
         /\ buffer' = buffer \o SubSeq(file, Len(buffer) + 1, Len(buffer) + k)
    /\ step' = IF Len(buffer') < size THEN "read" ELSE "split"
    /\ Cmdline /\ UNCHANGED <<callVars, failed, size>>

\* fread gets nothing.  EINTR in errno, which nothing resets, is taken for an
\* interruption also at the end of the file.
ReadNothing ==
    /\ Running("cmdline") /\ step = "read"
    /\ \/ /\ Left > 0 /\ interrupts < MaxInterrupts
          /\ errno' = "EINTR" /\ interrupts' = interrupts + 1
          /\ UNCHANGED <<callVars, failed, step>>
       \/ /\ Left <= 0 /\ errno # "EINTR"
          /\ step' = "split" /\ UNCHANGED <<callVars, failed, errno, interrupts>>
       \/ /\ Left <= 0 /\ errno = "EINTR"
          /\ UNCHANGED <<callVars, failed, step, errno, interrupts>>
    /\ Cmdline /\ UNCHANGED cmdlineVars

ReadError ==
    /\ Running("cmdline") /\ step = "read" /\ Left > 0
    /\ errno' = "EIO" /\ Fails("cmdline")
    /\ interrupts' = 0 /\ size' = 0 /\ buffer' = << >>
    /\ Cmdline

\* The buffer was filled with NULs before.
SplitCmdline ==
    /\ Running("cmdline") /\ step = "split"
    /\ LET bytes == [i \in 1..size |-> IF i <= Len(buffer) THEN buffer[i] ELSE NUL]
       IN  Succeeds(Pair("cmdline", myargv(bytes)))
    /\ interrupts' = 0 /\ size' = 0 /\ buffer' = << >>
    /\ Cmdline /\ UNCHANGED errno

\* Another thread overwrites the arguments.
Retitle(t) ==
    /\ Running("cmdline") /\ step \in {"measure", "read"} /\ ~retitled
    /\ file' = t /\ retitled' = TRUE
    /\ UNCHANGED <<args, libs, processVars, callVars, failed, eventVars, step, cmdlineVars,
                   libraryVars, answerVars>>

-----------------------------------------------------------------------------
\* The loaded objects: dl_iterate_phdr goes over them twice, each time under
\* the dynamic linker's lock.

Libraries ==
    UNCHANGED <<systemVars, processVars, interrupts, unloaded, cmdlineVars, answerVars>>

CountLibraries ==
    /\ Running("libraries") /\ step = "start" /\ step' = "store"
    /\ counted' = count_libraries(libs)
    /\ Libraries /\ UNCHANGED <<callVars, failed, loads, names>>

StoreNames ==
    /\ Running("libraries") /\ step = "store" /\ step' = "register"
    /\ names' = get_library_name(libs)
    /\ Libraries /\ UNCHANGED <<callVars, failed, loads, counted>>

\* An entry that was not stored, or whose object is gone, is read all the same.
adiak_libraries ==
    /\ Running("libraries") /\ step = "register"
    /\ Succeeds(Pair("libraries",
            [i \in 1..counted |->
                 IF i <= Len(names) /\ \E j \in DOMAIN libs : libs[j] = names[i]
                 THEN names[i] ELSE Garbage]))
    /\ loads' = 0 /\ counted' = 0 /\ names' = << >>
    /\ Libraries

\* Another thread loads or unloads an object.
Load(l) ==
    /\ Running("libraries") /\ step # "start" /\ loads < MaxLoads
    /\ \A i \in DOMAIN libs : libs[i] # l
    /\ libs' = Append(libs, l) /\ loads' = loads + 1
    /\ UNCHANGED <<args, file, retitled, processVars, callVars, failed, interrupts, unloaded,
                   step, cmdlineVars, libraryVars, answerVars>>
Unload(l) ==
    /\ Running("libraries") /\ step # "start" /\ ~unloaded
    /\ \E i \in DOMAIN libs :
         libs[i] = l /\ libs' = SubSeq(libs, 1, i - 1) \o SubSeq(libs, i + 1, Len(libs))
    /\ unloaded' = TRUE
    /\ UNCHANGED <<args, file, retitled, processVars, callVars, failed, interrupts, loads,
                   step, cmdlineVars, libraryVars, answerVars>>

-----------------------------------------------------------------------------
\* The thread that calls Adiak, its steps in a call, and the other threads.
Call ==
    \/ adiak_collect_all
    \/ \E r \in Routines : Begin(r, <<r>>)
    \/ \E requested \in SUBSET Timers : adiak_fini(requested)

Collect ==
    \/ \E r \in DOMAIN Found : CollectOne(r)
    \/ adiak_job_size \/ adiak_num_hosts \/ adiak_hostlist
    \/ adiak_mpi_version \/ adiak_mpi_library \/ adiak_mpi_library_version
    \/ MeasureTimes("cputime") \/ MeasureTimes("systime") \/ measure_walltime
    \/ OpenCmdline \/ MeasureCmdline \/ MeasureForEver \/ ReadBytes \/ ReadNothing \/ ReadError \/ SplitCmdline
    \/ CountLibraries \/ StoreNames \/ adiak_libraries

Others ==
    \/ \E t \in Titles : Retitle(t)
    \/ \E l \in LaterLibraries : Load(l) \/ Unload(l)

Next == Call \/ Collect \/ Others
Spec == Init /\ [][Next]_vars
FairSpec == Spec /\ WF_vars(Collect)

-----------------------------------------------------------------------------
\* Properties.

\* Type invariant: what each variable holds.
TypeOK ==
    /\ args \in ArgLists /\ file \in {Image(args)} \cup Titles
    /\ {retitled, use_mpi, unloaded} \subseteq BOOLEAN
    /\ hosts \in {"unasked", "list", "error"} /\ errno \in Errnos
    /\ call \in Routines \cup {"none", "collect_all", "fini"}
    /\ \A i \in DOMAIN todo : todo[i] \in Routines \cup Timers
    /\ count \in 0..Len(CollectOrder) /\ result \in {0, -1}
    /\ Cardinality(failed) <= MaxFaults /\ interrupts \in 0..MaxInterrupts /\ loads \in 0..MaxLoads
    /\ step \in {"start", "measure", "read", "split", "store", "register"}
    /\ {size, counted} \subseteq Nat
    /\ now \in EndTimes \cup {System.start}

\* The command line is read within the buffer, however reads are interrupted and
\* arguments overwritten, and what is registered is the argument vector unless
\* they were overwritten or the measuring failed (adksys_get_cmdline_buffer, adiak_cmdline).
CmdlineWhole ==
    /\ Len(buffer) <= size
    /\ "cmdline" \in DOMAIN registered /\ ~retitled /\ "measure" \notin failed
         => registered.cmdline = args

\* One object loaded between the two passes still fits in the array, which has
\* one entry more than were counted (adksys_get_libraries).
LibrariesInBounds == loads <= 1 => Len(names) <= counted + 1

\* The vendor and version registered are those of the library, and not of one it
\* derives from (adksys_mpi_library_version).
VendorRight ==
    "mpi_library_vendor" \in DOMAIN registered
        => Library(registered.mpi_library_vendor, registered.mpi_library_version) = mpi_info

\* A call that registers both the hosts and their number registers the number of
\* those hosts, although an error of MPI is registered as one host (adiak_num_hosts).
NumHostsAgree ==
    {"numhosts", "hostlist"} \subseteq DOMAIN registered
        => registered.numhosts = Len(registered.hostlist)

\* The pairs of a routine.
PairsOf(r) ==
    IF r = "mpi_library_version" THEN {"mpi_library_vendor", "mpi_library_version"} ELSE {r}

\* The routines that have nothing to register.
Unavailable ==
    LET mpi == {"hostlist", "mpi_version", "mpi_library", "mpi_library_version"}
        known == {Vendors[i].vendor : i \in DOMAIN Vendors}
    IN  {r \in mpi : \/ ~use_mpi
                     \/ r = "hostlist" /\ hosts = "error"
                     \/ r = "mpi_library_version" /\ mpi_info.vendor \notin known}

\* A failing routine takes nothing from the others: adiak_collect_all registers the
\* pairs of all the routines it calls, but those whose own system call failed or that
\* have nothing to register.  Whether it calls all that it should is AllCollected.
FailuresIndependent ==
    Idle /\ call = "collect_all"
        => /\ DOMAIN registered
                = UNION {PairsOf(CollectOrder[i]) : i \in
                            {i \in DOMAIN CollectOrder :
                                \/ CollectOrder[i] \notin failed \cup Unavailable
                                \/ CollectOrder[i] = "working_directory"}}
           /\ result = 0

\* adiak_collect_all "invokes all of the pre-defined routines" (adiak.h), that is all but
\* the timers (ApplicationAPI.rst): when nothing fails, each that has something to
\* register has registered its pairs.  adiak_mpi_library is not called.
AllCollected ==
    Idle /\ call = "collect_all" /\ failed = {}
        => \A r \in Routines \ Unavailable : PairsOf(r) \subseteq DOMAIN registered

\* A routine returns 0 exactly if it has registered its pairs, and what it has
\* registered was there, unless getcwd failed or an object was unloaded meanwhile.
ResultTells ==
    /\ Idle /\ call \in Routines => (result = 0 <=> DOMAIN registered = PairsOf(call))
    /\ "working_directory" \in DOMAIN registered \ failed => registered.working_directory # Garbage
    /\ "libraries" \in DOMAIN registered /\ ~unloaded
         => \A i \in DOMAIN registered.libraries : registered.libraries[i] # Garbage

\* The wall time registered is the time from the start of the process to the call
\* of adiak_fini, and every timer's value is a timeval in its normal form
\* (measure_walltime, adksys_get_times).
WallTimeRight ==
    /\ \A r \in Timers \cap DOMAIN registered : Normal(registered[r])
    /\ "walltime" \in DOMAIN registered
         => Micros(registered.walltime) = MicrosBetween(System.start, now)

\* The loop that measures the command line repeats for ever when the file cannot be
\* read, and the one that reads it on an old EINTR when the file has become shorter
\* than it was measured.
Spinning ==
    /\ Running("cmdline")
    /\ \/ step = "measure" /\ "measure" \in failed
       \/ /\ step = "read" /\ errno = "EINTR" /\ Left <= 0 /\ Want > 0
          /\ retitled \/ "measure" \in failed

\* Every call returns, except in these two states, which it never leaves.
CallsReturn == ~Idle ~> (Idle \/ Spinning)
==============================================================================
