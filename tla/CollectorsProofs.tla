-------------------------- MODULE CollectorsProofs --------------------------
(***************************************************************************)
(* Proofs about the implicit routines: the arithmetic of the timers is     *)
(* exact for all times, and so is what adiak_fini registers; one call      *)
(* never registers a number of hosts that differs from its list of hosts;  *)
(* and what holds between any two steps of a call (CallsInv), and from it  *)
(* the invariants of Collectors.  RoutineInv is about the order of the     *)
(* routines and their results, LibrariesInv about the passes over the      *)
(* loaded libraries, and CmdlineInv about the reading of the command line. *)
(***************************************************************************)
EXTENDS Collectors, LeastNumber, FiniteSetTheorems

\* All that is needed of the number.
LEMMA MicrosPositive == MicrosPerSecond \in Nat \ {0}
BY SMT DEF MicrosPerSecond

\* The subtraction of measure_walltime gives the time from s to e, in normal form,
\* whether or not a second is borrowed.
THEOREM ElapsedExact ==
    ASSUME NEW s, NEW e, Normal(s), Normal(e)
    PROVE  Normal(Elapsed(s, e)) /\ Micros(Elapsed(s, e)) = MicrosBetween(s, e)
<1>1. /\ s.tv_sec \in Int /\ s.tv_usec \in 0..(MicrosPerSecond - 1)
      /\ e.tv_sec \in Int /\ e.tv_usec \in 0..(MicrosPerSecond - 1)
  BY DEF Normal
<1>2. CASE e.tv_usec < s.tv_usec
  <2>1. Elapsed(s, e) = [tv_sec |-> e.tv_sec - s.tv_sec - 1,
                         tv_usec |-> MicrosPerSecond + e.tv_usec - s.tv_usec]
    BY <1>2 DEF Elapsed, Timeval
  <2>2. Elapsed(s, e).tv_usec \in 0..(MicrosPerSecond - 1)
    BY <1>1, <1>2, <2>1, MicrosPositive
  <2>3. (e.tv_sec - s.tv_sec - 1) * MicrosPerSecond
           = (e.tv_sec - s.tv_sec) * MicrosPerSecond - MicrosPerSecond
    BY <1>1, MicrosPositive
  <2>4. (e.tv_sec - s.tv_sec) * MicrosPerSecond \in Int
    BY <1>1, MicrosPositive
  <2> QED BY <1>1, <2>1, <2>2, <2>3, <2>4, MicrosPositive DEF Normal, Micros, MicrosBetween
<1>3. CASE ~(e.tv_usec < s.tv_usec)
  <2>1. Elapsed(s, e) = [tv_sec |-> e.tv_sec - s.tv_sec, tv_usec |-> e.tv_usec - s.tv_usec]
    BY <1>3 DEF Elapsed, Timeval
  <2>2. Elapsed(s, e).tv_usec \in 0..(MicrosPerSecond - 1)
    BY <1>1, <1>3, <2>1, MicrosPositive
  <2> QED BY <1>1, <2>1, <2>2 DEF Normal, Micros, MicrosBetween
<1> QED BY <1>2, <1>3

\* The product of a remainder and a quotient stays below the dividend.
LEMMA RemainderTimesQuotient ==
    ASSUME NEW t \in Nat, NEW n \in Nat \ {0}, NEW m \in Nat \ {0}
    PROVE  (t % n) * (m \div n) \in 0..(m - 1)
<1> DEFINE r == t % n
           q == m \div n
<1>1. r \in 0..(n - 1)
  OBVIOUS
<1>2. q \in Nat /\ m = n * q + (m % n) /\ m % n \in 0..(n - 1)
  OBVIOUS
<1> HIDE DEF r, q
<1>3. n * q <= m
  BY <1>2
<1>4. CASE q = 0
  BY <1>1, <1>4 DEF r, q
<1>5. CASE q # 0
  <2>1. r * q >= 0 /\ r * q \in Int
    BY <1>1, <1>2
  <2>2. r * q < n * q
    <3>1. q > 0 /\ n - r > 0 /\ n - r \in Nat
      BY <1>1, <1>2, <1>5
    <3>2. (n - r) * q > 0
      BY <3>1, <1>2
    <3>3. (n - r) * q = n * q - r * q
      BY <1>1, <1>2
    <3>4. n * q \in Int
      BY <1>2
    <3> QED BY <3>2, <3>3, <3>4, <2>1
  <2>3. r * q \in 0..(m - 1)
    BY <2>1, <2>2, <1>3, <1>2
  <2> QED BY <2>3 DEF r, q
<1> QED BY <1>4, <1>5

\* The conversion of clock ticks gives a timeval in normal form for every tick rate.
THEOREM TicksNormal ==
    ASSUME NEW tics \in Nat, NEW rate \in Nat \ {0}
    PROVE  Normal(TicksToTime(tics, rate))
<1>1. (tics % rate) * (MicrosPerSecond \div rate) \in 0..(MicrosPerSecond - 1)
  BY RemainderTimesQuotient, MicrosPositive
<1>2. tics \div rate \in Int
  OBVIOUS
<1> QED BY <1>1, <1>2 DEF Normal, TicksToTime, Timeval

-----------------------------------------------------------------------------
\* The pairs that the two invariants are about, and a step that registers none of
\* them and changes nothing else that they read.
Watched == {"cputime", "systime", "walltime", "numhosts", "hostlist"}

RegistersOthers ==
    /\ UNCHANGED <<now, hosts, use_mpi>>
    /\ \/ registered' = registered
       \/ \E pairs : DOMAIN pairs \cap Watched = {} /\ registered' = Add(pairs, registered)

\* A routine that returns registers the pairs it is given.
LEMMA FinishRegisters ==
    ASSUME NEW r, NEW pairs, DOMAIN pairs \cap Watched = {}, Finish(r, pairs),
           UNCHANGED <<now, hosts, use_mpi>>
    PROVE  RegistersOthers
BY DEF RegistersOthers, Finish

LEMMA NothingWatched == DOMAIN NoPairs \cap Watched = {}
BY DEF NoPairs

\* The routines of one system call.
LEMMA OneCall ==
    ASSUME NEW r \in DOMAIN Found, CollectOne(r)
    PROVE  RegistersOthers
<1>1. r \notin Watched
  BY DEF Found, Watched
<1>2. \A x : DOMAIN Pair(r, x) \cap Watched = {}
  BY <1>1 DEF Pair
<1>3. UNCHANGED <<now, hosts, use_mpi>>
  BY DEF CollectOne, Simple, answerVars
<1>4. CASE Succeeds(Pair(r, Found[r]))
  BY <1>2, <1>3, <1>4, FinishRegisters DEF Succeeds
<1>5. CASE Fails(r)
  BY <1>3, <1>5, NothingWatched, FinishRegisters DEF Fails
<1>6. CASE Finish(0, Pair(r, Garbage))
  BY <1>2, <1>3, <1>6, FinishRegisters
<1> QED BY <1>4, <1>5, <1>6 DEF CollectOne

\* The routines that ask MPI, but for the list of hosts.
LEMMA MpiCalls ==
    ASSUME adiak_job_size \/ adiak_mpi_version \/ adiak_mpi_library \/ adiak_mpi_library_version
    PROVE  RegistersOthers
<1>1. UNCHANGED <<now, hosts, use_mpi>>
  BY DEF adiak_job_size, adiak_mpi_version, adiak_mpi_library, adiak_mpi_library_version,
         Simple, answerVars
<1>2. \A x : /\ DOMAIN Pair("jobsize", x) \cap Watched = {}
             /\ DOMAIN Pair("mpi_version", x) \cap Watched = {}
             /\ DOMAIN Pair("mpi_library", x) \cap Watched = {}
  BY DEF Watched, Pair
<1>3. \A lib : DOMAIN VendorPairs(lib) \cap Watched = {}
  BY DEF Watched, VendorPairs, Pair, Add
<1>4. CASE adiak_job_size
  BY <1>1, <1>2, <1>4, NothingWatched, FinishRegisters DEF adiak_job_size, Succeeds, Fails
<1>5. CASE adiak_mpi_version
  BY <1>1, <1>2, <1>5, NothingWatched, FinishRegisters DEF adiak_mpi_version, Succeeds
<1>6. CASE adiak_mpi_library
  BY <1>1, <1>2, <1>6, NothingWatched, FinishRegisters DEF adiak_mpi_library, Succeeds, Fails
<1>7. CASE adiak_mpi_library_version
  <2>1. \/ \E lib : Finish(0, VendorPairs(lib))
        \/ Finish(-1, NoPairs)
    BY <1>7 DEF adiak_mpi_library_version, Fails
  <2> QED BY <1>1, <1>3, <2>1, NothingWatched, FinishRegisters
<1> QED BY <1>4, <1>5, <1>6, <1>7

\* The command line and the libraries.
LEMMA ManySteps ==
    ASSUME \/ OpenCmdline \/ MeasureCmdline \/ MeasureForEver \/ ReadBytes \/ ReadNothing \/ ReadError \/ SplitCmdline
           \/ CountLibraries \/ StoreNames \/ adiak_libraries
    PROVE  RegistersOthers
<1>1. UNCHANGED <<now, hosts, use_mpi>>
  BY DEF OpenCmdline, MeasureCmdline, MeasureForEver, ReadBytes, ReadNothing, ReadError, SplitCmdline,
         CountLibraries, StoreNames, adiak_libraries, Cmdline, Libraries, answerVars, processVars
<1>2. \A x : /\ DOMAIN Pair("cmdline", x) \cap Watched = {}
             /\ DOMAIN Pair("libraries", x) \cap Watched = {}
  BY DEF Watched, Pair
<1>3. CASE MeasureCmdline \/ MeasureForEver \/ ReadBytes \/ ReadNothing \/ CountLibraries \/ StoreNames
  BY <1>1, <1>3
     DEF MeasureCmdline, MeasureForEver, ReadBytes, ReadNothing, CountLibraries, StoreNames, callVars, RegistersOthers
<1>4. CASE OpenCmdline
  <2>1. registered' = registered \/ Finish(-1, NoPairs)
    BY <1>4 DEF OpenCmdline, Fails, callVars
  <2> QED BY <1>1, <2>1, NothingWatched, FinishRegisters DEF RegistersOthers
<1>5. CASE ReadError
  BY <1>1, <1>5, NothingWatched, FinishRegisters DEF ReadError, Fails
<1>6. CASE SplitCmdline
  <2>1. \E x : Finish(0, Pair("cmdline", x))
    BY <1>6 DEF SplitCmdline, Succeeds
  <2> QED BY <1>1, <1>2, <2>1, FinishRegisters
<1>7. CASE adiak_libraries
  <2>1. \E x : Finish(0, Pair("libraries", x))
    BY <1>7 DEF adiak_libraries, Succeeds
  <2> QED BY <1>1, <1>2, <2>1, FinishRegisters
<1> QED BY <1>3, <1>4, <1>5, <1>6, <1>7

\* The steps of other threads.
LEMMA OtherThreads ==
    ASSUME Others
    PROVE  RegistersOthers
BY DEF Others, Retitle, Load, Unload, callVars, processVars, answerVars, RegistersOthers

\* A call starts without pairs.
LEMMA CallStarts ==
    ASSUME Call
    PROVE  registered' = NoPairs
BY DEF Call, adiak_collect_all, adiak_fini, Begin

\* Next, as the invariants see it.
LEMMA StepCases ==
    ASSUME [Next]_vars
    PROVE  \/ Call
           \/ RegistersOthers
           \/ MeasureTimes("cputime") \/ MeasureTimes("systime") \/ measure_walltime
           \/ adiak_num_hosts \/ adiak_hostlist
<1>1. CASE UNCHANGED vars
  BY <1>1 DEF vars, callVars, processVars, answerVars, RegistersOthers
<1>2. CASE Collect
  <2>1. CASE \E r \in DOMAIN Found : CollectOne(r)
    BY <2>1, OneCall
  <2> QED BY <1>2, <2>1, MpiCalls, ManySteps DEF Collect
<1> QED BY <1>1, <1>2, OtherThreads DEF Next

-----------------------------------------------------------------------------
\* Every value that adiak_fini registers for a timer is a timeval in normal form,
\* and the wall time is exact, for all times and tick rates.
THEOREM WallTime == Spec => []WallTimeRight
<1> USE CollectorsAssumption DEF CollectorsAssumption
<1>1. Init => WallTimeRight
  BY DEF Init, NoPairs, WallTimeRight
<1>2. WallTimeRight /\ [Next]_vars => WallTimeRight'
  <2> SUFFICES ASSUME WallTimeRight, [Next]_vars PROVE WallTimeRight'
    OBVIOUS
  <2>1. CASE Call
    BY <2>1, CallStarts DEF NoPairs, WallTimeRight
  <2>2. CASE RegistersOthers
    BY <2>2 DEF RegistersOthers, Watched, Timers, Add, WallTimeRight
  <2>3. ASSUME NEW r \in {"cputime", "systime"}, MeasureTimes(r) PROVE WallTimeRight'
    <3>1. now' = now
      BY <2>3 DEF MeasureTimes, answerVars
    <3>2. CASE Fails(r)
      BY <3>1, <3>2 DEF Fails, Finish, NoPairs, Add, WallTimeRight
    <3>3. CASE \E tics \in Ticks : Succeeds(Pair(r, TicksToTime(tics, System.tics_per_sec)))
      <4>1. PICK tics \in Ticks : 
                 registered' = Add(Pair(r, TicksToTime(tics, System.tics_per_sec)), registered)
        BY <3>3 DEF Succeeds, Finish
      <4>2. Normal(TicksToTime(tics, System.tics_per_sec))
        BY TicksNormal
      <4> QED BY <3>1, <4>1, <4>2 DEF Pair, Add, WallTimeRight
    <3> QED BY <2>3, <3>2, <3>3 DEF MeasureTimes
  <2>4. CASE measure_walltime
    <3>1. CASE Fails("walltime") /\ UNCHANGED now
      BY <3>1 DEF Fails, Finish, NoPairs, Add, WallTimeRight
    <3>2. CASE now' \in EndTimes /\ Succeeds(Pair("walltime", Elapsed(System.start, now')))
      <4>1. registered' = Add(Pair("walltime", Elapsed(System.start, now')), registered)
        BY <3>2 DEF Succeeds, Finish
      <4>2. /\ Normal(Elapsed(System.start, now'))
            /\ Micros(Elapsed(System.start, now')) = MicrosBetween(System.start, now')
        BY <3>2, ElapsedExact
      <4> QED BY <4>1, <4>2 DEF Pair, Add, WallTimeRight
    <3> QED BY <2>4, <3>1, <3>2 DEF measure_walltime
  <2>5. CASE adiak_num_hosts \/ adiak_hostlist
    <3>1. now' = now
      BY <2>5 DEF adiak_num_hosts, adiak_hostlist, answerVars
    <3>2. \/ \E x : registered' = Add(Pair("numhosts", x), registered)
          \/ \E x : registered' = Add(Pair("hostlist", x), registered)
          \/ registered' = Add(NoPairs, registered)
      BY <2>5 DEF adiak_num_hosts, adiak_hostlist, Finish
    <3> QED BY <3>1, <3>2 DEF WallTimeRight, Timers, NoPairs, Pair, Add
  <2> QED BY <2>1, <2>2, <2>3, <2>4, <2>5, StepCases
<1> QED BY <1>1, <1>2, PTL DEF Spec

-----------------------------------------------------------------------------
\* The strengthening of NumHostsAgree: both pairs come from the answer kept in hosts.
HostsKept ==
    /\ "numhosts" \in DOMAIN registered /\ use_mpi
         => /\ hosts # "unasked"
            /\ hosts = "list" => registered.numhosts = Len(System.hosts)
    /\ "hostlist" \in DOMAIN registered
         => use_mpi /\ hosts = "list" /\ registered.hostlist = System.hosts

\* The answer, once there, stays, so the number registered first is that of the
\* list registered afterwards.
THEOREM NumHosts == Spec => []NumHostsAgree
<1>1. Init => HostsKept
  BY DEF Init, NoPairs, HostsKept
<1>2. HostsKept /\ [Next]_vars => HostsKept'
  <2> SUFFICES ASSUME HostsKept, [Next]_vars PROVE HostsKept'
    OBVIOUS
  <2>1. CASE Call
    BY <2>1, CallStarts DEF NoPairs, HostsKept
  <2>2. CASE RegistersOthers
    BY <2>2 DEF RegistersOthers, Watched, Add, HostsKept
  <2>3. CASE MeasureTimes("cputime") \/ MeasureTimes("systime") \/ measure_walltime
    <3>1. UNCHANGED <<hosts, use_mpi>>
      BY <2>3 DEF MeasureTimes, measure_walltime, Simple
    <3>2. \/ \E x : registered' = Add(Pair("cputime", x), registered)
          \/ \E x : registered' = Add(Pair("systime", x), registered)
          \/ \E x : registered' = Add(Pair("walltime", x), registered)
          \/ registered' = Add(NoPairs, registered)
      BY <2>3 DEF MeasureTimes, measure_walltime, Succeeds, Fails, Finish
    <3> QED BY <3>1, <3>2 DEF HostsKept, NoPairs, Pair, Add
  <2>4. CASE adiak_num_hosts
    <3>1. use_mpi' = use_mpi
      BY <2>4 DEF adiak_num_hosts, Simple
    <3>2. registered' = Add(Pair("numhosts", IF use_mpi /\ hosts' = "list"
                                           THEN Len(System.hosts) ELSE 1), registered)
      BY <2>4 DEF adiak_num_hosts, Finish
    <3>3. IF use_mpi THEN adksys_hostlist ELSE UNCHANGED hosts
      BY <2>4 DEF adiak_num_hosts
    <3>4. use_mpi => hosts' # "unasked" /\ (hosts # "unasked" => hosts' = hosts)
      BY <3>3 DEF adksys_hostlist
    <3> QED BY <3>1, <3>2, <3>3, <3>4 DEF HostsKept, Pair, Add
  <2>5. CASE adiak_hostlist
    <3>1. use_mpi' = use_mpi
      BY <2>5 DEF adiak_hostlist, Simple
    <3>2. IF use_mpi THEN adksys_hostlist ELSE UNCHANGED hosts
      BY <2>5 DEF adiak_hostlist
    <3>3. use_mpi => hosts' # "unasked" /\ (hosts # "unasked" => hosts' = hosts)
      BY <3>2 DEF adksys_hostlist
    <3>4. \/ /\ use_mpi /\ hosts' = "list"
             /\ registered' = Add(Pair("hostlist", System.hosts), registered)
          \/ registered' = Add(NoPairs, registered)
      BY <2>5 DEF adiak_hostlist, Finish
    <3> QED BY <3>1, <3>2, <3>3, <3>4 DEF HostsKept, NoPairs, Pair, Add
  <2> QED BY <2>1, <2>2, <2>3, <2>4, <2>5, StepCases
<1>3. HostsKept => NumHostsAgree
  BY DEF HostsKept, NumHostsAgree
<1> QED BY <1>1, <1>2, <1>3, PTL DEF Spec

-----------------------------------------------------------------------------
\* The calls of the routines.

\* What one more argument makes of the bytes so far.
With(s, w) == s \o w \o <<NUL>>

\* f[i] is the image of the first i arguments of a, up to the n-th.
Builds(f, a, n, C) ==
    /\ f \in [0..n -> Seq(C)]
    /\ f[0] = << >>
    /\ \A i \in 1..n : f[i] = With(f[i - 1], a[i])

\* A function that builds the image of m - 1 arguments extends to one more.
LEMMA BuildsOneMore ==
    ASSUME NEW C, NUL \in C, NEW a \in Seq(Seq(C)), NEW m \in 1..Len(a), NEW f,
           Builds(f, a, m - 1, C)
    PROVE  \E g : Builds(g, a, m, C)
<1>0. PICK x : x = With(f[m - 1], a[m])
  OBVIOUS
<1>1. x \in Seq(C)
  <2>1. f[m - 1] \in Seq(C) /\ a[m] \in Seq(C) /\ <<NUL>> \in Seq(C)
    BY DEF Builds
  <2> QED BY <1>0, <2>1 DEF With
<1>2. PICK g : g = [i \in 0..m |-> IF i = m THEN x ELSE f[i]]
  OBVIOUS
<1>3. g \in [0..m -> Seq(C)] /\ g[0] = << >>
  BY <1>1, <1>2 DEF Builds
<1>4. ASSUME NEW i \in 1..m PROVE g[i] = With(g[i - 1], a[i])
  <2>1. CASE i = m
    <3>1. g[i] = x /\ g[i - 1] = f[m - 1]
      BY <1>2, <2>1
    <3> QED BY <3>1, <2>1, <1>0
  <2>2. CASE i # m
    <3>1. i \in 1..(m - 1) /\ g[i] = f[i] /\ g[i - 1] = f[i - 1]
      BY <1>2, <2>2
    <3> QED BY <3>1 DEF Builds
  <2> QED BY <2>1, <2>2
<1> QED BY <1>3, <1>4 DEF Builds

\* Some function builds the image of all arguments, argument by argument.
LEMMA BuildsExists ==
    ASSUME NEW C, NUL \in C, NEW a \in Seq(Seq(C))
    PROVE  \E f : Builds(f, a, Len(a), C)
<1> DEFINE S == {m \in 0..Len(a) : \E f : Builds(f, a, m, C)}
<1>1. 0 \in S
  <2>1. Builds([i \in 0..0 |-> << >>], a, 0, C)
    BY DEF Builds
  <2> QED BY <2>1
<1>2. \A m \in 1..Len(a) : m - 1 \in S => m \in S
  BY BuildsOneMore
<1>3. S \subseteq 0..Len(a) /\ Len(a) \in Nat
  OBVIOUS
<1>4. Len(a) \in S
  <2> HIDE DEF S
  <2>1. Len(a) \in 0..Len(a)
    BY <1>3
  <2> QED BY <1>1, <1>2, <1>3, <2>1, Induction
<1> QED BY <1>4

\* Image, a fold over the arguments, is what such a function ends with.
LEMMA ImageBuilds ==
    ASSUME NEW C, NUL \in C, NEW a \in Seq(Seq(C))
    PROVE  \E f : Builds(f, a, Len(a), C) /\ Image(a) = f[Len(a)]
<1> DEFINE R(h) == h = [i \in 0..Len(a) |->
                          IF i = 0 THEN << >> ELSE With(h[i - 1], a[i])]
<1>2. PICK f : Builds(f, a, Len(a), C)
  BY BuildsExists
<1>3. R(f)
  <2>1. ASSUME NEW i \in 0..Len(a)
        PROVE  f[i] = IF i = 0 THEN << >> ELSE With(f[i - 1], a[i])
    <3>1. i = 0 \/ i \in 1..Len(a)
      OBVIOUS
    <3> QED BY <1>2, <3>1 DEF Builds
  <2> QED BY <1>2, <2>1 DEF Builds
<1>4. PICK h : R(h) /\ Image(a) = h[Len(a)]
  <2>1. R(CHOOSE h : R(h))
    BY <1>3
  <2>2. Image(a) = (CHOOSE h : R(h))[Len(a)]
    BY DEF Image, With
  <2> HIDE DEF R
  <2> QED BY <2>1, <2>2
<1>5. h[0] = << >> /\ \A i \in 1..Len(a) : h[i] = With(h[i - 1], a[i])
  <2>1. \A i \in 0..Len(a) : h[i] = IF i = 0 THEN << >> ELSE With(h[i - 1], a[i])
    BY <1>4
  <2>2. 0 \in 0..Len(a) /\ \A i \in 1..Len(a) : i \in 0..Len(a) /\ i # 0
    OBVIOUS
  <2> QED BY <2>1, <2>2
<1> DEFINE S == {i \in 0..Len(a) : h[i] = f[i]}
<1>6. 0 \in S
  BY <1>2, <1>5 DEF Builds
<1>7. ASSUME NEW i \in 1..Len(a), i - 1 \in S PROVE i \in S
  <2>1. h[i - 1] = f[i - 1]
    BY <1>7
  <2>2. f[i] = With(f[i - 1], a[i])
    BY <1>2 DEF Builds
  <2>3. h[i] = With(h[i - 1], a[i])
    BY <1>5
  <2>4. h[i] = f[i]
    BY <2>1, <2>2, <2>3
  <2> QED BY <2>4
<1>8. Len(a) \in S
  <2>1. S \subseteq 0..Len(a) /\ Len(a) \in Nat /\ Len(a) \in 0..Len(a)
    OBVIOUS
  <2> HIDE DEF S
  <2> QED BY <1>6, <1>7, <2>1, Induction
<1> QED BY <1>2, <1>4, <1>8

-----------------------------------------------------------------------------
\* The numbers of a set up to x.
Below(S, x) == {k \in S : k <= x}

\* Nth, in terms of Below.
LEMMA NthBelow ==
    ASSUME NEW S, NEW j
    PROVE  Nth(S, j) = CHOOSE i \in S : Cardinality(Below(S, i)) = j
BY DEF Nth, Below

\* The j-th number of an increasing sequence is the j-th number of the set of its entries.
LEMMA NthOfIncreasing ==
    ASSUME NEW n \in Nat, NEW e \in [1..n -> Nat],
           \A i, k \in 1..n : i < k => e[i] < e[k],
           NEW S, S = {e[i] : i \in 1..n}
    PROVE  /\ IsFiniteSet(S) /\ Cardinality(S) = n
           /\ \A j \in 1..n : Nth(S, j) = e[j]
<1> DEFINE T(j) == {e[i] : i \in 1..j}
<1>1. ASSUME NEW j \in 0..n PROVE IsFiniteSet(T(j)) /\ Cardinality(T(j)) = j
  <2> DEFINE b == [i \in 1..j |-> e[i]]
  <2>1. b \in [1..j -> T(j)] /\ \A x \in T(j) : \E i \in 1..j : b[i] = x
    OBVIOUS
  <2>2. \A i, k \in 1..j : b[i] = b[k] => i = k
    <3> SUFFICES ASSUME NEW i \in 1..j, NEW k \in 1..j, e[i] = e[k], i # k PROVE FALSE
      OBVIOUS
    <3>1. i \in 1..n /\ k \in 1..n /\ (i < k \/ k < i) /\ e[i] \in Nat
      OBVIOUS
    <3> QED BY <3>1
  <2>3. DOMAIN b = 1..j
    OBVIOUS
  <2> HIDE DEF b, T
  <2>4. b \in Bijection(1..j, T(j))
    BY <2>1, <2>2, <2>3 DEF Bijection, Injection, Surjection, IsInjective
  <2>5. ExistsBijection(1..j, T(j)) /\ j \in Nat
    BY <2>4 DEF ExistsBijection
  <2>6. IsFiniteSet(T(j))
    BY <2>5, FS_NatBijection
  <2> QED BY <2>5, <2>6, FS_CountingElements
<1>2. ASSUME NEW j \in 1..n PROVE Below(S, e[j]) = T(j)
  <2>1. ASSUME NEW i \in 1..n PROVE e[i] <= e[j] <=> i \in 1..j
    <3>1. i < j \/ i = j \/ j < i
      OBVIOUS
    <3>2. e[i] \in Nat /\ e[j] \in Nat
      OBVIOUS
    <3> QED BY <3>1, <3>2
  <2>2. 1..j \subseteq 1..n
    OBVIOUS
  <2> QED BY <2>1, <2>2 DEF Below
<1>3. \A i \in 1..n : e[i] \in S /\ \A x \in S : \E k \in 1..n : x = e[k]
  OBVIOUS
<1>4. S = T(n) /\ n \in 0..n /\ 1..n \subseteq 0..n
  OBVIOUS
<1> HIDE DEF T
<1>5. \A j \in 1..n : Cardinality(Below(S, e[j])) = j
  BY <1>1, <1>2, <1>4
<1>6. ASSUME NEW j \in 1..n PROVE Nth(S, j) = e[j]
  <2>1. ASSUME NEW x \in S, Cardinality(Below(S, x)) = j PROVE x = e[j]
    <3>1. PICK k \in 1..n : x = e[k]
      BY <1>3
    <3>2. Cardinality(Below(S, e[k])) = k
      BY <1>5
    <3> QED BY <2>1, <3>1, <3>2
  <2> QED BY <1>3, <1>5, <2>1, NthBelow
<1> QED BY <1>1, <1>4, <1>6

\* Every number up to its size is the place of an entry of a finite set.
LEMMA NthIn ==
    ASSUME NEW n \in Nat, NEW S, S \subseteq 1..n
    PROVE  /\ IsFiniteSet(S) /\ Cardinality(S) \in Nat
           /\ \A j \in 1..Cardinality(S) : Nth(S, j) \in S
<1>1. IsFiniteSet(S) /\ Cardinality(S) \in Nat
  <2>1. IsFiniteSet(1..n)
    BY FS_Interval
  <2>2. IsFiniteSet(S)
    BY <2>1, FS_Subset
  <2> QED BY <2>2, FS_CardinalityType
<1>2. ASSUME NEW x PROVE IsFiniteSet(Below(S, x)) /\ Cardinality(Below(S, x)) \in Nat
  <2>1. Below(S, x) \in SUBSET S
    BY DEF Below
  <2>2. IsFiniteSet(Below(S, x))
    BY <1>1, <2>1, FS_Subset
  <2> QED BY <2>2, FS_CardinalityType
<1>0. \A k \in S : k \in 1..n
  OBVIOUS
<1>3. Below(S, n) = S /\ Below(S, 0) = {}
  <2>1. \A k \in S : k <= n /\ ~(k <= 0)
    BY <1>0
  <2> QED BY <2>1 DEF Below
<1>4. ASSUME NEW x \in 1..n, x \notin S PROVE Below(S, x) = Below(S, x - 1)
  <2>1. \A k \in S : k <= x <=> k <= x - 1
    BY <1>0, <1>4
  <2> QED BY <2>1 DEF Below
<1>5. ASSUME NEW x \in 1..n, x \in S
      PROVE  Below(S, x) = Below(S, x - 1) \cup {x} /\ x \notin Below(S, x - 1)
  <2>1. \A k \in S : k <= x <=> k <= x - 1 \/ k = x
    BY <1>0
  <2>2. x <= x /\ ~(x <= x - 1)
    OBVIOUS
  <2> QED BY <1>5, <2>1, <2>2 DEF Below
<1>6. ASSUME NEW j \in 1..Cardinality(S) PROVE Nth(S, j) \in S
  <2> DEFINE R == {x \in 0..n : j <= Cardinality(Below(S, x))}
  <2>1. PICK x \in R : \A y \in R : x <= y
    <3>1. n \in R /\ R \subseteq Nat
      BY <1>1, <1>3
    <3> HIDE DEF R
    <3> QED BY <3>1, LeastExists
  <2>2. x # 0
    <3>1. Cardinality(Below(S, 0)) = 0
      BY <1>3, FS_EmptySet
    <3> QED BY <3>1
  <2>3. x \in 1..n /\ x - 1 \in 0..n /\ x - 1 \notin R
    <3>1. x \in 0..n
      OBVIOUS
    <3> HIDE DEF R
    <3> QED BY <2>1, <2>2, <3>1
  <2>4. /\ Cardinality(Below(S, x - 1)) < j /\ j <= Cardinality(Below(S, x))
        /\ Cardinality(Below(S, x - 1)) \in Nat /\ Cardinality(Below(S, x)) \in Nat
    <3>1. Cardinality(Below(S, x - 1)) \in Nat /\ Cardinality(Below(S, x)) \in Nat /\ j \in Nat
      BY <1>1, <1>2
    <3>2. ~(j <= Cardinality(Below(S, x - 1))) /\ j <= Cardinality(Below(S, x))
      BY <2>3
    <3> QED BY <3>1, <3>2
  <2>5. x \in S
    BY <1>4, <2>3, <2>4
  <2>6. Cardinality(Below(S, x)) = Cardinality(Below(S, x - 1)) + 1
    BY <1>2, <1>5, <2>3, <2>5, FS_AddElement
  <2>7. Cardinality(Below(S, x)) = j
    BY <2>4, <2>6
  <2> QED BY <2>5, <2>7, NthBelow
<1> QED BY <1>1, <1>6

-----------------------------------------------------------------------------
\* The bytes of one more argument.
LEMMA OneArgument ==
    ASSUME NEW C, NUL \in C, NEW s \in Seq(C), NEW w \in Seq(C), NEW t, t = With(s, w)
    PROVE  /\ t \in Seq(C) /\ Len(t) = Len(s) + Len(w) + 1 /\ t[Len(t)] = NUL
           /\ \A q \in 1..Len(s) : t[q] = s[q]
           /\ \A q \in 1..Len(w) : t[Len(s) + q] = w[q]
<1>1. PICK u : u = s \o w
  OBVIOUS
<1>2. /\ u \in Seq(C) /\ Len(u) = Len(s) + Len(w)
      /\ \A q \in 1..Len(s) : u[q] = s[q]
      /\ \A q \in 1..Len(w) : u[Len(s) + q] = w[q]
  BY <1>1
<1>3. t = u \o <<NUL>>
  BY <1>1 DEF With
<1>4. /\ t \in Seq(C) /\ Len(t) = Len(u) + 1 /\ t[Len(t)] = NUL
      /\ \A q \in 1..Len(u) : t[q] = u[q]
  <2>1. <<NUL>> \in Seq(C) /\ Len(<<NUL>>) = 1 /\ <<NUL>>[1] = NUL /\ u \in Seq(C)
    BY <1>2
  <2>2. t \in Seq(C) /\ Len(t) = Len(u) + 1 /\ \A q \in 1..Len(u) : t[q] = u[q]
    BY <1>3, <2>1
  <2>3. t[Len(u) + 1] = NUL
    BY <1>3, <2>1
  <2> QED BY <2>2, <2>3
<1>5. Len(s) \in Nat /\ Len(w) \in Nat
  OBVIOUS
<1>6. \A q \in 1..Len(s) : q \in 1..Len(u)
  BY <1>2, <1>5
<1>7. \A q \in 1..Len(w) : Len(s) + q \in 1..Len(u)
  BY <1>2, <1>5
<1> QED BY <1>2, <1>4, <1>6, <1>7

\* One more argument adds one NUL, at the end.
LEMMA OneMoreNul ==
    ASSUME NEW C, NUL \in C, NEW s \in Seq(C), NEW w \in Seq(C), NEW t, t = With(s, w),
           NUL \notin Entries(w)
    PROVE  Nuls(t) = Nuls(s) \cup {Len(t)}
<1>1. /\ t \in Seq(C) /\ Len(t) = Len(s) + Len(w) + 1 /\ t[Len(t)] = NUL
      /\ \A q \in 1..Len(s) : t[q] = s[q]
      /\ \A q \in 1..Len(w) : t[Len(s) + q] = w[q]
  <2>1. t \in Seq(C) /\ Len(t) = Len(s) + Len(w) + 1 /\ t[Len(t)] = NUL
    BY OneArgument
  <2>2. \A q \in 1..Len(s) : t[q] = s[q]
    BY OneArgument
  <2>3. \A q \in 1..Len(w) : t[Len(s) + q] = w[q]
    BY OneArgument
  <2> QED BY <2>1, <2>2, <2>3
<1>2. DOMAIN s = 1..Len(s) /\ DOMAIN t = 1..Len(t) /\ Len(s) \in Nat /\ Len(w) \in Nat
  BY <1>1
<1>3. \A q \in 1..Len(w) : w[q] # NUL
  BY DEF Entries
<1>4. ASSUME NEW q \in 1..Len(t) PROVE t[q] = NUL <=> q \in Nuls(s) \cup {Len(t)}
  <2>1. CASE q \in 1..Len(s)
    <3>1. q # Len(t)
      BY <2>1, <1>1, <1>2
    <3> QED BY <2>1, <3>1, <1>1, <1>2 DEF Nuls
  <2>2. CASE q \in (Len(s) + 1)..(Len(s) + Len(w))
    <3>1. q - Len(s) \in 1..Len(w) /\ q = Len(s) + (q - Len(s)) /\ q # Len(t) /\ q \notin 1..Len(s)
      BY <2>2, <1>1, <1>2
    <3>2. t[q] # NUL
      BY <3>1, <1>1, <1>3
    <3> QED BY <3>1, <3>2, <1>2 DEF Nuls
  <2>3. CASE q = Len(t)
    BY <2>3, <1>1
  <2>4. q \in 1..Len(s) \/ q \in (Len(s) + 1)..(Len(s) + Len(w)) \/ q = Len(t)
    <3>1. Len(s) \in Nat /\ Len(w) \in Nat /\ Len(t) = Len(s) + Len(w) + 1
      BY <1>1, <1>2
    <3> QED BY <3>1
  <2> QED BY <2>1, <2>2, <2>3, <2>4
<1>5. Nuls(s) \cup {Len(t)} \subseteq 1..Len(t)
  BY <1>1, <1>2 DEF Nuls
<1> QED BY <1>2, <1>4, <1>5 DEF Nuls

\* t begins with s, and is longer unless they are the same.
Begins(s, t) == Len(s) <= Len(t) /\ \A q \in 1..Len(s) : t[q] = s[q]

\* Being an initial part is transitive.
LEMMA BeginsTransitive ==
    ASSUME NEW C, NEW r \in Seq(C), NEW s \in Seq(C), NEW t \in Seq(C), Begins(r, s), Begins(s, t)
    PROVE  Begins(r, t)
<1>1. Len(r) \in Nat /\ Len(s) \in Nat /\ Len(t) \in Nat
  OBVIOUS
<1> QED BY <1>1 DEF Begins

\* The image of the first arguments ends with a NUL for each, and the longer ones begin with it.
LEMMA BuildsInOrder ==
    ASSUME NEW C, NUL \in C, NEW a \in Seq(Seq(C)), NEW f, Builds(f, a, Len(a), C),
           \A i \in 1..Len(a) : NUL \notin Entries(a[i])
    PROVE  /\ \A j \in 0..Len(a) : f[j] \in Seq(C)
           /\ \A j \in 0..Len(a) : \A i \in 0..j :
                 Begins(f[i], f[j]) /\ (i < j => Len(f[i]) < Len(f[j]))
           /\ Nuls(f[Len(a)]) = {Len(f[i]) : i \in 1..Len(a)}
<1> DEFINE S == {j \in 0..Len(a) :
                   /\ \A i \in 0..j : Begins(f[i], f[j]) /\ (i < j => Len(f[i]) < Len(f[j]))
                   /\ Nuls(f[j]) = {Len(f[i]) : i \in 1..j}}
<1>1. \A j \in 0..Len(a) : f[j] \in Seq(C)
  BY DEF Builds
<1>2. 0 \in S
  <2>1. f[0] = << >> /\ Nuls(f[0]) = {}
    BY DEF Builds, Nuls
  <2>2. Begins(f[0], f[0])
    BY <2>1 DEF Begins
  <2>3. {Len(f[i]) : i \in 1..0} = {}
    OBVIOUS
  <2> QED BY <2>1, <2>2, <2>3
<1>3. ASSUME NEW j \in 1..Len(a), j - 1 \in S PROVE j \in S
  <2>0. /\ \A i \in 0..(j - 1) : Begins(f[i], f[j - 1])
        /\ Nuls(f[j - 1]) = {Len(f[i]) : i \in 1..(j - 1)}
    BY <1>3
  <2> HIDE DEF S
  <2>1. f[j - 1] \in Seq(C) /\ f[j] \in Seq(C) /\ a[j] \in Seq(C)
    <3>1. j - 1 \in 0..Len(a) /\ j \in 0..Len(a)
      OBVIOUS
    <3> QED BY <1>1, <3>1
  <2>2. PICK s \in Seq(C), w \in Seq(C), t \in Seq(C) :
           s = f[j - 1] /\ w = a[j] /\ t = f[j] /\ t = With(s, w) /\ NUL \notin Entries(w)
    BY <2>1 DEF Builds
  <2>3. Len(t) = Len(s) + Len(w) + 1 /\ \A q \in 1..Len(s) : t[q] = s[q]
    <3>1. t = With(s, w)
      BY <2>2
    <3> QED BY <3>1, OneArgument
  <2>4. /\ Len(s) \in Nat /\ Len(w) \in Nat /\ Len(t) \in Nat
        /\ Len(s) < Len(t) /\ Len(s) <= Len(t) /\ Len(t) <= Len(t)
    BY <2>3
  <2>5. Begins(s, t) /\ Begins(t, t)
    BY <2>3, <2>4 DEF Begins
  <2>6. ASSUME NEW i \in 0..j PROVE Begins(f[i], f[j]) /\ (i < j => Len(f[i]) < Len(f[j]))
    <3>1. CASE i = j
      <4>1. ~(i < j)
        BY <3>1
      <4>2. f[i] = t /\ f[j] = t
        BY <2>2, <3>1
      <4> QED BY <2>5, <4>1, <4>2
    <3>2. CASE i # j
      <4>1. i \in 0..(j - 1) /\ f[i] \in Seq(C)
        BY <1>1, <3>2
      <4>2. PICK r \in Seq(C) : r = f[i] /\ Begins(r, s)
        BY <2>0, <2>2, <4>1
      <4>3. Begins(r, t)
        BY <2>2, <2>5, <4>2, BeginsTransitive
      <4>4. Len(r) < Len(t)
        <5>1. Len(r) \in Nat /\ Len(r) <= Len(s)
          BY <4>2 DEF Begins
        <5> QED BY <2>4, <5>1
      <4> QED BY <2>2, <4>2, <4>3, <4>4
    <3> QED BY <3>1, <3>2
  <2>7. Nuls(t) = Nuls(s) \cup {Len(t)}
    BY <2>2, OneMoreNul
  <2>8. {Len(f[i]) : i \in 1..j} = {Len(f[i]) : i \in 1..(j - 1)} \cup {Len(f[j])}
    <3>1. 1..j = 1..(j - 1) \cup {j}
      OBVIOUS
    <3> QED BY <3>1
  <2>9. Nuls(f[j]) = {Len(f[i]) : i \in 1..j}
    BY <2>0, <2>2, <2>7, <2>8
  <2> QED BY <2>6, <2>9 DEF S
<1>4. \A j \in 0..Len(a) : j \in S
  <2>1. S \subseteq 0..Len(a) /\ Len(a) \in Nat
    OBVIOUS
  <2> HIDE DEF S
  <2> QED BY <1>2, <1>3, <2>1, Induction
<1>5. Len(a) \in 0..Len(a)
  OBVIOUS
<1> QED BY <1>1, <1>4, <1>5

\* What adiak_cmdline makes of the bytes of an argument vector is the vector.
LEMMA ArgumentsComeBack ==
    ASSUME NEW C, NUL \in C, NEW a \in Seq(Seq(C)),
           \A i \in 1..Len(a) : NUL \notin Entries(a[i])
    PROVE  Image(a) \in Seq(C) /\ myargv(Image(a)) = a
<1>1. PICK n \in Nat : n = Len(a)
  OBVIOUS
<1>2. PICK f : Builds(f, a, n, C) /\ Image(a) = f[n]
  BY <1>1, ImageBuilds
<1>3. /\ \A j \in 0..n : f[j] \in Seq(C)
      /\ \A j \in 0..n : \A i \in 0..j : Begins(f[i], f[j]) /\ (i < j => Len(f[i]) < Len(f[j]))
      /\ Nuls(f[n]) = {Len(f[i]) : i \in 1..n}
  BY <1>1, <1>2, BuildsInOrder
<1>4. PICK e : e = [i \in 1..n |-> Len(f[i])]
  OBVIOUS
<1>5. e \in [1..n -> Nat] /\ \A i, k \in 1..n : i < k => e[i] < e[k]
  <2>1. \A i \in 1..n : f[i] \in Seq(C) /\ Len(f[i]) \in Nat
    BY <1>3
  <2>2. ASSUME NEW i \in 1..n, NEW k \in 1..n, i < k PROVE e[i] < e[k]
    <3>1. k \in 0..n /\ i \in 0..k
      BY <2>2
    <3> QED BY <1>3, <1>4, <2>2, <3>1
  <2> QED BY <1>4, <2>1, <2>2
<1>6. PICK N : N = Nuls(Image(a)) /\ N = {e[i] : i \in 1..n}
  BY <1>2, <1>3, <1>4
<1>7. Cardinality(N) = n /\ \A j \in 1..n : Nth(N, j) = e[j]
  BY <1>5, <1>6, NthOfIncreasing
<1>8. \A j \in 0..n : Nul(Image(a), j) = Len(f[j])
  <2>1. Nul(Image(a), 0) = 0 /\ Len(f[0]) = 0
    BY <1>2 DEF Nul, Builds
  <2>2. \A j \in 1..n : Nul(Image(a), j) = e[j] /\ e[j] = Len(f[j])
    BY <1>4, <1>6, <1>7 DEF Nul
  <2>3. \A j \in 0..n : j = 0 \/ j \in 1..n
    OBVIOUS
  <2> QED BY <2>1, <2>2, <2>3
<1>9. ASSUME NEW j \in 1..n
      PROVE  SubSeq(Image(a), Nul(Image(a), j - 1) + 1, Nul(Image(a), j) - 1) = a[j]
  <2>1. j - 1 \in 0..n /\ j \in 0..n /\ n \in 0..n /\ j \in 1..Len(a)
    BY <1>1
  <2>2. PICK s \in Seq(C), w \in Seq(C), t \in Seq(C), u \in Seq(C) :
           /\ s = f[j - 1] /\ w = a[j] /\ t = f[j] /\ u = Image(a)
           /\ t = With(s, w) /\ Begins(t, u)
    <3>1. f[j] = With(f[j - 1], a[j])
      BY <1>1, <1>2, <2>1 DEF Builds
    <3>2. f[j - 1] \in Seq(C) /\ f[j] \in Seq(C) /\ f[n] \in Seq(C) /\ a[j] \in Seq(C)
      BY <1>3, <2>1
    <3>3. Begins(f[j], f[n])
      BY <1>3, <2>1
    <3> QED BY <1>2, <3>1, <3>2, <3>3
  <2>3. /\ Len(t) = Len(s) + Len(w) + 1
        /\ \A q \in 1..Len(w) : t[Len(s) + q] = w[q]
    <3>1. t = With(s, w)
      BY <2>2
    <3> QED BY <3>1, OneArgument
  <2>4. /\ Len(s) \in Nat /\ Len(w) \in Nat /\ Len(u) \in Nat /\ Len(t) <= Len(u)
        /\ \A q \in 1..Len(t) : u[q] = t[q]
    BY <2>2 DEF Begins
  <2>5. ASSUME NEW q \in 1..Len(w) PROVE u[Len(s) + q] = w[q]
    <3>1. Len(s) + q \in 1..Len(t)
      BY <2>3, <2>4
    <3> QED BY <2>3, <2>4, <3>1
  <2>6. SubSeq(u, Len(s) + 1, Len(t) - 1) = w
    <3>1. PICK l \in Nat, m \in Nat : l = Len(s) /\ m = Len(w) /\ Len(t) - 1 = l + m /\ l + m <= Len(u)
      BY <2>3, <2>4
    <3>2. SubSeq(u, l + 1, l + m) = [q \in 1..m |-> u[l + q]]
      BY <3>1
    <3>3. w = [q \in 1..m |-> w[q]]
      BY <3>1
    <3> QED BY <2>5, <3>1, <3>2, <3>3
  <2> QED BY <1>8, <2>1, <2>2, <2>6
<1>10. myargv(Image(a)) = [j \in 1..n |-> a[j]]
  BY <1>6, <1>7, <1>9 DEF myargv
<1>11. a = [j \in 1..n |-> a[j]]
  BY <1>1
<1>12. n \in 0..n
  OBVIOUS
<1> QED BY <1>2, <1>3, <1>10, <1>11, <1>12

-----------------------------------------------------------------------------
\* The vendors that the library is looked up among, and that each version string gives its own.
Known == {Vendors[i].vendor : i \in DOMAIN Vendors}
VendorsTold ==
    \A m \in MpiInfos : adksys_mpi_library_version(m.info)
                           = IF m.library.vendor \in Known THEN m.library ELSE NoLibrary

\* A step in which routine r returns res and registers the pairs.
Returned(r, res, pairs) ==
    /\ r \in Routines \cup Timers /\ Running(r) /\ res \in {0, -1} /\ Finish(res, pairs)
    /\ DOMAIN pairs = (IF res = 0 THEN PairsOf(r) ELSE {})
    /\ use_mpi' = use_mpi
    /\ failed' = failed \/ \E x \in {r, "hosts"} : Fault(x)
    /\ r \in failed' => r \in failed \/ res = -1 \/ r = "working_directory"
    /\ VendorsTold \/ r # "mpi_library_version"
         => /\ res = -1 => r \in failed' \/ r \in Unavailable'
            /\ res = 0 => r \notin Unavailable'
    /\ r = "mpi_library_version"
         => \/ mpi_info' = mpi_info /\ res = -1
            \/ \E m \in MpiInfos : \E lib \in {adksys_mpi_library_version(m.info)} :
                 mpi_info' = m.library /\ (res = 0 => pairs = VendorPairs(lib) /\ lib # NoLibrary)
    /\ r = "adiakversion" => res = 0
    /\ r = "working_directory" => res = 0 /\ (r \notin failed' => pairs[r] = System.cwd)
    /\ \/ hosts' = hosts
       \/ hosts = "unasked" /\ r \in {"numhosts", "hostlist"} /\ hosts' \in {"list", "error"}
    /\ r \in {"numhosts", "hostlist"} /\ use_mpi => hosts' # "unasked"
    /\ r # "mpi_library_version" => mpi_info' = mpi_info
    /\ now' = now \/ now' \in EndTimes

\* A step within a routine, or of another thread.
Within ==
    /\ UNCHANGED <<callVars, use_mpi, hosts, answerVars>>
    /\ failed' = failed \/ Fault("measure")

\* What Unavailable says, routine by routine.
LEMMA UnavailableIs ==
    ASSUME NEW r
    PROVE  r \in Unavailable
             <=> \/ r \in {"hostlist", "mpi_version", "mpi_library", "mpi_library_version"} /\ ~use_mpi
                 \/ r = "hostlist" /\ hosts = "error"
                 \/ r = "mpi_library_version" /\ mpi_info.vendor \notin Known
BY DEF Unavailable, Known

\* The routines and what Found holds, spelled out.
LEMMA AllRoutines ==
    /\ Routines = {"adiakversion", "user", "uid", "launchdate", "launchday", "executable",
                    "executablepath", "working_directory", "libraries", "cmdline", "hostname",
                    "cluster", "jobsize", "numhosts", "hostlist", "mpi_version",
                    "mpi_library_version", "mpi_library"}
    /\ DOMAIN Found = {"adiakversion", "user", "uid", "launchdate", "launchday", "executable",
                       "executablepath", "working_directory", "hostname", "cluster"}
    /\ Found["working_directory"] = System.cwd
<1>1. DOMAIN CollectOrder = 1..17
  BY DEF CollectOrder
<1>2. 1..17 = {1, 2, 3, 4, 5, 6, 7, 8, 9, 10, 11, 12, 13, 14, 15, 16, 17}
  OBVIOUS
<1>3. {CollectOrder[i] : i \in DOMAIN CollectOrder}
         = {"adiakversion", "user", "uid", "launchdate", "launchday", "executable",
            "executablepath", "working_directory", "libraries", "cmdline", "hostname",
            "cluster", "jobsize", "numhosts", "hostlist", "mpi_version", "mpi_library_version"}
  BY <1>1, <1>2 DEF CollectOrder
<1> QED BY <1>3 DEF Routines, Found

\* A routine that registers what it finds, or fails, returns in one step.
LEMMA OneCallReturns ==
    ASSUME NEW r \in DOMAIN Found, CollectOne(r)
    PROVE  \E res, pairs : Returned(r, res, pairs)
<1>1. /\ r \in Routines
      /\ r \notin {"hostlist", "mpi_version", "mpi_library", "mpi_library_version", "numhosts"}
  BY AllRoutines
<1>2. PairsOf(r) = {r} /\ \A x : DOMAIN Pair(r, x) = {r} /\ Pair(r, x)[r] = x
  BY <1>1 DEF PairsOf, Pair
<1>3. Running(r) /\ UNCHANGED <<use_mpi, hosts, mpi_info, now>>
  BY DEF CollectOne, Simple, answerVars
<1>4. r \notin Unavailable'
  BY <1>1 DEF Unavailable
<1>5. CASE Succeeds(Pair(r, Found[r]))
  <2>1. failed' = failed /\ Finish(0, Pair(r, Found[r]))
    BY <1>5 DEF Succeeds
  <2>2. r \notin failed' => Pair(r, Found[r])[r] = Found[r]
    BY <1>2
  <2>3. Returned(r, 0, Pair(r, Found[r]))
    BY <1>1, <1>2, <1>3, <1>4, <2>1, <2>2, AllRoutines DEF Returned
  <2> QED BY <2>3
<1>6. CASE r \notin {"adiakversion", "working_directory"} /\ Fails(r)
  <2>1. Fault(r) /\ Finish(-1, NoPairs) /\ r \in failed' /\ DOMAIN NoPairs = {}
    BY <1>6 DEF Fails, Fault, NoPairs
  <2>2. Returned(r, -1, NoPairs)
    BY <1>1, <1>3, <1>6, <2>1 DEF Returned
  <2> QED BY <2>2
<1>7. CASE r = "working_directory" /\ Fault(r) /\ Finish(0, Pair(r, Garbage))
  <2>1. r \in failed'
    BY <1>7 DEF Fault
  <2>2. Returned(r, 0, Pair(r, Garbage))
    BY <1>1, <1>2, <1>3, <1>4, <1>7, <2>1 DEF Returned
  <2> QED BY <2>2
<1> QED BY <1>5, <1>6, <1>7 DEF CollectOne

\* UnavailableIs, after a step.
LEMMA UnavailableNext ==
    ASSUME NEW r
    PROVE  r \in Unavailable'
             <=> \/ r \in {"hostlist", "mpi_version", "mpi_library", "mpi_library_version"} /\ ~use_mpi'
                 \/ r = "hostlist" /\ hosts' = "error"
                 \/ r = "mpi_library_version" /\ mpi_info'.vendor \notin Known
BY DEF Unavailable, Known

\* So does one whose system call fails.
LEMMA FailureReturns ==
    ASSUME NEW r \in (Routines \cup Timers) \ {"adiakversion", "working_directory"},
           Running(r), Fails(r), UNCHANGED <<use_mpi, hosts, answerVars>>,
           ~(r \in {"numhosts", "hostlist"} /\ use_mpi)
    PROVE  Returned(r, -1, NoPairs)
<1>1. Fault(r) /\ Finish(-1, NoPairs) /\ r \in failed' /\ DOMAIN NoPairs = {}
  BY DEF Fails, Fault, NoPairs
<1>2. UNCHANGED <<use_mpi, hosts, mpi_info, now>>
  BY DEF answerVars
<1> QED BY <1>1, <1>2 DEF Returned

\* adiak_job_size returns in one step.
LEMMA JobSizeReturns ==
    ASSUME adiak_job_size
    PROVE  \E res, pairs : Returned("jobsize", res, pairs)
<1>1. Running("jobsize") /\ UNCHANGED <<use_mpi, hosts, mpi_info, now>> /\ "jobsize" \in Routines
  BY AllRoutines DEF adiak_job_size, Simple, answerVars
<1>2. CASE Fails("jobsize")
  BY <1>1, <1>2, FailureReturns DEF answerVars
<1>3. ASSUME NEW x, Succeeds(Pair("jobsize", x)) PROVE Returned("jobsize", 0, Pair("jobsize", x))
  <2>1. "jobsize" \notin Unavailable' /\ DOMAIN Pair("jobsize", x) = PairsOf("jobsize")
    BY UnavailableNext DEF Pair, PairsOf
  <2>2. failed' = failed /\ Finish(0, Pair("jobsize", x))
    BY <1>3 DEF Succeeds
  <2> QED BY <1>1, <2>1, <2>2 DEF Returned
<1> QED BY <1>2, <1>3 DEF adiak_job_size

\* adiak_mpi_version returns in one step.
LEMMA MpiVersionReturns ==
    ASSUME adiak_mpi_version
    PROVE  \E res, pairs : Returned("mpi_version", res, pairs)
<1>1. /\ Running("mpi_version") /\ UNCHANGED <<use_mpi, hosts, mpi_info, now>>
      /\ "mpi_version" \in Routines /\ failed' = failed
  BY AllRoutines DEF adiak_mpi_version, Simple, answerVars, Succeeds
<1>2. CASE use_mpi /\ Succeeds(Pair("mpi_version", System.mpi_version))
  <2>1. /\ "mpi_version" \notin Unavailable'
        /\ DOMAIN Pair("mpi_version", System.mpi_version) = PairsOf("mpi_version")
    BY <1>1, <1>2, UnavailableNext DEF Pair, PairsOf
  <2>2. Finish(0, Pair("mpi_version", System.mpi_version))
    BY <1>2 DEF Succeeds
  <2>3. Returned("mpi_version", 0, Pair("mpi_version", System.mpi_version))
    BY <1>1, <2>1, <2>2 DEF Returned
  <2> QED BY <2>3
<1>3. CASE ~use_mpi /\ Finish(-1, NoPairs)
  <2>1. "mpi_version" \in Unavailable' /\ DOMAIN NoPairs = {}
    BY <1>1, <1>3, UnavailableNext DEF NoPairs
  <2>2. Returned("mpi_version", -1, NoPairs)
    BY <1>1, <1>3, <2>1 DEF Returned
  <2> QED BY <2>2
<1> QED BY <1>2, <1>3 DEF adiak_mpi_version

\* adiak_mpi_library returns in one step.
LEMMA MpiLibraryReturns ==
    ASSUME adiak_mpi_library
    PROVE  \E res, pairs : Returned("mpi_library", res, pairs)
<1>1. /\ Running("mpi_library") /\ UNCHANGED <<use_mpi, hosts, mpi_info, now>>
      /\ "mpi_library" \in Routines
  BY AllRoutines DEF adiak_mpi_library, Simple, answerVars
<1>2. CASE Fails("mpi_library")
  BY <1>1, <1>2, FailureReturns DEF answerVars
<1>3. CASE use_mpi /\ Succeeds(Pair("mpi_library", System.mpi_library))
  <2>1. /\ "mpi_library" \notin Unavailable'
        /\ DOMAIN Pair("mpi_library", System.mpi_library) = PairsOf("mpi_library")
    BY <1>1, <1>3, UnavailableNext DEF Pair, PairsOf
  <2>2. failed' = failed /\ Finish(0, Pair("mpi_library", System.mpi_library))
    BY <1>3 DEF Succeeds
  <2>3. Returned("mpi_library", 0, Pair("mpi_library", System.mpi_library))
    BY <1>1, <2>1, <2>2 DEF Returned
  <2> QED BY <2>3
<1>4. CASE ~use_mpi /\ failed' = failed /\ Finish(-1, NoPairs)
  <2>1. "mpi_library" \in Unavailable' /\ DOMAIN NoPairs = {}
    BY <1>1, <1>4, UnavailableNext DEF NoPairs
  <2>2. Returned("mpi_library", -1, NoPairs)
    BY <1>1, <1>4, <2>1 DEF Returned
  <2> QED BY <2>2
<1> QED BY <1>2, <1>3, <1>4 DEF adiak_mpi_library

\* A library whose vendor is not known has no version, and the other way round.
LEMMA VendorKnown ==
    ASSUME VendorsTold, NEW m \in MpiInfos
    PROVE  adksys_mpi_library_version(m.info) = NoLibrary <=> m.library.vendor \notin Known
<1>1. "" \notin Known
  <2>1. DOMAIN Vendors = 1..5 /\ \A i \in 1..5 : i \in {1, 2, 3, 4, 5}
    BY DEF Vendors
  <2>2. /\ Vendors[1].vendor # "" /\ Vendors[2].vendor # "" /\ Vendors[3].vendor # ""
        /\ Vendors[4].vendor # "" /\ Vendors[5].vendor # ""
    BY DEF Vendors
  <2> QED BY <2>1, <2>2 DEF Known
<1>2. NoLibrary.vendor = ""
  BY DEF NoLibrary, Library
<1> QED BY <1>1, <1>2 DEF VendorsTold

\* adiak_mpi_library_version returns in one step.
LEMMA MpiLibraryVersionReturns ==
    ASSUME adiak_mpi_library_version
    PROVE  \E res, pairs : Returned("mpi_library_version", res, pairs)
<1>1. /\ Running("mpi_library_version") /\ UNCHANGED <<use_mpi, hosts, now>>
      /\ "mpi_library_version" \in Routines
  BY AllRoutines DEF adiak_mpi_library_version, Simple
<1>2. CASE use_mpi /\ Fails("mpi_library_version") /\ UNCHANGED mpi_info
  <2>1. Finish(-1, NoPairs) /\ Fault("mpi_library_version") /\ "mpi_library_version" \in failed'
    BY <1>2 DEF Fails, Fault
  <2>2. Returned("mpi_library_version", -1, NoPairs)
    BY <1>1, <1>2, <2>1 DEF Returned, NoPairs
  <2> QED BY <2>2
<1>3. CASE ~use_mpi /\ UNCHANGED <<failed, mpi_info>> /\ Finish(-1, NoPairs)
  <2>1. "mpi_library_version" \in Unavailable'
    BY <1>1, <1>3, UnavailableNext
  <2>2. Returned("mpi_library_version", -1, NoPairs)
    BY <1>1, <1>3, <2>1 DEF Returned, NoPairs
  <2> QED BY <2>2
<1>4. ASSUME NEW m \in MpiInfos, NEW lib, lib = adksys_mpi_library_version(m.info), use_mpi,
             mpi_info' = m.library, failed' = failed,
             IF lib = NoLibrary THEN Finish(-1, NoPairs) ELSE Finish(0, VendorPairs(lib))
      PROVE  \E res, pairs : Returned("mpi_library_version", res, pairs)
  <2>1. "mpi_library_version" \in Unavailable' <=> m.library.vendor \notin Known
    BY <1>1, <1>4, UnavailableNext
  <2>2. VendorsTold => (lib = NoLibrary <=> m.library.vendor \notin Known)
    BY <1>4, VendorKnown
  <2>3. CASE lib = NoLibrary
    <3>1. Returned("mpi_library_version", -1, NoPairs)
      BY <1>1, <1>4, <2>1, <2>2, <2>3 DEF Returned, NoPairs
    <3> QED BY <3>1
  <2>4. CASE lib # NoLibrary
    <3>1. DOMAIN VendorPairs(lib) = PairsOf("mpi_library_version")
      BY DEF VendorPairs, PairsOf
    <3>2. Returned("mpi_library_version", 0, VendorPairs(lib))
      BY <1>1, <1>4, <2>1, <2>2, <2>4, <3>1 DEF Returned
    <3> QED BY <3>2
  <2> QED BY <2>3, <2>4
<1> QED BY <1>2, <1>3, <1>4 DEF adiak_mpi_library_version

\* What the variable hosts holds.
Answers == {"unasked", "list", "error"}

\* Asking for the hosts with MPI answers "list" or "error", and leaves an answer alone.
LEMMA HostlistAnswer ==
    ASSUME hosts \in Answers, IF use_mpi THEN adksys_hostlist ELSE UNCHANGED <<hosts, failed>>
    PROVE  /\ hosts' = hosts \/ (hosts = "unasked" /\ hosts' \in {"list", "error"})
           /\ use_mpi => hosts' \in {"list", "error"}
           /\ failed' = failed \/ Fault("hosts")
           /\ \A r \in Routines : r \in failed' => r \in failed
<1>1. "hosts" \notin Routines
  BY AllRoutines
<1> QED BY <1>1 DEF adksys_hostlist, Answers, Fault

\* adiak_num_hosts returns in one step.
LEMMA NumHostsReturns ==
    ASSUME adiak_num_hosts, hosts \in Answers
    PROVE  \E res, pairs : Returned("numhosts", res, pairs)
<1>1. /\ Running("numhosts") /\ UNCHANGED <<use_mpi, mpi_info, now>> /\ "numhosts" \in Routines
      /\ "numhosts" \notin Unavailable'
  BY AllRoutines, UnavailableNext DEF adiak_num_hosts, Simple, answerVars
<1>2. PICK x : Finish(0, Pair("numhosts", x))
  BY DEF adiak_num_hosts
<1>3. /\ hosts' = hosts \/ (hosts = "unasked" /\ hosts' \in {"list", "error"})
      /\ use_mpi => hosts' \in {"list", "error"}
      /\ failed' = failed \/ Fault("hosts")
      /\ "numhosts" \in failed' => "numhosts" \in failed
  BY <1>1, HostlistAnswer DEF adiak_num_hosts
<1>4. DOMAIN Pair("numhosts", x) = PairsOf("numhosts")
  BY DEF Pair, PairsOf
<1>5. Returned("numhosts", 0, Pair("numhosts", x))
  BY <1>1, <1>2, <1>3, <1>4 DEF Returned
<1> QED BY <1>5

\* adiak_hostlist returns in one step.
LEMMA HostlistReturns ==
    ASSUME adiak_hostlist, hosts \in Answers
    PROVE  \E res, pairs : Returned("hostlist", res, pairs)
<1>1. Running("hostlist") /\ UNCHANGED <<use_mpi, mpi_info, now>> /\ "hostlist" \in Routines
  BY AllRoutines DEF adiak_hostlist, Simple, answerVars
<1>2. /\ hosts' = hosts \/ (hosts = "unasked" /\ hosts' \in {"list", "error"})
      /\ use_mpi => hosts' \in {"list", "error"}
      /\ failed' = failed \/ Fault("hosts")
      /\ "hostlist" \in failed' => "hostlist" \in failed
  BY <1>1, HostlistAnswer DEF adiak_hostlist
<1>3. CASE use_mpi /\ hosts' = "list" /\ Finish(0, Pair("hostlist", System.hosts))
  <2>1. /\ "hostlist" \notin Unavailable'
        /\ DOMAIN Pair("hostlist", System.hosts) = PairsOf("hostlist")
    BY <1>1, <1>3, UnavailableNext DEF Pair, PairsOf
  <2>2. Returned("hostlist", 0, Pair("hostlist", System.hosts))
    BY <1>1, <1>2, <1>3, <2>1 DEF Returned
  <2> QED BY <2>2
<1>4. CASE ~(use_mpi /\ hosts' = "list") /\ Finish(-1, NoPairs)
  <2>1. "hostlist" \in Unavailable'
    BY <1>1, <1>2, <1>4, UnavailableNext
  <2>2. Returned("hostlist", -1, NoPairs)
    BY <1>1, <1>2, <1>4, <2>1 DEF Returned, NoPairs
  <2> QED BY <2>2
<1> QED BY <1>3, <1>4 DEF adiak_hostlist

\* Each timer of adiak_fini returns in one step.
LEMMA TimersReturn ==
    ASSUME NEW r \in Timers, (r # "walltime" /\ MeasureTimes(r)) \/ (r = "walltime" /\ measure_walltime)
    PROVE  \E res, pairs : Returned(r, res, pairs)
<1>1. /\ Running(r) /\ UNCHANGED <<use_mpi, hosts, mpi_info>>
      /\ now' = now \/ now' \in EndTimes
  BY DEF MeasureTimes, measure_walltime, Simple, answerVars
<1>2. /\ r \notin {"adiakversion", "working_directory", "mpi_library_version", "numhosts", "hostlist"}
      /\ r \notin Unavailable' /\ \A x : DOMAIN Pair(r, x) = PairsOf(r)
  BY UnavailableNext DEF Timers, Pair, PairsOf
<1>3. CASE Fails(r)
  <2>1. Fault(r) /\ Finish(-1, NoPairs) /\ r \in failed' /\ DOMAIN NoPairs = {}
    BY <1>3 DEF Fails, Fault, NoPairs
  <2>2. Returned(r, -1, NoPairs)
    BY <1>1, <1>2, <2>1 DEF Returned
  <2> QED BY <2>2
<1>4. ASSUME NEW x, Succeeds(Pair(r, x)) PROVE \E res, pairs : Returned(r, res, pairs)
  <2>1. failed' = failed /\ Finish(0, Pair(r, x))
    BY <1>4 DEF Succeeds
  <2>2. Returned(r, 0, Pair(r, x))
    BY <1>1, <1>2, <2>1 DEF Returned
  <2> QED BY <2>2
<1> QED BY <1>3, <1>4 DEF MeasureTimes, measure_walltime

\* The routines of several steps, when they return.
LEMMA LastStepReturns ==
    ASSUME NEW r \in {"cmdline", "libraries"}, Running(r), UNCHANGED <<use_mpi, hosts, answerVars>>,
           Fails(r) \/ \E x : Succeeds(Pair(r, x))
    PROVE  \E res, pairs : Returned(r, res, pairs)
<1>1. r \in Routines /\ r \notin Unavailable'
  BY AllRoutines, UnavailableNext
<1>2. CASE Fails(r)
  BY <1>1, <1>2, FailureReturns
<1>3. ASSUME NEW x, Succeeds(Pair(r, x)) PROVE Returned(r, 0, Pair(r, x))
  <2>1. failed' = failed /\ Finish(0, Pair(r, x)) /\ UNCHANGED <<use_mpi, hosts, mpi_info, now>>
    BY <1>3 DEF Succeeds, answerVars
  <2>2. DOMAIN Pair(r, x) = PairsOf(r)
    BY DEF Pair, PairsOf
  <2> QED BY <1>1, <2>1, <2>2 DEF Returned
<1> QED BY <1>2, <1>3

\* Next, as far as calls, their routines and their results go.
LEMMA ReturnCases ==
    ASSUME [Next]_vars, hosts \in Answers
    PROVE  Call \/ Within \/ \E r, res, pairs : Returned(r, res, pairs)
<1>1. CASE UNCHANGED vars
  BY <1>1 DEF vars, Within, callVars, processVars, answerVars
<1>2. CASE Others
  BY <1>2 DEF Others, Retitle, Load, Unload, Within, processVars
<1>3. CASE MeasureCmdline \/ MeasureForEver \/ ReadBytes \/ ReadNothing \/ CountLibraries \/ StoreNames
  BY <1>3 DEF MeasureCmdline, MeasureForEver, ReadBytes, ReadNothing, CountLibraries, StoreNames, Cmdline,
              Libraries, Within, processVars
<1>4. CASE OpenCmdline
  <2>1. UNCHANGED <<use_mpi, hosts, answerVars>> /\ Running("cmdline")
    BY <1>4 DEF OpenCmdline, Cmdline
  <2>2. CASE UNCHANGED <<callVars, failed>>
    BY <2>1, <2>2 DEF Within
  <2>3. CASE Fails("cmdline")
    BY <2>1, <2>3, LastStepReturns
  <2> QED BY <1>4, <2>2, <2>3 DEF OpenCmdline
<1>5. CASE ReadError
  BY <1>5, LastStepReturns DEF ReadError, Cmdline
<1>6. CASE SplitCmdline
  <2>1. Running("cmdline") /\ UNCHANGED <<use_mpi, hosts, answerVars>>
    BY <1>6 DEF SplitCmdline, Cmdline
  <2>2. \E x : Succeeds(Pair("cmdline", x))
    BY <1>6 DEF SplitCmdline
  <2> QED BY <2>1, <2>2, LastStepReturns
<1>7. CASE adiak_libraries
  <2>1. Running("libraries") /\ UNCHANGED <<use_mpi, hosts, answerVars>>
    BY <1>7 DEF adiak_libraries, Libraries, processVars
  <2>2. \E x : Succeeds(Pair("libraries", x))
    BY <1>7 DEF adiak_libraries
  <2> QED BY <2>1, <2>2, LastStepReturns
<1>8. CASE MeasureTimes("cputime") \/ MeasureTimes("systime") \/ measure_walltime
  BY <1>8, TimersReturn DEF Timers
<1>9. CASE \E r \in DOMAIN Found : CollectOne(r)
  BY <1>9, OneCallReturns
<1>10. CASE \/ adiak_job_size \/ adiak_num_hosts \/ adiak_hostlist
            \/ adiak_mpi_version \/ adiak_mpi_library \/ adiak_mpi_library_version
  BY <1>10, JobSizeReturns, NumHostsReturns, HostlistReturns, MpiVersionReturns,
     MpiLibraryReturns, MpiLibraryVersionReturns
<1> QED BY <1>1, <1>2, <1>3, <1>4, <1>5, <1>6, <1>7, <1>8, <1>9, <1>10 DEF Next, Collect

-----------------------------------------------------------------------------
\* No entry comes twice.
Distinct(s) == \A i, j \in DOMAIN s : s[i] = s[j] => i = j

\* The routines that a call starts with.
Starts(name, routines) ==
    /\ name \in Routines \cup {"collect_all", "fini"}
    /\ name \in Routines => routines = <<name>>
    /\ name = "collect_all" => routines = CollectOrder
    /\ routines \in Seq(Routines \cup Timers) /\ Len(routines) <= 17
    /\ Distinct(routines)

\* adiak_collect_all has each routine but adiak_mpi_library once, the version first.
LEMMA OrderIs ==
    /\ CollectOrder \in Seq(Routines) /\ Len(CollectOrder) = 17 /\ CollectOrder[1] = "adiakversion"
    /\ Distinct(CollectOrder)
    /\ Entries(CollectOrder) = Routines \ {"mpi_library"}
<1>1. DOMAIN CollectOrder = 1..17 /\ Len(CollectOrder) = 17 /\ CollectOrder[1] = "adiakversion"
  BY DEF CollectOrder
<1>2. 1..17 = {1, 2, 3, 4, 5, 6, 7, 8, 9, 10, 11, 12, 13, 14, 15, 16, 17}
  OBVIOUS
<1>3. \A i, j \in 1..17 : CollectOrder[i] = CollectOrder[j] => i = j
  BY <1>2 DEF CollectOrder
<1>4. Entries(CollectOrder) = Routines \ {"mpi_library"}
  BY <1>1, <1>2, AllRoutines DEF CollectOrder, Entries
<1>5. CollectOrder \in Seq(Routines)
  BY AllRoutines DEF CollectOrder
<1> QED BY <1>1, <1>3, <1>4, <1>5 DEF Distinct

\* Two sequences without repetition or a common entry have none together.
LEMMA DistinctParts ==
    ASSUME NEW S, NEW s \in Seq(S), NEW u \in Seq(S), Distinct(s), Distinct(u),
           Entries(s) \cap Entries(u) = {}
    PROVE  /\ s \o u \in Seq(S) /\ Distinct(s \o u) /\ Len(s \o u) = Len(s) + Len(u)
           /\ Entries(s \o u) = Entries(s) \cup Entries(u)
<1>0. PICK t : t = s \o u
  OBVIOUS
<1>1. PICK m \in Nat, n \in Nat : m = Len(s) /\ n = Len(u) /\ DOMAIN s = 1..m /\ DOMAIN u = 1..n
  OBVIOUS
<1>2. /\ t \in Seq(S) /\ Len(t) = m + n /\ DOMAIN t = 1..(m + n)
      /\ \A i \in 1..m : t[i] = s[i]
      /\ \A i \in 1..n : t[m + i] = u[i]
  BY <1>0, <1>1
<1>3. \A i \in 1..(m + n) : (i \in 1..m /\ t[i] = s[i])
                            \/ (i - m \in 1..n /\ t[i] = u[i - m])
  <2> SUFFICES ASSUME NEW i \in 1..(m + n), i \notin 1..m PROVE i - m \in 1..n /\ t[i] = u[i - m]
    BY <1>2
  <2>1. i - m \in 1..n /\ i = m + (i - m)
    OBVIOUS
  <2> QED BY <1>2, <2>1
<1>4. \A i \in 1..m, j \in 1..n : s[i] # u[j]
  BY <1>1 DEF Entries
<1>5. Distinct(t)
  <2> SUFFICES ASSUME NEW i \in 1..(m + n), NEW j \in 1..(m + n), t[i] = t[j] PROVE i = j
    BY <1>2 DEF Distinct
  <2>1. CASE i \in 1..m /\ t[i] = s[i]
    <3>1. CASE j \in 1..m /\ t[j] = s[j]
      BY <1>1, <2>1, <3>1 DEF Distinct
    <3>2. CASE j - m \in 1..n /\ t[j] = u[j - m]
      BY <1>4, <2>1, <3>2
    <3> QED BY <1>3, <3>1, <3>2
  <2>2. CASE i - m \in 1..n /\ t[i] = u[i - m]
    <3>1. CASE j \in 1..m /\ t[j] = s[j]
      BY <1>4, <2>2, <3>1
    <3>2. CASE j - m \in 1..n /\ t[j] = u[j - m]
      <4>1. i - m = j - m
        BY <1>1, <2>2, <3>2 DEF Distinct
      <4> QED BY <4>1
    <3> QED BY <1>3, <3>1, <3>2
  <2> QED BY <1>3, <2>1, <2>2
<1>6. Entries(t) = Entries(s) \cup Entries(u)
  <2>1. ASSUME NEW x \in Entries(t) PROVE x \in Entries(s) \cup Entries(u)
    <3>1. PICK i \in 1..(m + n) : x = t[i]
      BY <1>2 DEF Entries
    <3> QED BY <1>1, <1>3, <3>1 DEF Entries
  <2>2. ASSUME NEW x \in Entries(s) PROVE x \in Entries(t)
    <3>1. PICK i \in 1..m : x = s[i]
      BY <1>1 DEF Entries
    <3>2. i \in 1..(m + n)
      OBVIOUS
    <3> QED BY <1>2, <3>1, <3>2 DEF Entries
  <2>3. ASSUME NEW x \in Entries(u) PROVE x \in Entries(t)
    <3>1. PICK i \in 1..n : x = u[i]
      BY <1>1 DEF Entries
    <3>2. m + i \in 1..(m + n)
      OBVIOUS
    <3> QED BY <1>2, <3>1, <3>2 DEF Entries
  <2> QED BY <2>1, <2>2, <2>3
<1> QED BY <1>0, <1>1, <1>2, <1>5, <1>6

\* Nor have three.
LEMMA ThreeParts ==
    ASSUME NEW S, NEW a \in Seq(S), NEW b \in Seq(S), NEW c \in Seq(S),
           Distinct(a), Distinct(b), Distinct(c), Entries(a) \cap Entries(b) = {},
           (Entries(a) \cup Entries(b)) \cap Entries(c) = {}
    PROVE  /\ a \o b \o c \in Seq(S) /\ Distinct(a \o b \o c)
           /\ Len(a \o b \o c) = Len(a) + Len(b) + Len(c)
<1>1. PICK d : d = a \o b
  OBVIOUS
<1>2. /\ d \in Seq(S) /\ Distinct(d) /\ Len(d) = Len(a) + Len(b)
      /\ Entries(d) = Entries(a) \cup Entries(b)
  BY <1>1, DistinctParts
<1>3. PICK e : e = d \o c
  OBVIOUS
<1>4. Entries(d) \cap Entries(c) = {}
  BY <1>2
<1>5. e \in Seq(S) /\ Distinct(e) /\ Len(e) = Len(d) + Len(c)
  BY <1>2, <1>3, <1>4, DistinctParts
<1>6. e = a \o b \o c
  BY <1>1, <1>3
<1> QED BY <1>2, <1>5, <1>6

\* adiak_fini starts timers, each once.
LEMMA FiniStarts ==
    ASSUME NEW requested \in SUBSET Timers, adiak_fini(requested)
    PROVE  \E routines : Begin("fini", routines) /\ Starts("fini", routines)
<1> DEFINE M(t) == IF t \in requested THEN <<t>> ELSE << >>
<1>1. ASSUME NEW t \in Timers
      PROVE  /\ M(t) \in Seq(Routines \cup Timers) /\ Distinct(M(t))
             /\ Len(M(t)) \in 0..1 /\ Entries(M(t)) \subseteq {t}
  <2>1. CASE M(t) = << >>
    BY <2>1 DEF Distinct, Entries
  <2>2. CASE M(t) = <<t>>
    <3>1. DOMAIN <<t>> = {1} /\ <<t>>[1] = t /\ Len(<<t>>) = 1 /\ <<t>> \in Seq(Routines \cup Timers)
      OBVIOUS
    <3>2. Distinct(<<t>>) /\ Entries(<<t>>) \subseteq {t}
      BY <3>1 DEF Distinct, Entries
    <3> HIDE DEF M
    <3> QED BY <2>2, <3>1, <3>2
  <2> QED BY <2>1, <2>2
<1>2. PICK e : e = M("cputime") \o M("systime") \o M("walltime")
  OBVIOUS
<1>3. Begin("fini", e)
  BY <1>2 DEF adiak_fini
<1> HIDE DEF M
<1>4. PICK a, b, c : a = M("cputime") /\ b = M("systime") /\ c = M("walltime")
  OBVIOUS
<1>5. /\ a \in Seq(Routines \cup Timers) /\ Distinct(a) /\ Len(a) \in 0..1 /\ Entries(a) \subseteq {"cputime"}
      /\ b \in Seq(Routines \cup Timers) /\ Distinct(b) /\ Len(b) \in 0..1 /\ Entries(b) \subseteq {"systime"}
      /\ c \in Seq(Routines \cup Timers) /\ Distinct(c) /\ Len(c) \in 0..1 /\ Entries(c) \subseteq {"walltime"}
  BY <1>1, <1>4 DEF Timers
<1>6. Entries(a) \cap Entries(b) = {} /\ (Entries(a) \cup Entries(b)) \cap Entries(c) = {}
  BY <1>5
<1>7. e = a \o b \o c
  BY <1>2, <1>4
<1>8. e \in Seq(Routines \cup Timers) /\ Distinct(e) /\ Len(e) = Len(a) + Len(b) + Len(c)
  BY <1>5, <1>6, <1>7, ThreeParts
<1>9. Len(e) <= 17 /\ "fini" \notin Routines
  <2>1. \A k, l, m \in 0..1 : k + l + m <= 17
    OBVIOUS
  <2>2. Len(a) \in 0..1 /\ Len(b) \in 0..1 /\ Len(c) \in 0..1
    BY <1>5
  <2> QED BY <1>8, <2>1, <2>2, AllRoutines
<1> QED BY <1>3, <1>8, <1>9 DEF Starts, Distinct

\* A call starts one routine, the seventeen of adiak_collect_all, or timers.
LEMMA CallBegins ==
    ASSUME Call
    PROVE  \E name, routines : Begin(name, routines) /\ Starts(name, routines)
<1>0. "collect_all" \notin Routines /\ "fini" \notin Routines
  BY AllRoutines
<1>1. CASE adiak_collect_all
  <2>1. CollectOrder \in Seq(Routines \cup Timers)
    BY OrderIs
  <2>2. Starts("collect_all", CollectOrder)
    BY <1>0, <2>1, OrderIs DEF Starts
  <2> QED BY <1>1, <2>2 DEF adiak_collect_all
<1>2. ASSUME NEW r \in Routines, Begin(r, <<r>>)
      PROVE  \E name, routines : Begin(name, routines) /\ Starts(name, routines)
  <2>1. Starts(r, <<r>>)
    BY <1>0 DEF Starts, Distinct
  <2> QED BY <1>2, <2>1
<1>3. ASSUME NEW requested \in SUBSET Timers, adiak_fini(requested)
      PROVE  \E name, routines : Begin(name, routines) /\ Starts(name, routines)
  BY <1>3, FiniStarts
<1> QED BY <1>1, <1>2, <1>3 DEF Call

\* The pairs of different routines have different names.
LEMMA PairsDiffer ==
    ASSUME NEW r \in Routines \cup Timers, NEW q \in Routines \cup Timers, r # q
    PROVE  PairsOf(r) \cap PairsOf(q) = {} /\ PairsOf(r) # {}
<1>1. "mpi_library_vendor" \notin Routines \cup Timers
  BY AllRoutines DEF Timers
<1> QED BY <1>1 DEF PairsOf

-----------------------------------------------------------------------------
\* The routines of adiak_collect_all that have returned, and those of them that
\* have registered their pairs.
Done == Entries(CollectOrder) \ Entries(todo)
Telling == {r \in Done : r \notin failed \cup Unavailable \/ r = "working_directory"}

\* What each variable of a call holds.
CallTypes ==
    /\ use_mpi \in BOOLEAN /\ hosts \in Answers
    /\ call \in Routines \cup {"none", "collect_all", "fini"}
    /\ todo \in Seq(Routines \cup Timers) /\ count \in Nat /\ count + Len(todo) <= 17
    /\ result \in {0, -1}
    /\ IsFiniteSet(failed) /\ Cardinality(failed) <= MaxFaults
    /\ now \in EndTimes \cup {System.start}

\* No routine runs twice in a call, and none has failed or registered a pair before it runs.
RunsOnce ==
    /\ Distinct(todo)
    /\ \A r \in Entries(todo) : r \notin failed /\ PairsOf(r) \cap DOMAIN registered = {}

\* The result of a call of one routine.
OneResult ==
    call \in Routines
        => \/ todo = <<call>> /\ registered = NoPairs
           \/ todo = << >> /\ (result = 0 <=> DOMAIN registered = PairsOf(call))

\* What adiak_collect_all has registered so far.
Collected ==
    VendorsTold /\ call = "collect_all"
        => /\ Entries(todo) \subseteq Entries(CollectOrder)
           /\ count > 0 \/ todo = CollectOrder
           /\ todo = << >> => result = 0
           /\ "hostlist" \in Done /\ use_mpi => hosts # "unasked"
           /\ DOMAIN registered = UNION {PairsOf(r) : r \in Telling}

\* The directory registered, and the version of the library.
DirectoryRead ==
    "working_directory" \in DOMAIN registered \ failed => registered["working_directory"] = System.cwd
VersionRead ==
    "mpi_library_vendor" \in DOMAIN registered
        => /\ "mpi_library_version" \in DOMAIN registered
           /\ \E m \in MpiInfos : \E lib \in {adksys_mpi_library_version(m.info)} :
              /\ lib # NoLibrary /\ mpi_info = m.library
              /\ registered["mpi_library_vendor"] = lib.vendor
              /\ registered["mpi_library_version"] = lib.version

RoutineInv == CallTypes /\ RunsOnce /\ OneResult /\ Collected /\ DirectoryRead /\ VersionRead

-----------------------------------------------------------------------------
\* A call starts.
LEMMA StartOfCall ==
    ASSUME NEW name, NEW routines, Begin(name, routines), Starts(name, routines), RoutineInv
    PROVE  RoutineInv'
<1> USE CollectorsAssumption DEF CollectorsAssumption
<1>1. /\ call' = name /\ todo' = routines /\ count' = 0 /\ result' = 0 /\ registered' = NoPairs
      /\ failed' = {} /\ now' = System.start /\ UNCHANGED <<use_mpi, hosts>> /\ routines # << >>
  BY DEF Begin, processVars
<1>2. DOMAIN NoPairs = {}
  BY DEF NoPairs
<1>3. CallTypes'
  <2>1. IsFiniteSet({}) /\ Cardinality({}) = 0
    BY FS_EmptySet
  <2> QED BY <1>1, <2>1 DEF RoutineInv, CallTypes, Starts
<1>4. RunsOnce'
  BY <1>1, <1>2 DEF RunsOnce, Starts
<1>5. OneResult'
  BY <1>1 DEF OneResult, Starts
<1>6. Collected'
  <2> SUFFICES ASSUME VendorsTold, call' = "collect_all" PROVE Collected'
    BY DEF Collected, VendorsTold
  <2>1. todo' = CollectOrder
    BY <1>1 DEF Starts
  <2>2. Done' = {} /\ Telling' = {}
    BY <2>1 DEF Done, Telling
  <2>3. UNION {PairsOf(r) : r \in {}} = {}
    OBVIOUS
  <2> QED BY <1>1, <1>2, <2>1, <2>2, <2>3 DEF Collected
<1>7. DirectoryRead' /\ VersionRead'
  BY <1>1, <1>2 DEF DirectoryRead, VersionRead
<1> QED BY <1>3, <1>4, <1>5, <1>6, <1>7 DEF RoutineInv

\* One more system call failed.
LEMMA FaultKeeps ==
    ASSUME NEW x, Fault(x), IsFiniteSet(failed)
    PROVE  IsFiniteSet(failed') /\ Cardinality(failed') <= MaxFaults
<1>1. failed' = failed \cup {x} /\ Cardinality(failed) < MaxFaults
  BY DEF Fault
<1>2. /\ IsFiniteSet(failed') /\ Cardinality(failed) \in Nat
      /\ Cardinality(failed') \in {Cardinality(failed), Cardinality(failed) + 1}
  BY <1>1, FS_AddElement, FS_CardinalityType
<1>3. MaxFaults \in Nat
  BY CollectorsAssumption DEF CollectorsAssumption
<1> QED BY <1>1, <1>2, <1>3

\* A step within a routine.
LEMMA WithinKeeps ==
    ASSUME Within, RoutineInv
    PROVE  RoutineInv'
<1>1. UNCHANGED <<call, todo, count, result, registered, use_mpi, hosts, mpi_info, now>>
  BY DEF Within, callVars, answerVars
<1>2. failed' = failed \/ (Fault("measure") /\ failed' = failed \cup {"measure"})
  BY DEF Within, Fault
<1>3. "measure" \notin Routines \cup Timers
  BY AllRoutines DEF Timers
<1>4. Entries(todo) \subseteq Routines \cup Timers
  BY DEF RoutineInv, CallTypes, Entries
<1>5. CallTypes'
  <2>1. IsFiniteSet(failed') /\ Cardinality(failed') <= MaxFaults
    BY <1>2, FaultKeeps DEF RoutineInv, CallTypes
  <2> QED BY <1>1, <2>1 DEF RoutineInv, CallTypes
<1>6. RunsOnce'
  BY <1>1, <1>2, <1>3, <1>4 DEF RoutineInv, RunsOnce
<1>7. Done' = Done /\ Telling' = Telling
  <2>1. Done' = Done /\ Unavailable' = Unavailable
    BY <1>1 DEF Done, Unavailable
  <2>2. \A r \in Done : r \in failed' <=> r \in failed
    <3>1. Done \subseteq Routines
      BY OrderIs DEF Done
    <3> QED BY <1>2, <1>3, <3>1
  <2> QED BY <2>1, <2>2 DEF Telling
<1>8. OneResult' /\ Collected'
  BY <1>1, <1>7 DEF RoutineInv, OneResult, Collected
<1>9. DirectoryRead' /\ VersionRead'
  BY <1>1, <1>2 DEF RoutineInv, DirectoryRead, VersionRead
<1> QED BY <1>5, <1>6, <1>8, <1>9 DEF RoutineInv

\* The routines that are left when the first returns.
LEMMA OneLess ==
    ASSUME NEW S, NEW s \in Seq(S), s # << >>, Distinct(s)
    PROVE  /\ Tail(s) \in Seq(S) /\ Len(Tail(s)) = Len(s) - 1 /\ Distinct(Tail(s))
           /\ Head(s) \in Entries(s) /\ Entries(Tail(s)) = Entries(s) \ {Head(s)}
<1>0. PICK t, r : t = Tail(s) /\ r = Head(s)
  OBVIOUS
<1>1. PICK n \in Nat : n = Len(s) /\ n # 0 /\ DOMAIN s = 1..n /\ r = s[1]
  BY <1>0
<1>2. /\ t \in Seq(S) /\ Len(t) = n - 1 /\ DOMAIN t = 1..(n - 1)
      /\ \A i \in 1..(n - 1) : t[i] = s[i + 1] /\ i + 1 \in 1..n
  BY <1>0, <1>1
<1>3. Distinct(t)
  <2> SUFFICES ASSUME NEW i \in 1..(n - 1), NEW j \in 1..(n - 1), t[i] = t[j] PROVE i = j
    BY <1>2 DEF Distinct
  <2>1. i + 1 = j + 1
    BY <1>1, <1>2 DEF Distinct
  <2> QED BY <2>1
<1>4. r \in Entries(s)
  BY <1>1 DEF Entries
<1>5. \A i \in 1..(n - 1) : t[i] # r
  <2> SUFFICES ASSUME NEW i \in 1..(n - 1), t[i] = r PROVE FALSE
    OBVIOUS
  <2>1. i + 1 = 1
    <3>1. 1 \in 1..n
      BY <1>1
    <3> QED BY <1>1, <1>2, <3>1 DEF Distinct
  <2> QED BY <2>1
<1>6. \A x \in Entries(t) : x \in Entries(s) /\ x # r
  BY <1>1, <1>2, <1>5 DEF Entries
<1>7. ASSUME NEW x \in Entries(s), x # r PROVE x \in Entries(t)
  <2>1. PICK i \in 1..n : x = s[i]
    BY <1>1 DEF Entries
  <2>2. i - 1 \in 1..(n - 1) /\ i = (i - 1) + 1
    BY <1>1, <1>7, <2>1
  <2>3. t[i - 1] = x
    BY <1>2, <2>1, <2>2
  <2> QED BY <1>2, <2>2, <2>3 DEF Entries
<1>8. Entries(t) = Entries(s) \ {r}
  BY <1>6, <1>7
<1> QED BY <1>0, <1>1, <1>2, <1>3, <1>4, <1>8

\* What a routine that returns does to the call.
LEMMA ReturnedCall ==
    ASSUME RoutineInv, NEW r, NEW res, NEW pairs, Returned(r, res, pairs)
    PROVE  /\ todo # << >> /\ call' = call /\ todo' = Tail(todo)
           /\ todo' \in Seq(Routines \cup Timers) /\ Len(todo') = Len(todo) - 1 /\ Distinct(todo')
           /\ r \in Entries(todo) /\ Entries(todo') = Entries(todo) \ {r} /\ r \notin failed
           /\ Entries(todo) \subseteq Routines \cup Timers
           /\ PairsOf(r) \cap DOMAIN registered = {}
           /\ registered' = Add(pairs, registered)
           /\ DOMAIN registered' = DOMAIN pairs \cup DOMAIN registered
           /\ count' = IF res = 0 THEN count + 1 ELSE count
           /\ result' = IF call = "collect_all" THEN (IF count' > 0 THEN 0 ELSE -1) ELSE res
           /\ failed \subseteq failed' /\ failed' \subseteq failed \cup {r, "hosts"}
<1>1. /\ todo # << >> /\ r = Head(todo) /\ call' = call /\ todo' = Tail(todo)
      /\ registered' = Add(pairs, registered)
      /\ count' = IF res = 0 THEN count + 1 ELSE count
      /\ result' = IF call = "collect_all" THEN (IF count' > 0 THEN 0 ELSE -1) ELSE res
      /\ failed' = failed \/ \E x \in {r, "hosts"} : Fault(x)
  BY DEF Returned, Running, Finish
<1>2. /\ todo' \in Seq(Routines \cup Timers) /\ Len(todo') = Len(todo) - 1 /\ Distinct(todo')
      /\ r \in Entries(todo) /\ Entries(todo') = Entries(todo) \ {r}
  <2>1. todo \in Seq(Routines \cup Timers) /\ Distinct(todo) /\ todo # << >>
    BY <1>1 DEF RoutineInv, CallTypes, RunsOnce
  <2>2. /\ Tail(todo) \in Seq(Routines \cup Timers) /\ Len(Tail(todo)) = Len(todo) - 1
        /\ Distinct(Tail(todo)) /\ Head(todo) \in Entries(todo)
        /\ Entries(Tail(todo)) = Entries(todo) \ {Head(todo)}
    BY <2>1, OneLess
  <2>3. r = Head(todo) /\ todo' = Tail(todo)
    BY <1>1
  <2>4. Distinct(todo') /\ Entries(todo') = Entries(Tail(todo))
    BY <2>2, <2>3
  <2> QED BY <2>2, <2>3, <2>4
<1>3. r \notin failed /\ PairsOf(r) \cap DOMAIN registered = {}
  BY <1>2 DEF RoutineInv, RunsOnce
<1>4. DOMAIN registered' = DOMAIN pairs \cup DOMAIN registered
  BY <1>1 DEF Add
<1>5. Entries(todo) \subseteq Routines \cup Timers
  BY DEF RoutineInv, CallTypes, Entries
<1>6. failed \subseteq failed' /\ failed' \subseteq failed \cup {r, "hosts"}
  BY <1>1 DEF Fault
<1> QED BY <1>1, <1>2, <1>3, <1>4, <1>5, <1>6
\* The invariant after a routine has returned, part by part.
LEMMA TypesAfterReturn ==
    ASSUME RoutineInv, NEW r, NEW res, NEW pairs, Returned(r, res, pairs)
    PROVE  CallTypes'
<1>1. /\ call' = call /\ todo' \in Seq(Routines \cup Timers) /\ Len(todo') = Len(todo) - 1
      /\ count' = IF res = 0 THEN count + 1 ELSE count
      /\ result' = IF call = "collect_all" THEN (IF count' > 0 THEN 0 ELSE -1) ELSE res
  BY ReturnedCall
<1>2. /\ use_mpi' = use_mpi /\ hosts' \in Answers /\ res \in {0, -1}
      /\ now' \in EndTimes \cup {System.start}
  BY DEF Returned, RoutineInv, CallTypes, Answers
<1>3. IsFiniteSet(failed') /\ Cardinality(failed') <= MaxFaults
  <2>1. failed' = failed \/ \E x \in {r, "hosts"} : Fault(x)
    BY DEF Returned
  <2> QED BY <2>1, FaultKeeps DEF RoutineInv, CallTypes
<1>4. count' \in Nat /\ count' + Len(todo') <= 17
  <2>1. count \in Nat /\ count + Len(todo) <= 17 /\ Len(todo) \in Nat
    BY DEF RoutineInv, CallTypes
  <2> QED BY <1>1, <2>1
<1> QED BY <1>1, <1>2, <1>3, <1>4 DEF RoutineInv, CallTypes

\* A return leaves the remaining routines distinct.
LEMMA RunsOnceAfterReturn ==
    ASSUME RoutineInv, NEW r, NEW res, NEW pairs, Returned(r, res, pairs)
    PROVE  RunsOnce'
<1>1. /\ Distinct(todo') /\ Entries(todo') = Entries(todo) \ {r} /\ r \in Entries(todo)
      /\ Entries(todo) \subseteq Routines \cup Timers
      /\ failed' \subseteq failed \cup {r, "hosts"}
      /\ DOMAIN registered' = DOMAIN pairs \cup DOMAIN registered
  BY ReturnedCall
<1>2. DOMAIN pairs \subseteq PairsOf(r) /\ "hosts" \notin Routines \cup Timers
  BY AllRoutines DEF Returned, Timers
<1>3. ASSUME NEW q \in Entries(todo')
      PROVE  q \notin failed' /\ PairsOf(q) \cap DOMAIN registered' = {}
  <2>1. q \in Entries(todo) /\ q # r /\ q \in Routines \cup Timers /\ r \in Routines \cup Timers
    BY <1>1
  <2>2. q \notin failed /\ PairsOf(q) \cap DOMAIN registered = {}
    BY <2>1 DEF RoutineInv, RunsOnce
  <2>3. PairsOf(r) \cap PairsOf(q) = {}
    BY <2>1, PairsDiffer
  <2> QED BY <1>1, <1>2, <2>1, <2>2, <2>3
<1> QED BY <1>1, <1>3 DEF RunsOnce

\* A return keeps the result of a single call with its pairs.
LEMMA ResultAfterReturn ==
    ASSUME RoutineInv, NEW r, NEW res, NEW pairs, Returned(r, res, pairs)
    PROVE  OneResult'
<1> SUFFICES ASSUME call' \in Routines PROVE OneResult'
  BY DEF OneResult
<1>0. r = Head(todo)
  BY DEF Returned, Running
<1>1. /\ todo # << >> /\ call' = call /\ todo' = Tail(todo)
      /\ DOMAIN registered' = DOMAIN pairs \cup DOMAIN registered
      /\ result' = IF call = "collect_all" THEN (IF count' > 0 THEN 0 ELSE -1) ELSE res
  BY ReturnedCall
<1>2. todo = <<call>> /\ registered = NoPairs
  BY <1>1 DEF RoutineInv, OneResult
<1>3. todo' = << >> /\ r = call /\ DOMAIN registered' = DOMAIN pairs
  BY <1>0, <1>1, <1>2 DEF NoPairs
<1>4. result' = res
  BY <1>1, AllRoutines
<1>5. res \in {0, -1} /\ DOMAIN pairs = (IF res = 0 THEN PairsOf(r) ELSE {}) /\ PairsOf(r) # {}
  BY DEF Returned, PairsOf
<1>6. result' = 0 <=> DOMAIN registered' = PairsOf(call')
  BY <1>1, <1>3, <1>4, <1>5
<1> QED BY <1>3, <1>6 DEF OneResult

\* A return keeps the directory that was found.
LEMMA DirectoryAfterReturn ==
    ASSUME RoutineInv, NEW r, NEW res, NEW pairs, Returned(r, res, pairs)
    PROVE  DirectoryRead'
<1> DEFINE wd == "working_directory"
<1> SUFFICES ASSUME wd \in DOMAIN registered' \ failed' PROVE registered'[wd] = System.cwd
  BY DEF DirectoryRead
<1>1. /\ registered' = Add(pairs, registered) /\ failed \subseteq failed' /\ r \in Routines \cup Timers
      /\ DOMAIN registered' = DOMAIN pairs \cup DOMAIN registered
  BY ReturnedCall DEF Returned
<1>2. registered'[wd] = IF wd \in DOMAIN pairs THEN pairs[wd] ELSE registered[wd]
  BY <1>1 DEF Add
<1>3. CASE r = wd
  <2>1. wd \in DOMAIN pairs /\ pairs[wd] = System.cwd
    BY <1>1, <1>3 DEF Returned, PairsOf
  <2> QED BY <1>2, <2>1
<1>4. CASE r # wd
  <2>1. wd \notin DOMAIN pairs
    BY <1>4 DEF Returned, PairsOf
  <2> QED BY <1>1, <1>2, <2>1 DEF RoutineInv, DirectoryRead
<1> QED BY <1>3, <1>4

\* A return keeps the vendor and version that the library named.
LEMMA VersionAfterReturn ==
    ASSUME RoutineInv, NEW r, NEW res, NEW pairs, Returned(r, res, pairs)
    PROVE  VersionRead'
<1> DEFINE vendor == "mpi_library_vendor"
           version == "mpi_library_version"
<1> SUFFICES ASSUME vendor \in DOMAIN registered' PROVE VersionRead'
  BY DEF VersionRead
<1>1. /\ registered' = Add(pairs, registered)
      /\ DOMAIN registered' = DOMAIN pairs \cup DOMAIN registered
      /\ PairsOf(r) \cap DOMAIN registered = {}
  BY ReturnedCall
<1>2. /\ registered'[vendor] = IF vendor \in DOMAIN pairs THEN pairs[vendor] ELSE registered[vendor]
      /\ version \in DOMAIN registered'
           => registered'[version] = IF version \in DOMAIN pairs THEN pairs[version] ELSE registered[version]
  BY <1>1 DEF Add
<1>3. DOMAIN pairs = (IF res = 0 THEN PairsOf(r) ELSE {}) /\ r \in Routines \cup Timers
  BY DEF Returned
<1>4. CASE r = version
  <2>1. PairsOf(r) = {vendor, version}
    BY <1>4 DEF PairsOf
  <2>2. res = 0 /\ vendor \in DOMAIN pairs /\ version \in DOMAIN pairs
    BY <1>1, <1>3, <2>1
  <2>3. PICK m \in MpiInfos : \E lib \in {adksys_mpi_library_version(m.info)} :
           mpi_info' = m.library /\ pairs = VendorPairs(lib) /\ lib # NoLibrary
    BY <1>4, <2>2 DEF Returned
  <2>4. PICK lib : /\ lib = adksys_mpi_library_version(m.info) /\ lib # NoLibrary
                   /\ pairs = VendorPairs(lib)
    BY <2>3
  <2>5. pairs[vendor] = lib.vendor /\ pairs[version] = lib.version
    BY <2>4 DEF VendorPairs
  <2> QED BY <1>1, <1>2, <2>2, <2>3, <2>4, <2>5 DEF VersionRead
<1>5. CASE r # version
  <2>1. PairsOf(r) \cap PairsOf(version) = {} /\ PairsOf(version) = {vendor, version}
    BY <1>3, <1>5, PairsDiffer, AllRoutines DEF PairsOf
  <2>2. vendor \notin DOMAIN pairs /\ version \notin DOMAIN pairs
    BY <1>3, <2>1
  <2>3. mpi_info' = mpi_info
    BY <1>5 DEF Returned
  <2>4. vendor \in DOMAIN registered
    BY <1>1, <2>2
  <2>5. version \in DOMAIN registered
    BY <2>4 DEF RoutineInv, VersionRead
  <2>6. registered'[vendor] = registered[vendor] /\ registered'[version] = registered[version]
    BY <1>1, <1>2, <2>2, <2>5
  <2> QED BY <1>1, <2>3, <2>4, <2>5, <2>6 DEF RoutineInv, VersionRead
<1> QED BY <1>4, <1>5

\* Of the routines that have returned, those that have registered their pairs remain so.
LEMMA StillTelling ==
    ASSUME RoutineInv, VendorsTold, call = "collect_all",
           NEW r, NEW res, NEW pairs, Returned(r, res, pairs)
    PROVE  /\ r \in Routines /\ r \notin Done /\ Done' = Done \cup {r}
           /\ Telling' = Telling \cup (IF res = 0 THEN {r} ELSE {})
<1>1. /\ Entries(todo') = Entries(todo) \ {r} /\ r \in Entries(todo)
      /\ r \notin failed /\ failed \subseteq failed' /\ failed' \subseteq failed \cup {r, "hosts"}
  BY ReturnedCall
<1>2. /\ Entries(todo) \subseteq Entries(CollectOrder)
      /\ "hostlist" \in Done /\ use_mpi => hosts # "unasked"
  BY DEF RoutineInv, Collected
<1>3. Entries(CollectOrder) = Routines \ {"mpi_library"} /\ "hosts" \notin Routines
  BY OrderIs, AllRoutines
<1>4. r \in Routines /\ r # "mpi_library" /\ r \notin Done /\ Done' = Done \cup {r}
  BY <1>1, <1>2, <1>3 DEF Done
<1>5. ASSUME NEW q \in Done PROVE q \in Telling' <=> q \in Telling
  <2>1. q # r /\ q # "hosts"
    BY <1>3, <1>4 DEF Done
  <2>2. q \in failed' <=> q \in failed
    BY <1>1, <2>1
  <2>3. /\ use_mpi' = use_mpi
        /\ hosts' = hosts \/ hosts = "unasked"
        /\ r # "mpi_library_version" => mpi_info' = mpi_info
    BY DEF Returned
  <2>4. q \in Unavailable' <=> q \in Unavailable
    <3>1. CASE q = "hostlist"
      BY <1>2, <2>3, <3>1, UnavailableIs, UnavailableNext
    <3>2. CASE q = "mpi_library_version"
      <4>1. mpi_info' = mpi_info
        BY <2>1, <2>3, <3>2
      <4> QED BY <2>3, <3>2, <4>1, UnavailableIs, UnavailableNext
    <3>3. CASE q \notin {"hostlist", "mpi_library_version"}
      BY <2>3, <3>3, UnavailableIs, UnavailableNext
    <3> QED BY <3>1, <3>2, <3>3
  <2> QED BY <1>4, <2>2, <2>4 DEF Telling
<1>6. r \in Telling' <=> res = 0
  <2>1. /\ res \in {0, -1}
        /\ res = -1 => r \in failed' \/ r \in Unavailable'
        /\ res = 0 => r \notin Unavailable'
        /\ r \in failed' => r \in failed \/ res = -1 \/ r = "working_directory"
        /\ r = "working_directory" => res = 0
    BY DEF Returned
  <2> QED BY <1>1, <1>4, <2>1 DEF Telling
<1>7. Telling' \subseteq Done' /\ Telling \subseteq Done
  BY DEF Telling
<1>8. ASSUME NEW x PROVE x \in Telling' <=> x \in Telling \cup (IF res = 0 THEN {r} ELSE {})
  BY <1>4, <1>5, <1>6, <1>7
<1> QED BY <1>4, <1>8

\* A return keeps what adiak_collect_all has registered.
LEMMA CollectedAfterReturn ==
    ASSUME RoutineInv, NEW r, NEW res, NEW pairs, Returned(r, res, pairs)
    PROVE  Collected'
<1> SUFFICES ASSUME VendorsTold, call' = "collect_all" PROVE Collected'
  BY DEF Collected, VendorsTold
<1>1. /\ call' = call /\ Entries(todo') = Entries(todo) \ {r} /\ todo # << >>
      /\ DOMAIN registered' = DOMAIN pairs \cup DOMAIN registered
      /\ count' = IF res = 0 THEN count + 1 ELSE count
      /\ result' = IF call = "collect_all" THEN (IF count' > 0 THEN 0 ELSE -1) ELSE res
  BY ReturnedCall
<1>2. /\ r \notin Done /\ Done' = Done \cup {r}
      /\ Telling' = Telling \cup (IF res = 0 THEN {r} ELSE {})
  BY <1>1, StillTelling
<1>3. /\ Entries(todo) \subseteq Entries(CollectOrder)
      /\ count > 0 \/ todo = CollectOrder
      /\ "hostlist" \in Done /\ use_mpi => hosts # "unasked"
      /\ DOMAIN registered = UNION {PairsOf(q) : q \in Telling}
      /\ count \in Nat
  BY <1>1 DEF RoutineInv, Collected, CallTypes
<1>4. count' > 0
  <2>1. CASE todo = CollectOrder
    <3>1. r = "adiakversion" /\ res = 0
      BY <2>1, OrderIs DEF Returned, Running
    <3> QED BY <1>1, <1>3, <3>1
  <2> QED BY <1>1, <1>3, <2>1
<1>5. "hostlist" \in Done' /\ use_mpi' => hosts' # "unasked"
  <2>1. /\ use_mpi' = use_mpi
        /\ hosts' = hosts \/ (hosts = "unasked" /\ hosts' \in {"list", "error"})
        /\ r \in {"numhosts", "hostlist"} /\ use_mpi => hosts' # "unasked"
    BY DEF Returned
  <2> QED BY <1>2, <1>3, <2>1
<1>6. DOMAIN registered' = UNION {PairsOf(q) : q \in Telling'}
  <2>1. res \in {0, -1} /\ DOMAIN pairs = (IF res = 0 THEN PairsOf(r) ELSE {})
    BY DEF Returned
  <2> QED BY <1>1, <1>2, <1>3, <2>1
<1> QED BY <1>1, <1>3, <1>4, <1>5, <1>6 DEF Collected

\* A return keeps RoutineInv.
LEMMA ReturnedKeeps ==
    ASSUME RoutineInv, NEW r, NEW res, NEW pairs, Returned(r, res, pairs)
    PROVE  RoutineInv'
BY TypesAfterReturn, RunsOnceAfterReturn, ResultAfterReturn, CollectedAfterReturn,
   DirectoryAfterReturn, VersionAfterReturn DEF RoutineInv

\* RoutineInv holds initially.
LEMMA RoutineInvInit == Init => RoutineInv
<1> SUFFICES ASSUME Init PROVE RoutineInv
  OBVIOUS
<1>1. /\ use_mpi \in BOOLEAN /\ hosts = "unasked" /\ call = "none" /\ todo = << >> /\ count = 0
      /\ result = 0 /\ registered = NoPairs /\ failed = {} /\ now = System.start
  BY DEF Init
<1>2. DOMAIN NoPairs = {} /\ "none" \notin Routines /\ MaxFaults \in Nat
  BY AllRoutines, CollectorsAssumption DEF NoPairs, CollectorsAssumption
<1>3. IsFiniteSet({}) /\ Cardinality({}) = 0
  BY FS_EmptySet
<1>4. CallTypes
  BY <1>1, <1>2, <1>3 DEF CallTypes, Answers
<1>5. RunsOnce /\ OneResult /\ Collected /\ DirectoryRead /\ VersionRead
  BY <1>1, <1>2 DEF RunsOnce, OneResult, Collected, DirectoryRead, VersionRead, Distinct, Entries
<1> QED BY <1>4, <1>5 DEF RoutineInv

\* Every step keeps RoutineInv.
LEMMA RoutineNext ==
    ASSUME RoutineInv, [Next]_vars
    PROVE  RoutineInv'
<1>1. hosts \in Answers
  BY DEF RoutineInv, CallTypes
<1>2. CASE Call
  <2>1. PICK name, routines : Begin(name, routines) /\ Starts(name, routines)
    BY <1>2, CallBegins
  <2> QED BY <2>1, StartOfCall
<1>3. CASE Within
  BY <1>3, WithinKeeps
<1>4. CASE \E r, res, pairs : Returned(r, res, pairs)
  BY <1>4, ReturnedKeeps
<1> QED BY <1>1, <1>2, <1>3, <1>4, ReturnCases

-----------------------------------------------------------------------------
\* A routine returns that is neither adiak_cmdline nor adiak_libraries.
Apart ==
    \E r, pairs :
        /\ Running(r) /\ r \notin {"cmdline", "libraries"} /\ step' = "start"
        /\ registered' = Add(pairs, registered) /\ DOMAIN pairs \cap {"cmdline", "libraries"} = {}
        /\ failed \subseteq failed'
        /\ UNCHANGED <<args, file, retitled, libs, errno, interrupts, loads, unloaded,
                       size, buffer, counted, names>>

\* A return of a routine other than these two is such a step.
LEMMA ReturnedApart ==
    ASSUME NEW r, NEW res, NEW pairs, Returned(r, res, pairs), Simple,
           r \notin {"cmdline", "libraries"}
    PROVE  Apart
<1>1. DOMAIN pairs \subseteq PairsOf(r) /\ r \in Routines \cup Timers
  BY DEF Returned
<1>2. DOMAIN pairs \cap {"cmdline", "libraries"} = {}
  BY <1>1 DEF PairsOf
<1>3. /\ Running(r) /\ step' = "start" /\ registered' = Add(pairs, registered)
      /\ failed \subseteq failed'
  BY DEF Returned, Finish, Fault
<1>4. UNCHANGED <<args, file, retitled, libs, errno, interrupts, loads, unloaded,
                  size, buffer, counted, names>>
  BY DEF Simple, systemVars, eventVars, cmdlineVars, libraryVars
<1> QED BY <1>2, <1>3, <1>4 DEF Apart

\* So is every one-step routine of the model.
LEMMA ApartSteps ==
    ASSUME hosts \in Answers,
           \/ \E r \in DOMAIN Found : CollectOne(r)
           \/ adiak_job_size \/ adiak_num_hosts \/ adiak_hostlist
           \/ adiak_mpi_version \/ adiak_mpi_library \/ adiak_mpi_library_version
           \/ MeasureTimes("cputime") \/ MeasureTimes("systime") \/ measure_walltime
    PROVE  Apart
<1>1. CASE \E r \in DOMAIN Found : CollectOne(r)
  <2>1. PICK r \in DOMAIN Found : CollectOne(r)
    BY <1>1
  <2>2. Simple /\ r \notin {"cmdline", "libraries"}
    BY <2>1, AllRoutines DEF CollectOne
  <2> QED BY <2>1, <2>2, OneCallReturns, ReturnedApart
<1>2. CASE adiak_job_size
  <2>1. Simple
    BY <1>2 DEF adiak_job_size
  <2> QED BY <1>2, <2>1, JobSizeReturns, ReturnedApart
<1>3. CASE adiak_num_hosts
  <2>1. Simple
    BY <1>3 DEF adiak_num_hosts
  <2>2. \E res, pairs : Returned("numhosts", res, pairs)
    BY <1>3, NumHostsReturns
  <2> QED BY <2>1, <2>2, ReturnedApart
<1>4. CASE adiak_hostlist
  <2>1. Simple
    BY <1>4 DEF adiak_hostlist
  <2>2. \E res, pairs : Returned("hostlist", res, pairs)
    BY <1>4, HostlistReturns
  <2> QED BY <2>1, <2>2, ReturnedApart
<1>5. CASE adiak_mpi_version
  <2>1. Simple
    BY <1>5 DEF adiak_mpi_version
  <2> QED BY <1>5, <2>1, MpiVersionReturns, ReturnedApart
<1>6. CASE adiak_mpi_library
  <2>1. Simple
    BY <1>6 DEF adiak_mpi_library
  <2> QED BY <1>6, <2>1, MpiLibraryReturns, ReturnedApart
<1>7. CASE adiak_mpi_library_version
  <2>1. Simple
    BY <1>7 DEF adiak_mpi_library_version
  <2> QED BY <1>7, <2>1, MpiLibraryVersionReturns, ReturnedApart
<1>8. ASSUME NEW r \in Timers,
             \/ r \in {"cputime", "systime"} /\ MeasureTimes(r)
             \/ r = "walltime" /\ measure_walltime
      PROVE  Apart
  <2>1. Simple
    BY <1>8 DEF MeasureTimes, measure_walltime
  <2>2. \E res, pairs : Returned(r, res, pairs)
    BY <1>8, TimersReturn
  <2>3. r \notin {"cmdline", "libraries"}
    BY DEF Timers
  <2> QED BY <2>1, <2>2, <2>3, ReturnedApart
<1>9. {"cputime", "systime", "walltime"} = Timers
  BY DEF Timers
<1> QED BY <1>1, <1>2, <1>3, <1>4, <1>5, <1>6, <1>7, <1>8, <1>9

CmdlineStep ==
    \/ OpenCmdline \/ MeasureCmdline \/ MeasureForEver \/ ReadBytes \/ ReadNothing \/ ReadError \/ SplitCmdline
    \/ \E t \in Titles : Retitle(t)
LibrariesStep ==
    \/ CountLibraries \/ StoreNames \/ adiak_libraries
    \/ \E l \in LaterLibraries : Load(l) \/ Unload(l)

\* Next, as far as the command line and the libraries go.
LEMMA ApartCases ==
    ASSUME [Next]_vars, hosts \in Answers
    PROVE  \/ UNCHANGED vars
           \/ \E name, routines : Begin(name, routines)
           \/ Apart \/ CmdlineStep \/ LibrariesStep
<1>1. CASE Call
  BY <1>1, CallBegins
<1>2. CASE Collect
  BY <1>2, ApartSteps DEF Collect, CmdlineStep, LibrariesStep
<1>3. CASE Others
  BY <1>3 DEF Others, CmdlineStep, LibrariesStep
<1> QED BY <1>1, <1>2, <1>3 DEF Next

\* A step of one of the two routines, as far as the other goes.
LEMMA CmdlineApart ==
    ASSUME CmdlineStep
    PROVE  /\ UNCHANGED <<libs, loads, unloaded, counted, names>> /\ Running("cmdline")
           /\ step' \notin {"store", "register"}
           /\ \/ registered' = registered
              \/ \E x : registered' = Add(Pair("cmdline", x), registered)
              \/ registered' = Add(NoPairs, registered)
<1>1. UNCHANGED <<libs, loads, unloaded, counted, names>> /\ Running("cmdline")
  BY DEF CmdlineStep, OpenCmdline, MeasureCmdline, MeasureForEver, ReadBytes, ReadNothing, ReadError, SplitCmdline,
         Retitle, Cmdline, systemVars, eventVars, libraryVars
<1>2. CASE OpenCmdline
  BY <1>1, <1>2 DEF OpenCmdline, Fails, Finish, callVars
<1>3. CASE MeasureCmdline \/ MeasureForEver \/ ReadBytes \/ ReadNothing
  BY <1>1, <1>3 DEF MeasureCmdline, MeasureForEver, ReadBytes, ReadNothing, callVars
<1>4. CASE ReadError
  BY <1>1, <1>4 DEF ReadError, Fails, Finish
<1>5. CASE SplitCmdline
  <2>1. \E x : Succeeds(Pair("cmdline", x))
    BY <1>5 DEF SplitCmdline
  <2> QED BY <1>1, <2>1 DEF Succeeds, Finish
<1>6. CASE \E t \in Titles : Retitle(t)
  BY <1>1, <1>6 DEF Retitle, callVars
<1> QED BY <1>2, <1>3, <1>4, <1>5, <1>6 DEF CmdlineStep

\* The steps of adiak_libraries leave the command line alone.
LEMMA LibrariesApart ==
    ASSUME LibrariesStep
    PROVE  /\ UNCHANGED <<args, file, retitled, errno, interrupts, size, buffer, failed>>
           /\ Running("libraries")
           /\ step' \in {step, "start", "store", "register"}
           /\ \/ registered' = registered
              \/ \E x : registered' = Add(Pair("libraries", x), registered)
<1>1. CASE CountLibraries \/ StoreNames
  BY <1>1 DEF CountLibraries, StoreNames, Libraries, systemVars, processVars, cmdlineVars, callVars
<1>2. CASE adiak_libraries
  <2>1. \E x : Succeeds(Pair("libraries", x))
    BY <1>2 DEF adiak_libraries
  <2>2. Libraries /\ Running("libraries")
    BY <1>2 DEF adiak_libraries
  <2> QED BY <2>1, <2>2 DEF Succeeds, Finish, Libraries, systemVars, processVars, cmdlineVars
<1>3. CASE \E l \in LaterLibraries : Load(l) \/ Unload(l)
  BY <1>3 DEF Load, Unload, processVars, cmdlineVars, callVars
<1> QED BY <1>1, <1>2, <1>3 DEF LibrariesStep
-----------------------------------------------------------------------------
\* The names of the objects, and how many of them have one.
ObjectNames == Entries(Loaded) \cup LaterLibraries
NamedCount == Cardinality(Named(libs))

\* The objects with a name, counted, are as many as the names stored.
LEMMA NamedIs ==
    ASSUME NEW S, NEW objects \in Seq(S)
    PROVE  /\ IsFiniteSet(Named(objects)) /\ Cardinality(Named(objects)) \in Nat
           /\ get_library_name(objects) \in Seq(S)
           /\ Len(get_library_name(objects)) = Cardinality(Named(objects))
           /\ Entries(get_library_name(objects)) \subseteq Entries(objects)
<1>0. DOMAIN objects = 1..Len(objects) /\ Len(objects) \in Nat
  OBVIOUS
<1>1. Named(objects) \subseteq 1..Len(objects)
  BY <1>0 DEF Named
<1>2. PICK N : N = Named(objects)
  OBVIOUS
<1>3. IsFiniteSet(N) /\ Cardinality(N) \in Nat /\ \A j \in 1..Cardinality(N) : Nth(N, j) \in N
  BY <1>0, <1>1, <1>2, NthIn
<1>4. PICK c \in Nat : c = Cardinality(N)
  BY <1>3
<1>5. get_library_name(objects) = [j \in 1..c |-> objects[Nth(N, j)]]
  BY <1>2, <1>4 DEF get_library_name
<1>6. \A j \in 1..c : Nth(N, j) \in 1..Len(objects)
  BY <1>1, <1>2, <1>3, <1>4
<1>7. \A j \in 1..c : objects[Nth(N, j)] \in S /\ objects[Nth(N, j)] \in Entries(objects)
  BY <1>6 DEF Entries
<1>8. PICK g : g = get_library_name(objects)
  OBVIOUS
<1>9. g \in [1..c -> S] /\ \A j \in 1..c : g[j] \in Entries(objects)
  BY <1>5, <1>7, <1>8
<1>10. g \in Seq(S) /\ Len(g) = c /\ Entries(g) \subseteq Entries(objects)
  BY <1>9 DEF Entries
<1> QED BY <1>2, <1>3, <1>4, <1>8, <1>10

\* One more object.
LEMMA NamedAfterLoad ==
    ASSUME NEW S, NEW objects \in Seq(S), NEW l \in S
    PROVE  /\ Append(objects, l) \in Seq(S)
           /\ Entries(objects) \subseteq Entries(Append(objects, l))
           /\ Cardinality(Named(Append(objects, l)))
                 \in {Cardinality(Named(objects)), Cardinality(Named(objects)) + 1}
<1>0. PICK n \in Nat : n = Len(objects)
  OBVIOUS
<1>1. PICK t : t = Append(objects, l)
  OBVIOUS
<1>2. /\ t \in Seq(S) /\ Len(t) = n + 1 /\ t[n + 1] = l /\ \A i \in 1..n : t[i] = objects[i]
      /\ DOMAIN t = 1..(n + 1) /\ DOMAIN objects = 1..n
  BY <1>0, <1>1
<1>3. 1..(n + 1) = 1..n \cup {n + 1} /\ n + 1 \notin 1..n
  OBVIOUS
<1>4. Entries(objects) \subseteq Entries(t)
  BY <1>2, <1>3 DEF Entries
<1>5. Named(t) = Named(objects) \/ Named(t) = Named(objects) \cup {n + 1}
  <2>1. \A i \in 1..n : t[i] # "" <=> objects[i] # ""
    BY <1>2
  <2> QED BY <1>2, <1>3, <2>1 DEF Named
<1>6. IsFiniteSet(Named(objects)) /\ n + 1 \notin Named(objects)
  BY <1>2, <1>3, NamedIs DEF Named
<1>7. Cardinality(Named(t)) \in {Cardinality(Named(objects)), Cardinality(Named(objects)) + 1}
  BY <1>5, <1>6, FS_AddElement
<1> QED BY <1>1, <1>2, <1>4, <1>7

\* The sequence s without its i-th entry.
Without(s, i) == SubSeq(s, 1, i - 1) \o SubSeq(s, i + 1, Len(s))

\* A sequence without its i-th entry.
LEMMA WithoutIs ==
    ASSUME NEW S, NEW s \in Seq(S), NEW i \in 1..Len(s)
    PROVE  /\ Without(s, i) \in Seq(S) /\ Len(Without(s, i)) = Len(s) - 1
           /\ \A j \in 1..(Len(s) - 1) : Without(s, i)[j] = IF j < i THEN s[j] ELSE s[j + 1]
<1>0. PICK n \in Nat : n = Len(s) /\ i \in 1..n
  OBVIOUS
<1>1. PICK a, b : a = SubSeq(s, 1, i - 1) /\ b = SubSeq(s, i + 1, n)
  BY Zenon
<1>2. /\ a \in Seq(S) /\ Len(a) = i - 1 /\ \A j \in 1..(i - 1) : a[j] = s[j]
  BY <1>0, <1>1
<1>3. /\ b \in Seq(S) /\ Len(b) = n - i /\ \A j \in 1..(n - i) : b[j] = s[i + j]
  <2>1. b = [j \in 1..(n - i) |-> s[i + j]] /\ \A j \in 1..(n - i) : i + j \in 1..n
    BY <1>0, <1>1
  <2>2. \A j \in 1..(n - i) : b[j] = s[i + j] /\ b[j] \in S
    BY <1>0, <2>1
  <2>3. n - i \in Nat /\ b \in [1..(n - i) -> S]
    BY <1>0, <2>1, <2>2
  <2> QED BY <2>2, <2>3
<1>4. PICK t : t = a \o b
  OBVIOUS
<1>5. /\ t \in Seq(S) /\ Len(t) = n - 1
      /\ \A j \in 1..(i - 1) : t[j] = a[j]
      /\ \A j \in 1..(n - i) : t[i - 1 + j] = b[j]
  <2>1. /\ t \in Seq(S) /\ Len(t) = Len(a) + Len(b)
        /\ \A j \in 1..Len(a) : t[j] = a[j]
        /\ \A j \in 1..Len(b) : t[Len(a) + j] = b[j]
    <3>1. a \in Seq(S) /\ b \in Seq(S)
      BY <1>2, <1>3
    <3> QED BY <3>1, <1>4
  <2>2. Len(a) + Len(b) = n - 1
    BY <1>0, <1>2, <1>3
  <2> QED BY <1>2, <1>3, <2>1, <2>2
<1>6. ASSUME NEW j \in 1..(n - 1) PROVE t[j] = IF j < i THEN s[j] ELSE s[j + 1]
  <2>1. CASE j < i
    <3>1. j \in 1..(i - 1)
      BY <2>1, <1>0
    <3> QED BY <2>1, <3>1, <1>2, <1>5
  <2>2. CASE ~(j < i)
    <3>1. PICK k \in 1..(n - i) : j = i - 1 + k
      <4>1. j - i + 1 \in 1..(n - i) /\ j = i - 1 + (j - i + 1)
        BY <2>2, <1>0
      <4> QED BY <4>1
    <3>2. b[k] = s[i + k] /\ t[i - 1 + k] = b[k]
      BY <3>1, <1>3, <1>5
    <3>3. i + k = j + 1
      BY <3>1, <1>0
    <3>4. t[j] = s[j + 1]
      BY <3>1, <3>2, <3>3
    <3> QED BY <2>2, <3>4
  <2> QED BY <2>1, <2>2
<1>7. t = Without(s, i)
  BY <1>0, <1>1, <1>4 DEF Without
<1> QED BY <1>0, <1>5, <1>6, <1>7

\* One object less.
LEMMA NamedAfterUnload ==
    ASSUME NEW S, NEW objects \in Seq(S), NEW i \in 1..Len(objects)
    PROVE  /\ Without(objects, i) \in Seq(S)
           /\ Cardinality(Named(Without(objects, i))) <= Cardinality(Named(objects))
<1>n. PICK n \in Nat : n = Len(objects)
  OBVIOUS
<1>1. PICK t : t = Without(objects, i)
  OBVIOUS
<1>2. /\ t \in Seq(S) /\ Len(t) = n - 1 /\ i \in 1..n
      /\ \A j \in 1..(n - 1) : t[j] = IF j < i THEN objects[j] ELSE objects[j + 1]
  BY <1>n, <1>1, WithoutIs
<1>3. PICK N, M : N = Named(t) /\ M = Named(objects)
  OBVIOUS
<1>0. DOMAIN t = 1..(n - 1) /\ DOMAIN objects = 1..n
  <2>1. n - 1 \in Nat
    BY <1>2
  <2> QED BY <1>n, <1>2, <2>1
<1>4. N \subseteq 1..(n - 1) /\ M \subseteq 1..n /\ IsFiniteSet(M)
  <2>1. IsFiniteSet(M)
    BY <1>3, NamedIs
  <2> QED BY <1>0, <1>3, <2>1 DEF Named
<1>5. PICK f : f = [j \in N |-> IF j < i THEN j ELSE j + 1]
  OBVIOUS
<1>6. \A j \in N : f[j] \in M
  <2> SUFFICES ASSUME NEW j \in N PROVE f[j] \in M
    OBVIOUS
  <2>1. j \in 1..(n - 1) /\ t[j] # ""
    BY <1>2, <1>3, <1>4 DEF Named
  <2>2. f[j] = (IF j < i THEN j ELSE j + 1) /\ f[j] \in 1..n
    <3>1. \A k \in 1..(n - 1) : k \in 1..n /\ k + 1 \in 1..n
      BY <1>n
    <3>2. j \in 1..n /\ j + 1 \in 1..n
      BY <2>1, <3>1
    <3> QED BY <1>5, <3>2
  <2>3. objects[f[j]] = t[j]
    BY <1>2, <2>1, <2>2
  <2> QED BY <1>0, <1>3, <2>1, <2>2, <2>3 DEF Named
<1>7. \A j, k \in N : f[j] = f[k] => j = k
  <2> SUFFICES ASSUME NEW j \in N, NEW k \in N, f[j] = f[k] PROVE j = k
    OBVIOUS
  <2>1. j \in 1..(n - 1) /\ k \in 1..(n - 1) /\ i \in 1..n
    BY <1>2, <1>4
  <2>2. (IF j < i THEN j ELSE j + 1) = (IF k < i THEN k ELSE k + 1)
    BY <1>5
  <2> QED BY <2>1, <2>2
<1>8. f \in Injection(N, M)
  <2>1. f \in [N -> M] /\ DOMAIN f = N
    BY <1>5, <1>6
  <2> QED BY <1>7, <2>1 DEF Injection, IsInjective
<1>9. Cardinality(N) <= Cardinality(M)
  BY <1>4, <1>8, FS_Injection
<1> QED BY <1>1, <1>2, <1>3, <1>9

-----------------------------------------------------------------------------
\* The loaded objects while adiak_libraries runs: the passes differ by what was
\* loaded and unloaded meanwhile.
LibrariesInv ==
    /\ libs \in Seq(ObjectNames) /\ counted \in Nat /\ names \in Seq(ObjectNames)
    /\ loads \in 0..MaxLoads /\ unloaded \in BOOLEAN
    /\ step \in {"store", "register"} => Running("libraries")
    /\ step # "register" => names = << >>
    /\ step = "store"
         => /\ NamedCount <= counted + loads
            /\ ~unloaded => counted <= NamedCount
    /\ step = "register"
         => /\ Len(names) <= counted + loads
            /\ ~unloaded => counted <= Len(names) /\ Entries(names) \subseteq Entries(libs)
    /\ "libraries" \in DOMAIN registered /\ ~unloaded
         => \A i \in DOMAIN registered["libraries"] : registered["libraries"][i] # Garbage

\* What has been registered stays.
LEMMA LibrariesKept ==
    ASSUME LibrariesInv, UNCHANGED unloaded, NEW pairs, "libraries" \notin DOMAIN pairs,
           registered' = registered \/ registered' = Add(pairs, registered)
    PROVE  "libraries" \in DOMAIN registered' /\ ~unloaded'
             => \A i \in DOMAIN registered'["libraries"] : registered'["libraries"][i] # Garbage
<1>1. CASE registered' = registered
  BY <1>1 DEF LibrariesInv
<1>2. CASE registered' = Add(pairs, registered)
  <2>1. "libraries" \in DOMAIN registered' => /\ "libraries" \in DOMAIN registered
                                              /\ registered'["libraries"] = registered["libraries"]
    BY <1>2 DEF Add
  <2> QED BY <2>1 DEF LibrariesInv
<1> QED BY <1>1, <1>2

\* A step that does not look at the objects.
LEMMA LibrariesAside ==
    ASSUME LibrariesInv, UNCHANGED <<libs, loads, unloaded, counted, names>>,
           NEW r, Running(r), r # "libraries", step' \notin {"store", "register"},
           NEW pairs, "libraries" \notin DOMAIN pairs,
           registered' = registered \/ registered' = Add(pairs, registered)
    PROVE  LibrariesInv'
<1>1. step \notin {"store", "register"}
  BY DEF LibrariesInv, Running
<1>2. names' = << >>
  BY <1>1 DEF LibrariesInv
<1> QED BY <1>2, LibrariesKept DEF LibrariesInv

\* Both passes over the libraries keep LibrariesInv.
LEMMA LibrariesPasses ==
    ASSUME LibrariesInv, CountLibraries \/ StoreNames
    PROVE  LibrariesInv'
<1>1. /\ UNCHANGED <<libs, loads, unloaded, todo, registered>> /\ Running("libraries")
      /\ Running("libraries")'
  BY DEF CountLibraries, StoreNames, Libraries, systemVars, callVars, Running
<1>2. NamedCount' = NamedCount /\ NamedCount \in Nat /\ MaxLoads \in Nat /\ loads \in Nat
  <2>1. libs \in Seq(ObjectNames) /\ loads \in Nat
    BY DEF LibrariesInv
  <2>2. MaxLoads \in Nat
    BY CollectorsAssumption DEF CollectorsAssumption
  <2>3. NamedCount \in Nat
    BY <2>1, NamedIs DEF NamedCount
  <2> QED BY <1>1, <2>1, <2>2, <2>3 DEF NamedCount
<1>3. CASE CountLibraries
  <2>1. step' = "store" /\ counted' = NamedCount /\ names' = names /\ step = "start"
    BY <1>3 DEF CountLibraries, count_libraries, NamedCount
  <2>2. names' = << >>
    BY <2>1 DEF LibrariesInv
  <2>3. NamedCount' <= counted' + loads' /\ counted' <= NamedCount'
    BY <1>1, <1>2, <2>1
  <2> QED BY <1>1, <1>2, <2>1, <2>2, <2>3 DEF LibrariesInv
<1>4. CASE StoreNames
  <2>1. /\ step' = "register" /\ names' = get_library_name(libs) /\ counted' = counted
        /\ step = "store"
    BY <1>4 DEF StoreNames
  <2>2. /\ names' \in Seq(ObjectNames) /\ Len(names') = NamedCount
        /\ Entries(names') \subseteq Entries(libs')
    BY <1>1, <2>1, NamedIs DEF NamedCount, LibrariesInv
  <2> QED BY <1>1, <1>2, <2>1, <2>2 DEF LibrariesInv
<1> QED BY <1>3, <1>4

\* So does the registration of the names.
LEMMA LibrariesRegistered ==
    ASSUME LibrariesInv, adiak_libraries
    PROVE  LibrariesInv'
<1> USE CollectorsAssumption DEF CollectorsAssumption
<1>1. /\ UNCHANGED <<libs, unloaded>> /\ loads' = 0 /\ counted' = 0 /\ names' = << >>
      /\ step = "register" /\ step' = "start"
  BY DEF adiak_libraries, Libraries, systemVars, Succeeds, Finish
<1>2. PICK x : x = [i \in 1..counted |->
                 IF i <= Len(names) /\ \E j \in DOMAIN libs : libs[j] = names[i]
                 THEN names[i] ELSE Garbage]
  OBVIOUS
<1>3. registered' = Add(Pair("libraries", x), registered)
  BY <1>2 DEF adiak_libraries, Succeeds, Finish
<1>4. registered'["libraries"] = x
  BY <1>3 DEF Add, Pair
<1>5. ASSUME ~unloaded, NEW i \in DOMAIN x PROVE x[i] # Garbage
  <2>1. i \in 1..counted /\ counted \in Nat
    BY <1>2 DEF LibrariesInv
  <2>2. counted <= Len(names) /\ Entries(names) \subseteq Entries(libs) /\ names \in Seq(ObjectNames)
    BY <1>1, <1>5 DEF LibrariesInv
  <2>3. i <= Len(names) /\ i \in DOMAIN names
    BY <2>1, <2>2
  <2>4. names[i] \in Entries(libs) /\ names[i] \in ObjectNames
    BY <2>2, <2>3 DEF Entries
  <2>5. x[i] = names[i]
    BY <1>2, <2>1, <2>3, <2>4 DEF Entries
  <2>6. Garbage \notin ObjectNames
    BY DEF ObjectNames
  <2> QED BY <2>4, <2>5, <2>6
<1>6. 0 \in 0..MaxLoads /\ << >> \in Seq(ObjectNames)
  OBVIOUS
<1> QED BY <1>1, <1>4, <1>5, <1>6 DEF LibrariesInv

\* So does a library loaded between the passes.
LEMMA LibrariesLoaded ==
    ASSUME LibrariesInv, NEW l \in LaterLibraries, Load(l)
    PROVE  LibrariesInv'
<1>1. /\ libs' = Append(libs, l) /\ loads' = loads + 1 /\ loads < MaxLoads
      /\ UNCHANGED <<unloaded, counted, names, step, todo, registered>>
  BY DEF Load, callVars, libraryVars
<1>2. l \in ObjectNames /\ libs \in Seq(ObjectNames) /\ MaxLoads \in Nat
  BY CollectorsAssumption DEF ObjectNames, LibrariesInv, CollectorsAssumption
<1>3. PICK k : k = Append(libs, l)
  OBVIOUS
<1>4. /\ k \in Seq(ObjectNames) /\ Entries(libs) \subseteq Entries(k)
      /\ Cardinality(Named(k)) \in {NamedCount, NamedCount + 1}
  BY <1>2, <1>3, NamedAfterLoad DEF NamedCount
<1>5. NamedCount' = Cardinality(Named(k)) /\ NamedCount \in Nat
  BY <1>1, <1>2, <1>3, NamedIs DEF NamedCount
<1>6. loads \in Nat /\ counted \in Nat /\ loads' \in 0..MaxLoads
  BY <1>1, <1>2 DEF LibrariesInv
<1>7. step \in {"store", "register"} => Running("libraries")'
  BY <1>1 DEF LibrariesInv, Running
<1>8. ASSUME step = "store"
      PROVE  NamedCount' <= counted' + loads' /\ (~unloaded' => counted' <= NamedCount')
  BY <1>1, <1>4, <1>5, <1>6, <1>8 DEF LibrariesInv
<1>9. ASSUME step = "register"
      PROVE  /\ Len(names') <= counted' + loads'
             /\ ~unloaded' => counted' <= Len(names') /\ Entries(names') \subseteq Entries(libs')
  <2>1. Len(names) \in Nat /\ Len(names) <= counted + loads
    BY <1>9 DEF LibrariesInv
  <2>2. Len(names) <= counted + (loads + 1)
    BY <1>6, <2>1
  <2> QED BY <1>1, <1>3, <1>4, <1>9, <2>2 DEF LibrariesInv
<1>10. libs' \in Seq(ObjectNames)
  BY <1>1, <1>3, <1>4
<1> QED BY <1>1, <1>6, <1>7, <1>8, <1>9, <1>10 DEF LibrariesInv

\* So does a library unloaded between the passes.
LEMMA LibrariesUnloaded ==
    ASSUME LibrariesInv, NEW l \in LaterLibraries, Unload(l)
    PROVE  LibrariesInv'
<1>1. /\ unloaded' = TRUE /\ UNCHANGED <<loads, counted, names, step, todo>>
      /\ \E i \in DOMAIN libs : libs' = Without(libs, i)
  BY DEF Unload, callVars, libraryVars, Without
<1>2. PICK i \in 1..Len(libs) : libs' = Without(libs, i)
  BY <1>1 DEF LibrariesInv
<1>3. libs \in Seq(ObjectNames)
  BY DEF LibrariesInv
<1>4. /\ Without(libs, i) \in Seq(ObjectNames)
      /\ Cardinality(Named(Without(libs, i))) <= Cardinality(Named(libs))
  BY <1>3, NamedAfterUnload
<1>5. NamedCount' <= NamedCount /\ libs' \in Seq(ObjectNames)
  BY <1>2, <1>4 DEF NamedCount
<1>6. NamedCount \in Nat /\ NamedCount' \in Nat /\ loads \in Nat /\ counted \in Nat
  <2>1. Cardinality(Named(libs)) \in Nat /\ Cardinality(Named(libs')) \in Nat
    BY <1>3, <1>5, NamedIs
  <2> QED BY <2>1 DEF NamedCount, LibrariesInv
<1>7. step = "store" => NamedCount' <= counted' + loads'
  <2> SUFFICES ASSUME step = "store" PROVE NamedCount' <= counted' + loads'
    OBVIOUS
  <2>1. NamedCount <= counted + loads
    BY DEF LibrariesInv
  <2> QED BY <1>1, <1>5, <1>6, <2>1
<1>8. step \in {"store", "register"} => Running("libraries")'
  BY <1>1 DEF LibrariesInv, Running
<1> QED BY <1>1, <1>5, <1>7, <1>8 DEF LibrariesInv

\* So does the beginning of a call.
LEMMA LibrariesBegin ==
    ASSUME LibrariesInv, NEW name, NEW routines, Begin(name, routines)
    PROVE  LibrariesInv'
<1>1. /\ libs' = libs /\ loads' = 0 /\ unloaded' = FALSE /\ counted' = 0 /\ names' = << >>
      /\ step' = "start" /\ registered' = NoPairs
  BY DEF Begin, systemVars
<1>2. /\ MaxLoads \in Nat /\ 0 \in 0..MaxLoads /\ DOMAIN NoPairs = {} /\ 0 \in Nat
      /\ << >> \in Seq(ObjectNames) /\ libs \in Seq(ObjectNames)
  BY CollectorsAssumption DEF CollectorsAssumption, NoPairs, LibrariesInv
<1> QED BY <1>1, <1>2 DEF LibrariesInv

\* LibrariesInv holds initially.
LEMMA LibrariesInit == Init => LibrariesInv
<1> SUFFICES ASSUME Init PROVE LibrariesInv
  OBVIOUS
<1>1. /\ libs = Loaded /\ loads = 0 /\ unloaded = FALSE /\ counted = 0 /\ names = << >>
      /\ step = "start" /\ registered = NoPairs
  BY DEF Init
<1>2. MaxLoads \in Nat /\ 0 \in 0..MaxLoads /\ DOMAIN NoPairs = {} /\ Loaded \in Seq(Entries(Loaded))
  BY CollectorsAssumption DEF CollectorsAssumption, NoPairs, IsSeq
<1>3. Loaded \in Seq(ObjectNames) /\ << >> \in Seq(ObjectNames)
  BY <1>2 DEF ObjectNames
<1> QED BY <1>1, <1>2, <1>3 DEF LibrariesInv

\* Every step keeps LibrariesInv.
LEMMA LibrariesNext ==
    ASSUME LibrariesInv, [Next]_vars, hosts \in Answers
    PROVE  LibrariesInv'
<1>0. DOMAIN NoPairs = {} /\ \A x : "libraries" \notin DOMAIN Pair("cmdline", x)
  BY DEF NoPairs, Pair
<1>1. CASE UNCHANGED vars
  BY <1>1 DEF vars, systemVars, eventVars, libraryVars, callVars, LibrariesInv, NamedCount, Running
<1>2. CASE \E name, routines : Begin(name, routines)
  BY <1>2, LibrariesBegin
<1>3. CASE Apart
  <2>1. PICK r, pairs :
          /\ Running(r) /\ r \notin {"cmdline", "libraries"} /\ step' = "start"
          /\ registered' = Add(pairs, registered) /\ DOMAIN pairs \cap {"cmdline", "libraries"} = {}
          /\ UNCHANGED <<libs, loads, unloaded, counted, names>>
    BY <1>3 DEF Apart
  <2>2. r # "libraries" /\ step' \notin {"store", "register"} /\ "libraries" \notin DOMAIN pairs
    BY <2>1
  <2> QED BY <2>1, <2>2, LibrariesAside
<1>4. CASE CmdlineStep
  <2>1. /\ UNCHANGED <<libs, loads, unloaded, counted, names>> /\ Running("cmdline")
        /\ step' \notin {"store", "register"}
        /\ \/ registered' = registered
           \/ \E x : registered' = Add(Pair("cmdline", x), registered)
           \/ registered' = Add(NoPairs, registered)
    BY <1>4, CmdlineApart
  <2>2. PICK pairs : /\ "libraries" \notin DOMAIN pairs
                     /\ registered' = registered \/ registered' = Add(pairs, registered)
    BY <1>0, <2>1
  <2> QED BY <2>1, <2>2, LibrariesAside
<1>5. CASE LibrariesStep
  BY <1>5, LibrariesPasses, LibrariesRegistered, LibrariesLoaded, LibrariesUnloaded
     DEF LibrariesStep
<1> QED BY <1>1, <1>2, <1>3, <1>4, <1>5, ApartCases
-----------------------------------------------------------------------------
\* What the command line consists of.
Characters(a) == UNION {Entries(a[i]) : i \in DOMAIN a}
Bytes ==
    {NUL} \cup (UNION {Entries(t) : t \in Titles}) \cup (UNION {Characters(a) : a \in ArgLists})

\* Titles and images are sequences of bytes, and the arguments come back from theirs.
LEMMA BytesAre ==
    /\ \A t \in Titles : t \in Seq(Bytes)
    /\ \A a \in ArgLists : Image(a) \in Seq(Bytes) /\ myargv(Image(a)) = a
<1>1. ASSUME NEW t \in Titles PROVE t \in Seq(Bytes)
  <2>1. t \in Seq(Entries(t)) /\ Entries(t) \subseteq Bytes
    BY CollectorsAssumption DEF CollectorsAssumption, IsSeq, Bytes
  <2> QED BY <2>1
<1>2. ASSUME NEW a \in ArgLists PROVE Image(a) \in Seq(Bytes) /\ myargv(Image(a)) = a
  <2>1. /\ a \in Seq(Entries(a))
        /\ \A i \in DOMAIN a : a[i] \in Seq(Entries(a[i])) /\ NUL \notin Entries(a[i])
    BY CollectorsAssumption DEF CollectorsAssumption, IsSeq
  <2>2. ASSUME NEW i \in DOMAIN a PROVE Entries(a[i]) \subseteq Bytes
    <3>1. Entries(a[i]) \subseteq Characters(a)
      BY DEF Characters
    <3>2. Characters(a) \subseteq Bytes
      BY DEF Bytes
    <3> QED BY <3>1, <3>2
  <2>3. \A i \in DOMAIN a : a[i] \in Seq(Bytes)
    <3> SUFFICES ASSUME NEW i \in DOMAIN a PROVE a[i] \in Seq(Bytes)
      OBVIOUS
    <3>1. PICK w : w = a[i]
      OBVIOUS
    <3>2. w \in Seq(Entries(w)) /\ Entries(w) \subseteq Bytes
      BY <2>1, <2>2, <3>1
    <3>3. w \in Seq(Bytes)
      BY <3>2
    <3> QED BY <3>1, <3>3
  <2>4. PICK n \in Nat : n = Len(a) /\ DOMAIN a = 1..n
    BY <2>1
  <2>5. a = [i \in 1..n |-> a[i]]
    BY <2>1, <2>4
  <2>6. a \in [1..n -> Seq(Bytes)]
    BY <2>3, <2>4, <2>5
  <2>7. a \in Seq(Seq(Bytes)) /\ NUL \in Bytes
    BY <2>6 DEF Bytes
  <2>8. \A i \in 1..Len(a) : NUL \notin Entries(a[i])
    BY <2>1, <2>4
  <2> QED BY <2>7, <2>8, ArgumentsComeBack
<1> QED BY <1>1, <1>2

\* The command line was not overwritten, and measured without an error.
Steady == ~retitled /\ "measure" \notin failed

\* The two passes over /proc/self/cmdline.
CmdlineInv ==
    /\ args \in ArgLists /\ file \in {Image(args)} \cup Titles /\ retitled \in BOOLEAN
    /\ ~retitled => file = Image(args)
    /\ errno \in Errnos /\ interrupts \in 0..MaxInterrupts
    /\ buffer \in Seq(Bytes) /\ size \in Nat /\ Len(buffer) <= size
    /\ step \in {"start", "measure", "read", "split", "store", "register"}
    /\ step \in {"measure", "read", "split"} => Running("cmdline")
    /\ step \in {"read", "split"} /\ Steady => size = Len(file) /\ Begins(buffer, file)
    /\ step = "split" /\ Steady => Len(buffer) = Len(file)
    /\ "cmdline" \in DOMAIN registered /\ Steady => registered["cmdline"] = args

\* The file is a sequence of bytes.
LEMMA FileIsSeq ==
    ASSUME CmdlineInv
    PROVE  file \in Seq(Bytes)
BY BytesAre DEF CmdlineInv

\* Bytes that agree with the image of the arguments throughout are that image.
LEMMA WholeImage ==
    ASSUME NEW C, NEW s \in Seq(C), NEW t \in Seq(C), Begins(s, t), Len(s) = Len(t)
    PROVE  [i \in 1..Len(t) |-> IF i <= Len(s) THEN s[i] ELSE NUL] = t
<1>1. \A i \in 1..Len(t) : i <= Len(s) /\ s[i] = t[i]
  BY DEF Begins
<1>2. t = [i \in 1..Len(t) |-> t[i]]
  OBVIOUS
<1> QED BY <1>1, <1>2

\* What one fread appends.
LEMMA OneRead ==
    ASSUME NEW C, NEW s \in Seq(C), NEW t \in Seq(C), NEW k \in 1..(Len(t) - Len(s))
    PROVE  /\ s \o SubSeq(t, Len(s) + 1, Len(s) + k) \in Seq(C)
           /\ Len(s \o SubSeq(t, Len(s) + 1, Len(s) + k)) = Len(s) + k
           /\ Begins(s, t) => Begins(s \o SubSeq(t, Len(s) + 1, Len(s) + k), t)
<1>1. PICK m \in Nat : m = Len(s)
  OBVIOUS
<1>2. PICK n \in Nat : n = Len(t)
  OBVIOUS
<1>3. PICK u : u = SubSeq(t, Len(s) + 1, Len(s) + k)
  BY Zenon
<1>4. u \in Seq(C) /\ Len(u) = k /\ \A q \in 1..k : u[q] = t[m + q]
  <2>1. u = [q \in 1..k |-> t[m + q]] /\ \A q \in 1..k : m + q \in 1..n
    BY <1>1, <1>2, <1>3
  <2>2. \A q \in 1..k : u[q] = t[m + q] /\ u[q] \in C
    <3>1. \A q \in 1..n : t[q] \in C
      BY <1>2
    <3> QED BY <2>1, <3>1
  <2>3. k \in Nat /\ u \in [1..k -> C]
    BY <1>1, <1>2, <2>1, <2>2
  <2> QED BY <2>2, <2>3
<1>5. PICK v : v = s \o u
  OBVIOUS
<1>6. /\ v \in Seq(C) /\ Len(v) = m + k
      /\ \A q \in 1..m : v[q] = s[q]
      /\ \A q \in 1..k : v[m + q] = u[q]
  <2>1. u \in Seq(C)
    BY <1>4
  <2>2. /\ v \in Seq(C) /\ Len(v) = Len(s) + Len(u)
        /\ \A q \in 1..Len(s) : v[q] = s[q]
        /\ \A q \in 1..Len(u) : v[Len(s) + q] = u[q]
    BY <1>5, <2>1
  <2> QED BY <1>1, <1>4, <2>2
<1>7. ASSUME Begins(s, t) PROVE Begins(v, t)
  <2>1. \A q \in 1..m : t[q] = s[q]
    BY <1>1, <1>7 DEF Begins
  <2>2. ASSUME NEW q \in 1..(m + k) PROVE t[q] = v[q]
    <3>1. CASE q \in 1..m
      BY <1>6, <2>1, <3>1
    <3>2. CASE q \notin 1..m
      <4>1. q - m \in 1..k /\ q = m + (q - m)
        BY <1>1, <1>2, <3>2
      <4> QED BY <1>4, <1>6, <4>1
    <3> QED BY <3>1, <3>2
  <2>3. m + k <= n
    BY <1>1, <1>2
  <2> QED BY <1>2, <1>6, <2>2, <2>3 DEF Begins
<1> QED BY <1>1, <1>3, <1>5, <1>6, <1>7

\* What has been registered stays.
LEMMA CmdlineKept ==
    ASSUME CmdlineInv, UNCHANGED <<args, retitled>>, failed \subseteq failed',
           NEW pairs, "cmdline" \notin DOMAIN pairs,
           registered' = registered \/ registered' = Add(pairs, registered)
    PROVE  "cmdline" \in DOMAIN registered' /\ Steady' => registered'["cmdline"] = args'
<1>1. Steady' => Steady
  BY DEF Steady
<1>2. CASE registered' = registered
  BY <1>1, <1>2 DEF CmdlineInv
<1>3. CASE registered' = Add(pairs, registered)
  <2>1. "cmdline" \in DOMAIN registered' => /\ "cmdline" \in DOMAIN registered
                                            /\ registered'["cmdline"] = registered["cmdline"]
    BY <1>3 DEF Add
  <2> QED BY <1>1, <2>1 DEF CmdlineInv
<1> QED BY <1>2, <1>3

\* A step that does not look at the command line.
LEMMA CmdlineAside ==
    ASSUME CmdlineInv, UNCHANGED <<args, file, retitled, errno, interrupts, size, buffer>>,
           failed \subseteq failed', NEW r, Running(r), r # "cmdline",
           step' \in {step, "start", "store", "register"},
           NEW pairs, "cmdline" \notin DOMAIN pairs,
           registered' = registered \/ registered' = Add(pairs, registered)
    PROVE  CmdlineInv'
<1>1. step \notin {"measure", "read", "split"}
  BY DEF CmdlineInv, Running
<1>2. step' \in {"start", "store", "register"}
  BY <1>1 DEF CmdlineInv
<1> QED BY <1>2, CmdlineKept DEF CmdlineInv

\* The beginning of a call keeps CmdlineInv.
LEMMA CmdlineBegin ==
    ASSUME CmdlineInv, NEW name, NEW routines, Begin(name, routines)
    PROVE  CmdlineInv'
<1>1. /\ UNCHANGED <<args, file, retitled, errno>> /\ interrupts' = 0 /\ size' = 0 /\ buffer' = << >>
      /\ step' = "start" /\ registered' = NoPairs
  BY DEF Begin, systemVars, processVars
<1>2. /\ MaxInterrupts \in Nat /\ 0 \in 0..MaxInterrupts /\ DOMAIN NoPairs = {} /\ 0 \in Nat
      /\ << >> \in Seq(Bytes) /\ Len(<< >>) <= 0
  BY CollectorsAssumption DEF CollectorsAssumption, NoPairs
<1> QED BY <1>1, <1>2 DEF CmdlineInv

\* CmdlineInv holds initially.
LEMMA CmdlineInit == Init => CmdlineInv
<1> SUFFICES ASSUME Init PROVE CmdlineInv
  OBVIOUS
<1>1. /\ args \in ArgLists /\ file = Image(args) /\ retitled = FALSE /\ errno \in {"none", "EINTR"}
      /\ interrupts = 0 /\ size = 0 /\ buffer = << >> /\ step = "start" /\ registered = NoPairs
  BY DEF Init
<1>2. /\ MaxInterrupts \in Nat /\ 0 \in 0..MaxInterrupts /\ DOMAIN NoPairs = {} /\ 0 \in Nat
      /\ << >> \in Seq(Bytes) /\ Len(<< >>) <= 0
  BY CollectorsAssumption DEF CollectorsAssumption, NoPairs
<1> QED BY <1>1, <1>2 DEF CmdlineInv, Errnos

\* Opening the file keeps CmdlineInv.
LEMMA CmdlineOpened ==
    ASSUME CmdlineInv, OpenCmdline
    PROVE  CmdlineInv'
<1>1. /\ UNCHANGED <<args, file, retitled, interrupts, size, buffer>> /\ Running("cmdline")
      /\ DOMAIN NoPairs = {}
  BY DEF OpenCmdline, Cmdline, systemVars, cmdlineVars, NoPairs
<1>2. CASE /\ step' = "measure" /\ errno' \in {"none", "EINTR"} /\ UNCHANGED <<callVars, failed>>
  <2>1. UNCHANGED <<todo, registered, failed>>
    BY <1>2 DEF callVars
  <2>2. errno' \in Errnos /\ Running("cmdline")'
    BY <1>1, <1>2, <2>1 DEF Errnos, Running
  <2> QED BY <1>1, <1>2, <2>1, <2>2 DEF CmdlineInv, Steady
<1>3. CASE Fails("cmdline") /\ UNCHANGED errno
  <2>1. registered' = Add(NoPairs, registered) /\ step' = "start" /\ failed \subseteq failed'
    BY <1>3 DEF Fails, Fault, Finish
  <2>2. "cmdline" \in DOMAIN registered' /\ Steady' => registered'["cmdline"] = args'
    BY <1>1, <2>1, CmdlineKept
  <2> QED BY <1>1, <1>3, <2>1, <2>2 DEF CmdlineInv
<1> QED BY <1>2, <1>3 DEF OpenCmdline

\* Measuring the file keeps CmdlineInv.
LEMMA CmdlineMeasured ==
    ASSUME CmdlineInv, MeasureCmdline
    PROVE  CmdlineInv'
<1>1. /\ UNCHANGED <<args, file, retitled, interrupts, todo, registered>> /\ Running("cmdline")
      /\ step' = "read" /\ buffer' = << >> /\ errno' \in Errnos
      /\ failed \subseteq failed'
      /\ size' = Len(file) \/ (size' = Len(file) + 1 /\ "measure" \in failed')
  BY DEF MeasureCmdline, Cmdline, systemVars, callVars, Measured, Fault, Errnos, CmdlineInv
<1>2. Len(file) \in Nat /\ << >> \in Seq(Bytes) /\ Len(<< >>) = 0
  BY FileIsSeq
<1>3. size' \in Nat /\ Len(buffer') <= size' /\ buffer' \in Seq(Bytes)
  BY <1>1, <1>2
<1>4. Begins(<< >>, file)
  BY <1>2 DEF Begins
<1>5. Steady' => size' = Len(file') /\ Begins(buffer', file')
  BY <1>1, <1>4 DEF Steady
<1>6. Running("cmdline")' /\ (Steady' => Steady)
  BY <1>1 DEF Running, Steady
<1> QED BY <1>1, <1>3, <1>5, <1>6 DEF CmdlineInv

\* Failing to measure it for ever keeps CmdlineInv.
LEMMA CmdlineNotMeasured ==
    ASSUME CmdlineInv, MeasureForEver
    PROVE  CmdlineInv'
<1>1. /\ UNCHANGED <<args, file, retitled, interrupts, todo, registered, step, size, buffer>>
      /\ Running("cmdline") /\ step = "measure" /\ errno' \in Errnos /\ failed \subseteq failed'
  BY DEF MeasureForEver, Cmdline, systemVars, callVars, cmdlineVars, Fault, Errnos, CmdlineInv
<1>2. Running("cmdline")' /\ (Steady' => Steady)
  BY <1>1 DEF Running, Steady
<1> QED BY <1>1, <1>2 DEF CmdlineInv

\* Reading some bytes keeps CmdlineInv.
LEMMA CmdlineRead ==
    ASSUME CmdlineInv, ReadBytes
    PROVE  CmdlineInv'
<1>1. /\ UNCHANGED <<args, file, retitled, todo, registered, failed, size>> /\ Running("cmdline")
      /\ step = "read" /\ step' = IF Len(buffer') < size THEN "read" ELSE "split"
  BY DEF ReadBytes, Cmdline, systemVars, callVars
<1>2. PICK k \in 1..Left :
         /\ k <= Want
         /\ \/ UNCHANGED <<errno, interrupts>>
            \/ interrupts < MaxInterrupts /\ errno' = "EINTR" /\ interrupts' = interrupts + 1
         /\ buffer' = buffer \o SubSeq(file, Len(buffer) + 1, Len(buffer) + k)
  BY DEF ReadBytes
<1>3. /\ buffer \in Seq(Bytes) /\ file \in Seq(Bytes) /\ k \in 1..(Len(file) - Len(buffer))
      /\ k <= size - Len(buffer) /\ size \in Nat
  BY <1>2, FileIsSeq DEF CmdlineInv, Left, Want
<1>4. PICK v : v = buffer \o SubSeq(file, Len(buffer) + 1, Len(buffer) + k)
  BY Zenon
<1>5. v \in Seq(Bytes) /\ Len(v) = Len(buffer) + k /\ (Begins(buffer, file) => Begins(v, file))
  <2>1. buffer \in Seq(Bytes) /\ file \in Seq(Bytes) /\ k \in 1..(Len(file) - Len(buffer))
    BY <1>3
  <2> QED BY <1>4, <2>1, OneRead
<1>6. buffer' = v /\ Len(v) <= size /\ Len(v) \in Nat
  <2>1. Len(buffer) \in Nat /\ k \in Nat
    BY <1>3
  <2> QED BY <1>2, <1>3, <1>4, <1>5, <2>1
<1>7. errno' \in Errnos /\ interrupts' \in 0..MaxInterrupts
  <2>1. MaxInterrupts \in Nat /\ interrupts \in 0..MaxInterrupts /\ errno \in Errnos
    BY CollectorsAssumption DEF CollectorsAssumption, CmdlineInv
  <2> QED BY <1>2, <2>1 DEF Errnos
<1>8. Running("cmdline")' /\ (Steady' <=> Steady)
  BY <1>1 DEF Running, Steady
<1>9. Steady' => size' = Len(file') /\ Begins(buffer', file')
  BY <1>1, <1>5, <1>6, <1>8 DEF CmdlineInv
<1>10. step' = "split" /\ Steady' => Len(buffer') = Len(file')
  BY <1>1, <1>3, <1>6, <1>9
<1> QED BY <1>1, <1>5, <1>6, <1>7, <1>8, <1>9, <1>10 DEF CmdlineInv

\* A read at the end of the file keeps CmdlineInv.
LEMMA CmdlineNothingRead ==
    ASSUME CmdlineInv, ReadNothing
    PROVE  CmdlineInv'
<1>1. /\ UNCHANGED <<args, file, retitled, todo, registered, failed, size, buffer>>
      /\ Running("cmdline") /\ step = "read"
      /\ step' = step \/ (step' = "split" /\ Left <= 0)
  BY DEF ReadNothing, Cmdline, systemVars, callVars, cmdlineVars
<1>2. errno' \in Errnos /\ interrupts' \in 0..MaxInterrupts
  <2>1. MaxInterrupts \in Nat /\ interrupts \in 0..MaxInterrupts /\ errno \in Errnos
    BY CollectorsAssumption DEF CollectorsAssumption, CmdlineInv
  <2>2. \/ UNCHANGED <<errno, interrupts>>
        \/ interrupts < MaxInterrupts /\ errno' = "EINTR" /\ interrupts' = interrupts + 1
    BY DEF ReadNothing
  <2> QED BY <2>1, <2>2 DEF Errnos
<1>3. Running("cmdline")' /\ (Steady' <=> Steady)
  BY <1>1 DEF Running, Steady
<1>4. step' = "split" /\ Steady' => Len(buffer') = Len(file')
  <2> SUFFICES ASSUME step' = "split", Steady' PROVE Len(buffer') = Len(file')
    OBVIOUS
  <2>1. Len(buffer) <= size /\ size = Len(file) /\ Len(file) - Len(buffer) <= 0
    BY <1>1, <1>3 DEF CmdlineInv, Left
  <2>2. Len(buffer) \in Nat /\ Len(file) \in Nat
    BY FileIsSeq DEF CmdlineInv
  <2> QED BY <1>1, <2>1, <2>2
<1> QED BY <1>1, <1>2, <1>3, <1>4 DEF CmdlineInv

\* A read that fails or is interrupted keeps CmdlineInv.
LEMMA CmdlineNotRead ==
    ASSUME CmdlineInv, ReadError
    PROVE  CmdlineInv'
<1>1. /\ UNCHANGED <<args, file, retitled>> /\ errno' = "EIO"
      /\ interrupts' = 0 /\ size' = 0 /\ buffer' = << >>
      /\ registered' = Add(NoPairs, registered) /\ step' = "start" /\ failed \subseteq failed'
  BY DEF ReadError, Cmdline, systemVars, Fails, Fault, Finish
<1>2. /\ MaxInterrupts \in Nat /\ 0 \in 0..MaxInterrupts /\ DOMAIN NoPairs = {} /\ 0 \in Nat
      /\ << >> \in Seq(Bytes) /\ Len(<< >>) <= 0
  BY CollectorsAssumption DEF CollectorsAssumption, NoPairs
<1>3. "cmdline" \in DOMAIN registered' /\ Steady' => registered'["cmdline"] = args'
  BY <1>1, <1>2, CmdlineKept
<1> QED BY <1>1, <1>2, <1>3 DEF CmdlineInv, Errnos

\* Read as a whole, the bytes are split into the arguments.
LEMMA CmdlineSplit ==
    ASSUME CmdlineInv, SplitCmdline
    PROVE  CmdlineInv'
<1>1. PICK bytes : /\ bytes = [i \in 1..size |-> IF i <= Len(buffer) THEN buffer[i] ELSE NUL]
                   /\ Succeeds(Pair("cmdline", myargv(bytes)))
  BY DEF SplitCmdline
<1>2. /\ UNCHANGED <<args, file, retitled, errno, failed>>
      /\ interrupts' = 0 /\ size' = 0 /\ buffer' = << >> /\ step = "split" /\ step' = "start"
      /\ registered' = Add(Pair("cmdline", myargv(bytes)), registered)
  BY <1>1 DEF SplitCmdline, Cmdline, systemVars, Succeeds, Finish
<1>3. registered'["cmdline"] = myargv(bytes)
  BY <1>2 DEF Add, Pair
<1>4. ASSUME Steady PROVE myargv(bytes) = args
  <2>1. size = Len(file) /\ Begins(buffer, file) /\ Len(buffer) = Len(file) /\ file = Image(args)
    BY <1>2, <1>4 DEF CmdlineInv, Steady
  <2>2. buffer \in Seq(Bytes) /\ file \in Seq(Bytes) /\ args \in ArgLists
    BY FileIsSeq DEF CmdlineInv
  <2>3. [i \in 1..Len(file) |-> IF i <= Len(buffer) THEN buffer[i] ELSE NUL] = file
    BY <2>1, <2>2, WholeImage
  <2>4. bytes = Image(args)
    BY <1>1, <2>1, <2>3
  <2> QED BY <2>2, <2>4, BytesAre
<1>5. Steady' => registered'["cmdline"] = args'
  BY <1>2, <1>3, <1>4 DEF Steady
<1>6. /\ MaxInterrupts \in Nat /\ 0 \in 0..MaxInterrupts /\ 0 \in Nat
      /\ << >> \in Seq(Bytes) /\ Len(<< >>) <= 0
  BY CollectorsAssumption DEF CollectorsAssumption
<1> QED BY <1>2, <1>5, <1>6 DEF CmdlineInv

\* Arguments overwritten meanwhile keep CmdlineInv.
LEMMA CmdlineRetitled ==
    ASSUME CmdlineInv, NEW t \in Titles, Retitle(t)
    PROVE  CmdlineInv'
<1>1. /\ file' = t /\ retitled' = TRUE
      /\ UNCHANGED <<args, errno, interrupts, size, buffer, step, todo, registered>>
  BY DEF Retitle, processVars, eventVars, cmdlineVars, callVars
<1>2. Running("cmdline")' <=> Running("cmdline")
  BY <1>1 DEF Running
<1> QED BY <1>1, <1>2 DEF CmdlineInv, Steady

\* Every step keeps CmdlineInv.
LEMMA CmdlineNext ==
    ASSUME CmdlineInv, [Next]_vars, hosts \in Answers
    PROVE  CmdlineInv'
<1>1. CASE UNCHANGED vars
  BY <1>1 DEF vars, systemVars, processVars, eventVars, cmdlineVars, callVars, CmdlineInv, Running,
              Steady
<1>2. CASE \E name, routines : Begin(name, routines)
  BY <1>2, CmdlineBegin
<1>3. CASE Apart
  <2>1. PICK r, pairs :
          /\ Running(r) /\ r \notin {"cmdline", "libraries"} /\ step' = "start"
          /\ registered' = Add(pairs, registered) /\ DOMAIN pairs \cap {"cmdline", "libraries"} = {}
          /\ failed \subseteq failed'
          /\ UNCHANGED <<args, file, retitled, errno, interrupts, size, buffer>>
    BY <1>3 DEF Apart
  <2>2. /\ r # "cmdline" /\ "cmdline" \notin DOMAIN pairs
        /\ step' \in {step, "start", "store", "register"}
    BY <2>1
  <2> QED BY <2>1, <2>2, CmdlineAside
<1>4. CASE CmdlineStep
  BY <1>4, CmdlineOpened, CmdlineMeasured, CmdlineNotMeasured, CmdlineRead, CmdlineNothingRead, CmdlineNotRead,
     CmdlineSplit, CmdlineRetitled DEF CmdlineStep
<1>5. CASE LibrariesStep
  <2>1. /\ UNCHANGED <<args, file, retitled, errno, interrupts, size, buffer, failed>>
        /\ Running("libraries") /\ step' \in {step, "start", "store", "register"}
        /\ \/ registered' = registered
           \/ \E x : registered' = Add(Pair("libraries", x), registered)
    BY <1>5, LibrariesApart
  <2>2. PICK pairs : /\ "cmdline" \notin DOMAIN pairs
                     /\ registered' = registered \/ registered' = Add(pairs, registered)
    <3>1. \A x : "cmdline" \notin DOMAIN Pair("libraries", x)
      BY DEF Pair
    <3> QED BY <2>1, <3>1
  <2>3. failed \subseteq failed'
    BY <2>1
  <2> QED BY <2>1, <2>2, <2>3, CmdlineAside
<1> QED BY <1>1, <1>2, <1>3, <1>4, <1>5, ApartCases
-----------------------------------------------------------------------------
\* Where a name begins, word by word.
LEMMA PlacesAre ==
    ASSUME NEW W, NEW info \in Seq(W), NEW V, NEW name \in Seq(V), NEW i
    PROVE  i \in Places(info, name)
             <=> /\ i \in 1..(Len(info) - Len(name) + 1)
                 /\ \A k \in 1..Len(name) : info[i + k - 1] = name[k]
<1>1. PICK n \in Nat : n = Len(name)
  OBVIOUS
<1>2. PICK m \in Nat : m = Len(info)
  OBVIOUS
<1> SUFFICES ASSUME i \in 1..(m - n + 1)
             PROVE  SubSeq(info, i, i + n - 1) = name <=> \A k \in 1..n : info[i + k - 1] = name[k]
  BY <1>1, <1>2 DEF Places
<1>3. PICK u : u = SubSeq(info, i, i + n - 1)
  BY Zenon
<1>4. u = [k \in 1..n |-> info[i + k - 1]]
  BY <1>1, <1>2, <1>3
<1>5. name = [k \in 1..n |-> name[k]]
  BY <1>1
<1>6. ASSUME u = name PROVE \A k \in 1..n : info[i + k - 1] = name[k]
  BY <1>4, <1>6
<1>7. ASSUME \A k \in 1..n : info[i + k - 1] = name[k] PROVE u = name
  BY <1>4, <1>5, <1>7
<1> QED BY <1>3, <1>6, <1>7

\* What a place of a name in a string is.
LEMMA PlaceOf ==
    ASSUME NEW W, NEW info \in Seq(W), NEW V, NEW name \in Seq(V), NEW p \in Places(info, name)
    PROVE  /\ p \in 1..(Len(info) - Len(name) + 1)
           /\ \A k \in 1..Len(name) : info[p + k - 1] = name[k]
BY PlacesAre

\* First is the least element.
LEMMA FirstIs ==
    ASSUME NEW S, S \subseteq Int, NEW i \in S, \A j \in S : i <= j
    PROVE  First(S) = i
<1>1. \A k \in S : (\A j \in S : k <= j) => k = i
  <2> SUFFICES ASSUME NEW k \in S, \A j \in S : k <= j PROVE k = i
    OBVIOUS
  <2>1. k <= i /\ i <= k /\ k \in Int /\ i \in Int
    OBVIOUS
  <2> QED BY <2>1
<1> QED BY <1>1 DEF First

\* The first place of a name.
LEMMA FirstPlace ==
    ASSUME NEW W, NEW info \in Seq(W), NEW V, NEW name \in Seq(V), name # << >>,
           NEW p \in Places(info, name), \A q \in 1..(p - 1) : info[q] # name[1]
    PROVE  First(Places(info, name)) = p
<1>1. PICK n \in Nat : n = Len(name) /\ n # 0
  OBVIOUS
<1>2. ASSUME NEW j \in Places(info, name) PROVE j \in Int /\ 1 <= j /\ info[j] = name[1]
  <2>1. j \in 1..(Len(info) - n + 1) /\ \A k \in 1..n : info[j + k - 1] = name[k]
    BY <1>1, PlaceOf
  <2>2. j \in Int /\ 1 <= j /\ 1 \in 1..n /\ j + 1 - 1 = j
    BY <1>1, <2>1
  <2> QED BY <2>1, <2>2
<1>3. ASSUME NEW j \in Places(info, name) PROVE p <= j
  <2>1. p \in Int /\ j \in Int /\ 1 <= j /\ info[j] = name[1]
    BY <1>2
  <2>2. ~(j \in 1..(p - 1))
    BY <2>1
  <2> QED BY <2>1, <2>2
<1>4. Places(info, name) \subseteq Int
  BY <1>2
<1> QED BY <1>3, <1>4, FirstIs

\* The version, where the text ends at a word that is one.
LEMMA VersionAt ==
    ASSUME NEW W, NEW info \in Seq(W), NEW V, NEW text \in Seq(V), NEW i \in Nat \ {0},
           NEW version \in VersionWords, i \in Places(info, text),
           i + Len(text) <= Len(info), info[i + Len(text)] = version
    PROVE  sscanf(info, i, text) = version
<1>1. SubSeq(info, i, i + Len(text) - 1) = text
  BY DEF Places
<1>2. PICK next : next = i + Len(text)
  OBVIOUS
<1>3. SubSeq(info, i, next - 1) = text /\ next <= Len(info) /\ info[next] = version
  BY <1>1, <1>2
<1> QED BY <1>2, <1>3, Zenon DEF sscanf

\* The five vendors and the forms of their strings, spelled out.
LEMMA VendorsAre ==
    /\ DOMAIN Vendors = 1..5 /\ 1..5 = {1, 2, 3, 4, 5}
    /\ Vendors[1].from = "start" /\ Vendors[2].from = "name" /\ Vendors[3].from = "colon"
    /\ Vendors[4].from = "start" /\ Vendors[5].from = "colon"
    /\ Vendors[2].name = <<"CRAY", "MPICH">>
    /\ Forms[1] = <<"Open", "MPI", "v">> /\ Forms[4] = <<"Open", "MPI", "v">>
    /\ Forms[2] = <<"MPI", "VERSION", ":", "CRAY", "MPICH", "version">>
    /\ Forms[3] = <<"MVAPICH2", "Version", ":">> /\ Forms[5] = <<"MPICH", "Version", ":">>
<1>1. 1..5 = {1, 2, 3, 4, 5}
  OBVIOUS
<1>2. DOMAIN Vendors = 1..5
  BY DEF Vendors
<1>3. /\ Vendors[1].from = "start" /\ Vendors[2].from = "name" /\ Vendors[3].from = "colon"
      /\ Vendors[4].from = "start" /\ Vendors[5].from = "colon"
      /\ Vendors[2].name = <<"CRAY", "MPICH">>
  BY DEF Vendors
<1>4. /\ Forms[1] = <<"Open", "MPI", "v">> /\ Forms[4] = <<"Open", "MPI", "v">>
      /\ Forms[2] = <<"MPI", "VERSION", ":", "CRAY", "MPICH", "version">>
      /\ Forms[3] = <<"MVAPICH2", "Version", ":">> /\ Forms[5] = <<"MPICH", "Version", ":">>
  BY DEF Forms
<1> QED BY <1>1, <1>2, <1>3, <1>4

\* The version of a string of a published form is found.
LEMMA VersionFound ==
    ASSUME NEW W, NEW info \in Seq(W), NEW i \in 1..5, NEW version \in VersionWords,
           Len(info) > Len(Forms[i]), SubSeq(info, 1, Len(Forms[i])) = Forms[i],
           info[Len(Forms[i]) + 1] = version
    PROVE  VersionOf(info, Vendors[i]) = version
<1>1. PICK n \in Nat : n = Len(info)
  OBVIOUS
<1>2. CASE Forms[i] = <<"Open", "MPI", "v">> /\ Vendors[i].from = "start"
  <2>1. PICK text : text = <<"Open", "MPI", "v">>
    OBVIOUS
  <2>2. Len(text) = 3 /\ text \in Seq({"Open", "MPI", "v"}) /\ Forms[i] = text
    BY <1>2, <2>1
  <2>3. 1 \in Places(info, text)
    <3>1. n > 3 /\ SubSeq(info, 1, 3) = text
      BY <1>1, <2>2
    <3>2. 1 \in 1..(Len(info) - Len(text) + 1) /\ 1 + Len(text) - 1 = 3
      BY <1>1, <2>2, <3>1
    <3> QED BY <3>1, <3>2 DEF Places
  <2>4. sscanf(info, 1, text) = version
    BY <1>1, <2>2, <2>3, VersionAt
  <2> QED BY <1>2, <2>1, <2>4 DEF VersionOf
<1>3. CASE /\ Forms[i] = <<"MPI", "VERSION", ":", "CRAY", "MPICH", "version">>
           /\ Vendors[i].from = "name" /\ Vendors[i].name = <<"CRAY", "MPICH">>
  <2>1. PICK u : u = SubSeq(info, 1, 6)
    BY Zenon
  <2>2. /\ n > 6 /\ info[7] = version
        /\ u = <<"MPI", "VERSION", ":", "CRAY", "MPICH", "version">>
    BY <1>1, <1>3, <2>1
  <2>3. \A k \in 1..6 : info[k] = u[k]
    BY <1>1, <2>1, <2>2
  <2>4. /\ info[1] = "MPI" /\ info[2] = "VERSION" /\ info[3] = ":"
        /\ info[4] = "CRAY" /\ info[5] = "MPICH" /\ info[6] = "version"
    BY <2>2, <2>3
  <2>5. PICK name : name = <<"CRAY", "MPICH">>
    OBVIOUS
  <2>6. name \in Seq({"CRAY", "MPICH"}) /\ Len(name) = 2 /\ name[1] = "CRAY" /\ name[2] = "MPICH"
    BY <2>5
  <2>7. 4 \in Places(info, name)
    <3>1. 4 \in 1..(n - 2 + 1) /\ \A k \in 1..2 : info[4 + k - 1] = name[k]
      <4>1. \A k \in 1..2 : k = 1 \/ k = 2
        OBVIOUS
      <4> QED BY <2>2, <2>4, <2>6, <4>1
    <3> QED BY <1>1, <2>6, <3>1, PlacesAre
  <2>8. \A q \in 1..(4 - 1) : info[q] # name[1]
    <3>1. \A q \in 1..(4 - 1) : q = 1 \/ q = 2 \/ q = 3
      OBVIOUS
    <3> QED BY <2>4, <2>6, <3>1
  <2>9. First(Places(info, name)) = 4
    <3>1. name # << >>
      BY <2>5
    <3> QED BY <2>6, <2>7, <2>8, <3>1, FirstPlace
  <2>10. PICK text : text = name \o <<"version">>
    OBVIOUS
  <2>11. /\ text \in Seq({"CRAY", "MPICH", "version"}) /\ Len(text) = 3
         /\ text[1] = "CRAY" /\ text[2] = "MPICH" /\ text[3] = "version"
    <3>0. PICK w : w = <<"version">>
      OBVIOUS
    <3>1. w \in Seq({"CRAY", "MPICH", "version"}) /\ Len(w) = 1 /\ w[1] = "version"
      BY <3>0
    <3>2. name \in Seq({"CRAY", "MPICH", "version"})
      BY <2>5
    <3>3. /\ text \in Seq({"CRAY", "MPICH", "version"}) /\ Len(text) = 3
          /\ \A q \in 1..2 : text[q] = name[q]
          /\ text[3] = "version"
      <4>1. /\ text \in Seq({"CRAY", "MPICH", "version"}) /\ Len(text) = Len(name) + Len(w)
            /\ \A q \in 1..Len(name) : text[q] = name[q]
            /\ \A q \in 1..Len(w) : text[Len(name) + q] = w[q]
        BY <2>10, <3>0, <3>1, <3>2
      <4> QED BY <2>6, <3>1, <4>1
    <3> QED BY <2>6, <3>3
  <2>12. 4 \in Places(info, text)
    <3>1. 4 \in 1..(n - 3 + 1) /\ \A k \in 1..3 : info[4 + k - 1] = text[k]
      <4>1. \A k \in 1..3 : k = 1 \/ k = 2 \/ k = 3
        OBVIOUS
      <4> QED BY <2>2, <2>4, <2>11, <4>1
    <3> QED BY <1>1, <2>11, <3>1, PlacesAre
  <2>13. sscanf(info, 4, text) = version
    <3>1. 4 + Len(text) <= Len(info) /\ info[4 + Len(text)] = version /\ 4 \in Nat \ {0}
      BY <1>1, <2>2, <2>11
    <3> QED BY <2>11, <2>12, <3>1, VersionAt
  <2>14. VersionOf(info, Vendors[i]) = sscanf(info, First(Places(info, name)), text)
    BY <1>3, <2>5, <2>10 DEF VersionOf
  <2> QED BY <2>9, <2>13, <2>14
<1>4. CASE /\ Vendors[i].from = "colon"
           /\ Forms[i] = <<"MVAPICH2", "Version", ":">> \/ Forms[i] = <<"MPICH", "Version", ":">>
  <2>1. PICK u : u = SubSeq(info, 1, 3)
    BY Zenon
  <2>2. /\ n > 3 /\ info[4] = version /\ u[1] # ":" /\ u[2] = "Version" /\ u[3] = ":"
    <3>1. CASE Forms[i] = <<"MVAPICH2", "Version", ":">>
      <4>1. Len(Forms[i]) = 3 /\ u = Forms[i]
        BY <2>1, <3>1
      <4>2. u[1] # ":" /\ u[2] = "Version" /\ u[3] = ":"
        BY <3>1, <4>1
      <4> QED BY <1>1, <4>1, <4>2
    <3>2. CASE Forms[i] = <<"MPICH", "Version", ":">>
      <4>1. Len(Forms[i]) = 3 /\ u = Forms[i]
        BY <2>1, <3>2
      <4>2. u[1] # ":" /\ u[2] = "Version" /\ u[3] = ":"
        BY <3>2, <4>1
      <4> QED BY <1>1, <4>1, <4>2
    <3> QED BY <1>4, <3>1, <3>2
  <2>3. \A k \in 1..3 : info[k] = u[k]
    BY <1>1, <2>1, <2>2
  <2>4. info[1] # ":" /\ info[2] # ":" /\ info[3] = ":"
    BY <2>2, <2>3
  <2>5. PICK colon : colon = <<":">>
    OBVIOUS
  <2>6. colon \in Seq({":"}) /\ Len(colon) = 1 /\ colon[1] = ":"
    BY <2>5
  <2>7. 3 \in Places(info, colon)
    <3>1. 3 \in 1..(n - 1 + 1) /\ \A k \in 1..1 : info[3 + k - 1] = colon[k]
      BY <2>2, <2>4, <2>6
    <3>2. 3 \in 1..(Len(info) - Len(colon) + 1) /\ \A k \in 1..Len(colon) : info[3 + k - 1] = colon[k]
      BY <1>1, <2>6, <3>1
    <3> QED BY <2>6, <3>2, PlacesAre, Zenon
  <2>8. \A q \in 1..(3 - 1) : info[q] # colon[1]
    <3>1. \A q \in 1..(3 - 1) : q = 1 \/ q = 2
      OBVIOUS
    <3> QED BY <2>4, <2>6, <3>1
  <2>9. First(Places(info, colon)) = 3 /\ strstr(info, colon)
    <3>1. colon # << >>
      BY <2>5
    <3>2. First(Places(info, colon)) = 3
      BY <2>6, <2>7, <2>8, <3>1, FirstPlace
    <3> QED BY <2>7, <3>2 DEF strstr
  <2>10. sscanf(info, 3, colon) = version
    <3>1. 3 + Len(colon) <= Len(info) /\ info[3 + Len(colon)] = version /\ 3 \in Nat \ {0}
      BY <1>1, <2>2, <2>6
    <3> QED BY <2>6, <2>7, <3>1, VersionAt
  <2>11. VersionOf(info, Vendors[i])
           = IF strstr(info, colon) THEN sscanf(info, First(Places(info, colon)), colon) ELSE ""
    BY <1>4, <2>5 DEF VersionOf
  <2> QED BY <2>9, <2>10, <2>11
<1> QED BY <1>2, <1>3, <1>4, VendorsAre

\* Every library whose string is of a published form is told from those it derives
\* from, and its version is found; libraries of other vendors are told from all of them
\* (adksys_mpi_library_version).
THEOREM PublishedVendorsTold ==
    ASSUME \A m \in MpiInfos : AsPublished(m.info, m.library)
    PROVE  VendorsTold
<1> SUFFICES ASSUME NEW m \in MpiInfos
             PROVE  adksys_mpi_library_version(m.info)
                       = IF m.library.vendor \in Known THEN m.library ELSE NoLibrary
  BY DEF VendorsTold
<1>1. PICK info, lib : info = m.info /\ lib = m.library /\ AsPublished(info, lib)
  OBVIOUS
<1>2. PICK W : info \in Seq(W)
  BY <1>1, CollectorsAssumption DEF CollectorsAssumption, IsSeq
<1>3. DOMAIN Vendors = 1..5
  BY VendorsAre
<1>4. PICK named : named = {i \in DOMAIN Vendors : strstr(info, Vendors[i].name)}
  OBVIOUS
<1>5. ASSUME NEW i \in 1..5, NEW version \in VersionWords, version # "",
             lib = Library(Vendors[i].vendor, version),
             strstr(info, Vendors[i].name), \A j \in 1..(i - 1) : ~strstr(info, Vendors[j].name),
             Len(info) > Len(Forms[i]),
             SubSeq(info, 1, Len(Forms[i])) = Forms[i], info[Len(Forms[i]) + 1] = version
      PROVE  adksys_mpi_library_version(info) = lib /\ lib.vendor \in Known
  <2>0. i \in 1..5
    BY <1>5
  <2>1. VersionOf(info, Vendors[i]) = version
    BY <1>2, <1>5, VersionFound
  <2>2. First(named) = i /\ named # {}
    <3>1. i \in named /\ named \subseteq Int
      <4>1. i \in DOMAIN Vendors /\ strstr(info, Vendors[i].name)
        BY <1>3, <1>5
      <4>2. named \subseteq 1..5
        BY <1>3, <1>4
      <4>3. 1..5 \subseteq Int
        OBVIOUS
      <4> QED BY <1>4, <4>1, <4>2, <4>3
    <3>2. \A j \in named : i <= j
      <4> SUFFICES ASSUME NEW j \in named, ~(i <= j) PROVE FALSE
        OBVIOUS
      <4>1. j \in 1..5 /\ strstr(info, Vendors[j].name)
        BY <1>3, <1>4
      <4>2. j \in 1..(i - 1)
        BY <2>0, <4>1
      <4> QED BY <1>5, <4>1, <4>2
    <3> QED BY <3>1, <3>2, FirstIs
  <2>3. FirstVendor(info) = i
    BY <1>4, <2>2 DEF FirstVendor
  <2>4. i # 0
    BY <2>0
  <2>5. lib.vendor = Vendors[i].vendor
    BY <1>5 DEF Library
  <2> QED BY <1>3, <1>5, <2>1, <2>3, <2>4, <2>5 DEF adksys_mpi_library_version, Known
<1>6. ASSUME \A i \in DOMAIN Vendors : lib.vendor # Vendors[i].vendor /\ ~strstr(info, Vendors[i].name)
      PROVE  adksys_mpi_library_version(info) = NoLibrary /\ lib.vendor \notin Known
  <2>1. named = {}
    BY <1>4, <1>6
  <2>2. FirstVendor(info) = 0
    BY <1>4, <2>1 DEF FirstVendor
  <2> QED BY <1>6, <2>2 DEF adksys_mpi_library_version, Known
<1>7. \/ \E i \in 1..5, version \in VersionWords :
            /\ version # ""
            /\ lib = Library(Vendors[i].vendor, version)
            /\ strstr(info, Vendors[i].name) /\ \A j \in 1..(i - 1) : ~strstr(info, Vendors[j].name)
            /\ Len(info) > Len(Forms[i])
            /\ SubSeq(info, 1, Len(Forms[i])) = Forms[i] /\ info[Len(Forms[i]) + 1] = version
      \/ \A i \in DOMAIN Vendors : lib.vendor # Vendors[i].vendor /\ ~strstr(info, Vendors[i].name)
  BY <1>1, <1>3 DEF AsPublished
<1> QED BY <1>1, <1>5, <1>6, <1>7
-----------------------------------------------------------------------------
\* All of it.
CallsInv == RoutineInv /\ LibrariesInv /\ CmdlineInv

\* The inductive invariant of the routines: each routine of a call runs once, the pairs
\* registered are those of the routines that have returned, what the two passes over the
\* libraries and over the command line have in common is what other threads left alone
\* (adiak_collect_all, adiak_fini, adksys_get_libraries, adksys_get_cmdline_buffer).
THEOREM CallsInvariant == Spec => []CallsInv
<1>1. Init => CallsInv
  BY RoutineInvInit, LibrariesInit, CmdlineInit DEF CallsInv
<1>2. CallsInv /\ [Next]_vars => CallsInv'
  <2> SUFFICES ASSUME CallsInv, [Next]_vars PROVE CallsInv'
    OBVIOUS
  <2>1. RoutineInv /\ LibrariesInv /\ CmdlineInv /\ hosts \in Answers
    BY DEF CallsInv, RoutineInv, CallTypes
  <2>2. RoutineInv'
    BY <2>1, RoutineNext
  <2>3. LibrariesInv'
    BY <2>1, LibrariesNext
  <2>4. CmdlineInv'
    BY <2>1, CmdlineNext
  <2> QED BY <2>2, <2>3, <2>4 DEF CallsInv
<1> QED BY <1>1, <1>2, PTL DEF Spec

\* Every variable keeps its type, and each count its bound.
THEOREM CollectorsTypeCorrect == Spec => []TypeOK
<1>1. CallsInv => TypeOK
  <2> SUFFICES ASSUME CallsInv PROVE TypeOK
    OBVIOUS
  <2>1. /\ use_mpi \in BOOLEAN /\ hosts \in Answers
        /\ call \in Routines \cup {"none", "collect_all", "fini"}
        /\ todo \in Seq(Routines \cup Timers) /\ count \in Nat /\ count + Len(todo) <= 17
        /\ result \in {0, -1} /\ Cardinality(failed) <= MaxFaults
        /\ now \in EndTimes \cup {System.start}
    BY DEF CallsInv, RoutineInv, CallTypes
  <2>2. /\ args \in ArgLists /\ file \in {Image(args)} \cup Titles /\ retitled \in BOOLEAN
        /\ errno \in Errnos /\ interrupts \in 0..MaxInterrupts /\ size \in Nat
        /\ step \in {"start", "measure", "read", "split", "store", "register"}
    BY DEF CallsInv, CmdlineInv
  <2>3. counted \in Nat /\ loads \in 0..MaxLoads /\ unloaded \in BOOLEAN
    BY DEF CallsInv, LibrariesInv
  <2>4. count \in 0..Len(CollectOrder)
    <3>1. Len(todo) \in Nat
      BY <2>1
    <3> QED BY <2>1, <3>1, OrderIs
  <2>5. \A i \in DOMAIN todo : todo[i] \in Routines \cup Timers
    BY <2>1
  <2> QED BY <2>1, <2>2, <2>3, <2>4, <2>5 DEF TypeOK, Answers
<1> QED BY <1>1, CallsInvariant, PTL

\* However reads are interrupted and arguments overwritten, the command line is read
\* within its buffer; and for all argument vectors, whatever their lengths, what is
\* registered is the vector, unless it was overwritten or the measuring failed.
THEOREM CmdlineReadWhole == Spec => []CmdlineWhole
<1>1. CallsInv => CmdlineWhole
  BY DEF CallsInv, CmdlineInv, Steady, CmdlineWhole
<1> QED BY <1>1, CallsInvariant, PTL

\* The names stored exceed those counted by no more than were loaded meanwhile.
THEOREM LibrariesFit == Spec => []LibrariesInBounds
<1>1. CallsInv => LibrariesInBounds
  <2> SUFFICES ASSUME CallsInv, loads <= 1 PROVE Len(names) <= counted + 1
    BY DEF LibrariesInBounds
  <2>1. /\ counted \in Nat /\ loads \in 0..MaxLoads /\ names \in Seq(ObjectNames)
        /\ step # "register" => names = << >>
        /\ step = "register" => Len(names) <= counted + loads
    BY DEF CallsInv, LibrariesInv
  <2>2. CASE step = "register"
    <3>1. Len(names) \in Nat /\ loads \in Nat /\ Len(names) <= counted + loads
      BY <2>1, <2>2
    <3> QED BY <2>1, <3>1
  <2>3. CASE step # "register"
    <3>1. Len(names) = 0
      BY <2>1, <2>3
    <3> QED BY <2>1, <3>1
  <2> QED BY <2>2, <2>3
<1> QED BY <1>1, CallsInvariant, PTL

\* What a call of one routine returns tells whether it has registered its pairs,
\* and what is registered was read.
THEOREM ResultsTell == Spec => []ResultTells
<1>1. CallsInv => ResultTells
  <2> SUFFICES ASSUME CallsInv PROVE ResultTells
    OBVIOUS
  <2>1. Idle /\ call \in Routines => (result = 0 <=> DOMAIN registered = PairsOf(call))
    BY DEF CallsInv, RoutineInv, OneResult, Idle
  <2>2. "working_directory" \in DOMAIN registered \ failed => registered.working_directory # Garbage
    BY CollectorsAssumption DEF CallsInv, RoutineInv, DirectoryRead, CollectorsAssumption
  <2>3. "libraries" \in DOMAIN registered /\ ~unloaded
           => \A i \in DOMAIN registered.libraries : registered.libraries[i] # Garbage
    BY DEF CallsInv, LibrariesInv
  <2> QED BY <2>1, <2>2, <2>3 DEF ResultTells
<1> QED BY <1>1, CallsInvariant, PTL

\* Where the version strings are of the forms that the comments show, the vendor and
\* the version registered are those of the library (adksys_mpi_library_version).
THEOREM VendorIsRight ==
    ASSUME \A m \in MpiInfos : AsPublished(m.info, m.library)
    PROVE  Spec => []VendorRight
<1>1. VendorsTold
  BY PublishedVendorsTold
<1>2. CallsInv => VendorRight
  <2> SUFFICES ASSUME CallsInv, "mpi_library_vendor" \in DOMAIN registered
               PROVE  Library(registered.mpi_library_vendor, registered.mpi_library_version) = mpi_info
    BY DEF VendorRight
  <2>1. PICK m \in MpiInfos : \E lib \in {adksys_mpi_library_version(m.info)} :
           /\ lib # NoLibrary /\ mpi_info = m.library
           /\ registered["mpi_library_vendor"] = lib.vendor
           /\ registered["mpi_library_version"] = lib.version
    BY DEF CallsInv, RoutineInv, VersionRead
  <2>2. PICK lib : /\ lib = adksys_mpi_library_version(m.info)
                   /\ lib # NoLibrary /\ mpi_info = m.library
                   /\ registered["mpi_library_vendor"] = lib.vendor
                   /\ registered["mpi_library_version"] = lib.version
    BY <2>1
  <2>3. lib = m.library
    BY <1>1, <2>2 DEF VendorsTold
  <2>4. \E vendor, version : lib = Library(vendor, version)
    BY <2>2 DEF adksys_mpi_library_version, NoLibrary
  <2> QED BY <2>2, <2>3, <2>4 DEF Library
<1> QED BY <1>2, CallsInvariant, PTL

\* Whichever system calls fail, the other routines of adiak_collect_all register their
\* pairs, and the call succeeds.
THEOREM FailuresStayIndependent ==
    ASSUME \A m \in MpiInfos : AsPublished(m.info, m.library)
    PROVE  Spec => []FailuresIndependent
<1>1. VendorsTold
  BY PublishedVendorsTold
<1>2. CallsInv => FailuresIndependent
  <2> SUFFICES ASSUME CallsInv, todo = << >>, call = "collect_all"
               PROVE  /\ DOMAIN registered
                           = UNION {PairsOf(CollectOrder[i]) : i \in
                                       {i \in DOMAIN CollectOrder :
                                           \/ CollectOrder[i] \notin failed \cup Unavailable
                                           \/ CollectOrder[i] = "working_directory"}}
                      /\ result = 0
    BY DEF FailuresIndependent, Idle
  <2>1. DOMAIN registered = UNION {PairsOf(r) : r \in Telling} /\ result = 0
    BY <1>1 DEF CallsInv, RoutineInv, Collected
  <2>2. Done = Entries(CollectOrder)
    BY DEF Done, Entries
  <2>3. {PairsOf(r) : r \in Telling}
          = {PairsOf(CollectOrder[i]) : i \in
                {i \in DOMAIN CollectOrder :
                    \/ CollectOrder[i] \notin failed \cup Unavailable
                    \/ CollectOrder[i] = "working_directory"}}
    BY <2>2 DEF Telling, Entries
  <2> QED BY <2>1, <2>3
<1> QED BY <1>2, CallsInvariant, PTL
=============================================================================
