---------------------------- MODULE MCCollectors -----------------------------
(***************************************************************************)
(* Instances of Collectors.                                                *)
(***************************************************************************)
EXTENDS Collectors

\* One argument, and three of which one is empty.
MCArgLists == {<<<<"a", "b">>>>, <<<<"a">>, << >>, <<"b">>>>}

\* A shorter title, and a longer one that does not end with NUL.
MCTitles == {<<"t", NUL>>, <<"t", "t", NUL, "t", "t", "t", "t", "t">>}

MCLoaded == <<"", "/lib/libc.so", "/lib/libmpi.so">>
MCLaterLibraries == {"/lib/plugin.so"}

MCVersionWords == {"4.1.2", "10.3.1.03rtm0", "8.1.27.20", "2.3.7", "3.4a2"}
MCMpiInfos ==
    {[info |-> <<"Open", "MPI", "v", "4.1.2", "package", ":", "Open", "MPI">>,
      library |-> Library("Open MPI", "4.1.2")],
     [info |-> <<"Open", "MPI", "v", "10.3.1.03rtm0", "package", ":", "IBM", "Spectrum", "MPI">>,
      library |-> Library("IBM Spectrum MPI", "10.3.1.03rtm0")],
     [info |-> <<"MPI", "VERSION", ":", "CRAY", "MPICH", "version", "8.1.27.20">>,
      library |-> Library("CRAY MPICH", "8.1.27.20")],
     [info |-> <<"MVAPICH2", "Version", ":", "2.3.7">>, library |-> Library("MVAPICH2", "2.3.7")],
     [info |-> <<"MPICH", "Version", ":", "3.4a2">>, library |-> Library("MPICH", "3.4a2")],
     [info |-> <<"Intel(R)", "MPI", "Library", "2021.5">>, library |-> Library("Intel MPI", "2021.5")]}

MCSystem ==
    [version |-> "0.5.0", user |-> <<"u", ",", "v">>, gecos |-> "A. User",
     start |-> Timeval(90000, 600000), executable |-> <<"/", "b", "/", "x">>, cwd |-> <<"/", "w">>,
     host |-> <<"n", "1", "2", ".", "l">>, hosts |-> <<"n1", "n2", "n3">>, job_size |-> 4,
     mpi_version |-> "3.1", mpi_library |-> "mpi", tics_per_sec |-> 100]

\* Less and more than the microseconds of the start.
MCEndTimes == {Timeval(90003, 599999), Timeval(90001, 700000)}
MCTicks == {99, 1234}

\* The strings are of the forms that the comments of adksys_mpi.c show.
PublishedForms == \A m \in MpiInfos : AsPublished(m.info, m.library)
ASSUME PublishedForms
==============================================================================
