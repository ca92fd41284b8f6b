------------------------------ MODULE TimeValue ------------------------------
(***************************************************************************)
(* Times as Adiak computes with them: struct timeval, clock ticks, and     *)
(* seconds since the epoch (src/src/adiak.c, src/src/adksys_posix.c,       *)
(* src/src/adksys_procfs.c).                                               *)
(***************************************************************************)
EXTENDS Integers

\* struct timeval
Timeval(sec, usec) == [tv_sec |-> sec, tv_usec |-> usec]

MicrosPerSecond == 1000000
SECONDS_IN_DAY == 24 * 60 * 60

\* A timeval as gettimeofday gives it, and the time it stands for.
Normal(tv) == tv.tv_sec \in Int /\ tv.tv_usec \in 0..(MicrosPerSecond - 1)
Micros(tv) == tv.tv_sec * MicrosPerSecond + tv.tv_usec

\* The time from s to e.
MicrosBetween(s, e) ==
    (e.tv_sec - s.tv_sec) * MicrosPerSecond + (e.tv_usec - s.tv_usec)

\* Mutant: the second that the microseconds borrow is not taken off.
ElapsedUnborrowed(stime, etime) ==
    IF etime.tv_usec < stime.tv_usec
    THEN Timeval(etime.tv_sec - stime.tv_sec, MicrosPerSecond + etime.tv_usec - stime.tv_usec)
    ELSE Timeval(etime.tv_sec - stime.tv_sec, etime.tv_usec - stime.tv_usec)

\* The subtraction of measure_walltime.
Elapsed(stime, etime) ==
    IF etime.tv_usec < stime.tv_usec
    THEN Timeval(etime.tv_sec - stime.tv_sec - 1, MicrosPerSecond + etime.tv_usec - stime.tv_usec)
    ELSE Timeval(etime.tv_sec - stime.tv_sec, etime.tv_usec - stime.tv_usec)

\* The conversion of adksys_get_times.
TicksToTime(tics, tics_per_sec) ==
    Timeval(tics \div tics_per_sec, (tics % tics_per_sec) * (MicrosPerSecond \div tics_per_sec))

\* Midnight (UTC) of the day of a time, as adiak_launchday truncates it.
DayOf(sec) == sec - (sec % SECONDS_IN_DAY)
==============================================================================
