----------------------------- MODULE MCHostList ------------------------------
(***************************************************************************)
(* Instances of HostList: four ranks on three hosts.                       *)
(* The names of two hosts have the same colour in rounds 0 and 1, so their *)
(* ranks share a part for two rounds; the colours are those of the hash.   *)
(***************************************************************************)
EXTENDS HostList
LOCAL INSTANCE HostnameColor

MCHosts == {"lr", "n0", "io"}
CodesOf == [lr |-> <<108, 114>>, n0 |-> <<110, 48>>, io |-> <<105, 111>>]
MCColor == [c \in MCHosts \X (0..MaxIndex) |-> SplitColor(CodesOf[c[1]], c[2])]

\* Rank 0 shares its part with another host, and its host with the last rank.
FourRanks == [r \in 0..3 |-> <<"n0", "io", "lr", "n0">>[r + 1]]

\* The rounds of MaxIndex separate the names of the instance, and any others of
\* two of these letters and digits, from each other.
Pairs == [1..2 -> {48, 49, 108, 110, 114}]
ASSUME NamesSeparate ==
    \A x, y \in Pairs : x # y =>
        \E i \in 0..(MaxIndex - 1) : SplitColor(x, i) # SplitColor(y, i)
==============================================================================
