----------------------------- MODULE MCHomeView -----------------------------
(* Model-checking instance of HomeView: host lists with dead hosts, hosts *)
(* without usageOfDisk, and hosts with one or two disks.                  *)
EXTENDS HomeView

CONSTANTS s1

D100 == [totalSize |-> 100, usedSize |-> 40]
D50 == [totalSize |-> 50, usedSize |-> 50]

\* The spec's example host, a dead host with two disks, a host without
\* disk information.
H1 == [isAlive |-> TRUE, usageOfDisk |-> <<D100>>]
H2 == [isAlive |-> FALSE, usageOfDisk |-> <<D50, D100>>]
H3 == [isAlive |-> TRUE, usageOfDisk |-> NoData]

MCHostLists == {<<>>, <<H1>>, <<H2>>, <<H1, H2>>, <<H3, H2>>, <<H1, H3>>}
MCSvcs == {s1}
=============================================================================
