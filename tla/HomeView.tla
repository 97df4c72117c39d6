------------------------------ MODULE HomeView ------------------------------
(***************************************************************************)
(* The node summary of the home page (HomeCtrl, homeController.js):       *)
(* refreshNodes() runs at construction and every 3 s; its callback stores *)
(* the host list, counts the alive hosts into numOfNodes and sums the     *)
(* disks of every host that reports machine.usageOfDisk into storageInfo. *)
(* refreshServices() runs once.  The backend's host list changes at any   *)
(* time (hosts die, disks fill); GETs overlap and answer in any order.    *)
(* The TPS strip: every second (and not at construction) a GET of the    *)
(* TiDB metrics, whose callback pushes {x, y: tps}, shifts the oldest point *)
(* once the strip holds more than 20 and increments x.  The k-th sample   *)
(* the backend produces carries tps = k.                                   *)
(***************************************************************************)
EXTENDS Naturals, Sequences, SequencesExt, FiniteSetsExt, Bags, BagsExt

CONSTANTS
    HostLists,    \* the host lists the backend may report
    Svcs,         \* the services list
    MaxInFlight,  \* bound on overlapping GETs
    MaxChanges,   \* bound on changes of the backend's host list
    MaxFails,     \* bound on GETs lost to errors
    TpsCap,       \* the strip's length: 20 in the code
    TpsSamples,   \* bound on the metric samples the backend produces
    TpsInFlight,  \* bound on overlapping metric GETs
    NoData        \* model value: undefined (scope field, or no usageOfDisk)

VARIABLES
    srvHosts,     \* the backend's current host list
    net,          \* bag of pending GETs and responses
    hosts,        \* $scope.hosts
    numOfNodes,   \* $scope.numOfNodes
    storageInfo,  \* $scope.storageInfo
    services,     \* $scope.services
    seen,         \* history: the host lists the backend has reported
    changes, fails,
    tpsServed,    \* metric samples the backend has produced
    tpsNet,       \* bag of pending metric GETs and responses
    tpsValues,    \* $scope.data[0].values
    x,            \* the closure's tick counter
    tpsApplied    \* history: sample ids in the order their callbacks ran

tps == <<tpsServed, tpsNet, tpsValues, x, tpsApplied>>
vars == <<srvHosts, net, hosts, numOfNodes, storageInfo, services, seen,
          changes, fails, tps>>

GetHosts == [phase |-> "req", kind |-> "hosts", data |-> NoData]
GetServices == [phase |-> "req", kind |-> "services", data |-> NoData]
Answer(kind, d) == [phase |-> "resp", kind |-> kind, data |-> d]

TypeOK ==
    /\ srvHosts \in HostLists
    /\ hosts \in {NoData} \cup HostLists
    /\ numOfNodes \in {NoData} \cup Nat
    /\ storageInfo \in {NoData} \cup [usage: Nat, capacity: Nat]
    /\ services \in {NoData, Svcs}
    /\ seen \subseteq HostLists
    /\ changes \in 0..MaxChanges /\ fails \in 0..MaxFails
    /\ tpsServed \in 0..TpsSamples /\ x \in Nat
    /\ tpsValues \in Seq([x: Nat, y: 0..TpsSamples])
    /\ tpsApplied \in Seq(0..TpsSamples)

\* Mutant: every listed host counted.
AliveCountAll(list) == Len(list)

\* numOfNodes: resp.data.filter(x => x.isAlive).length
AliveCount(list) == Len(SelectSeq(list, LAMBDA h : h.isAlive))

\* The forEach loops: for each host with usageOfDisk, add every disk.
RECURSIVE AddDisks(_, _)
AddDisks(disks, acc) ==
    IF disks = <<>> THEN acc
    ELSE AddDisks(Tail(disks),
                  [usage |-> acc.usage + Head(disks).usedSize,
                   capacity |-> acc.capacity + Head(disks).totalSize])

RECURSIVE StorageOf(_, _)
StorageOf(list, acc) ==
    IF list = <<>> THEN acc
    ELSE StorageOf(Tail(list),
                   IF Head(list).usageOfDisk = NoData THEN acc
                   ELSE AddDisks(Head(list).usageOfDisk, acc))

\* Mutant: only the first disk of a host counted.
SummaryFirstDisk(list) ==
    StorageOf([i \in DOMAIN list |->
                 IF list[i].usageOfDisk \in {NoData, <<>>} THEN list[i]
                 ELSE [list[i] EXCEPT !.usageOfDisk = <<Head(@)>>]],
              [usage |-> 0, capacity |-> 0])

\* Mutant: the summary object built with other field names than the page's.
SummaryRenamed(list) ==
    LET r == StorageOf(list, [usage |-> 0, capacity |-> 0])
    IN [used |-> r.usage, total |-> r.capacity]

Summary(list) == StorageOf(list, [usage |-> 0, capacity |-> 0])

Init ==
    /\ srvHosts \in HostLists
    /\ net = SetToBag({GetHosts, GetServices})
    /\ hosts = NoData /\ numOfNodes = NoData /\ storageInfo = NoData
    /\ services = NoData
    /\ seen = {srvHosts}
    /\ changes = 0 /\ fails = 0
    /\ tpsServed = 0 /\ tpsNet = EmptyBag
    /\ tpsValues = <<>> /\ x = 0 /\ tpsApplied = <<>>

\* The backend's host list changes.
HostsChange(l) ==
    /\ changes < MaxChanges /\ l # srvHosts
    /\ srvHosts' = l
    /\ seen' = seen \cup {l}
    /\ changes' = changes + 1
    /\ UNCHANGED <<net, hosts, numOfNodes, storageInfo, services, fails, tps>>

\* setInterval(refreshNodes, 3000)
Tick ==
    /\ BagCardinality(net) < MaxInFlight
    /\ net' = BagAdd(net, GetHosts)
    /\ UNCHANGED <<srvHosts, hosts, numOfNodes, storageInfo, services, seen,
                   changes, fails, tps>>

Serve(m) ==
    /\ m \in {GetHosts, GetServices}
    /\ net' = BagAdd(BagRemove(net, m),
                     Answer(m.kind, IF m = GetHosts THEN srvHosts ELSE Svcs))
    /\ UNCHANGED <<srvHosts, hosts, numOfNodes, storageInfo, services, seen,
                   changes, fails, tps>>

\* Mutant: the callback keeps the first host list it stored.
ApplyHostsOnce(m) ==
    /\ m.kind = "hosts" /\ m.phase = "resp"
    /\ net' = BagRemove(net, m)
    /\ hosts' = IF hosts = NoData THEN m.data ELSE hosts
    /\ numOfNodes' = AliveCount(hosts')
    /\ storageInfo' = Summary(hosts')
    /\ UNCHANGED <<srvHosts, services, seen, changes, fails, tps>>

\* The refreshNodes callback: all three scope fields from one response.
ApplyHosts(m) ==
    /\ m.kind = "hosts" /\ m.phase = "resp"
    /\ net' = BagRemove(net, m)
    /\ hosts' = m.data
    /\ numOfNodes' = AliveCount(m.data)
    /\ storageInfo' = Summary(m.data)
    /\ UNCHANGED <<srvHosts, services, seen, changes, fails, tps>>

\* The refreshServices callback; refreshServices() runs once, at start.
ApplyServices(m) ==
    /\ m.kind = "services" /\ m.phase = "resp"
    /\ net' = BagRemove(net, m)
    /\ services' = m.data
    /\ UNCHANGED <<srvHosts, hosts, numOfNodes, storageInfo, seen, changes,
                   fails, tps>>

\* No error callbacks: a failed GET just disappears.
Fail(m) ==
    /\ fails < MaxFails
    /\ net' = BagRemove(net, m)
    /\ fails' = fails + 1
    /\ UNCHANGED <<srvHosts, hosts, numOfNodes, storageInfo, services, seen,
                   changes, tps>>

\* A GET of the TiDB metrics, and the response carrying the k-th sample.
TpsGet == [phase |-> "req", kind |-> "tps", data |-> NoData]

\* setInterval(function () { $http.get(".../tidb_perf").then(...) }, 1000):
\* no request at construction.
TpsTick ==
    /\ BagCardinality(tpsNet) < TpsInFlight
    /\ tpsNet' = BagAdd(tpsNet, TpsGet)
    /\ UNCHANGED <<srvHosts, net, hosts, numOfNodes, storageInfo, services,
                   seen, changes, fails, tpsServed, tpsValues, x, tpsApplied>>

\* The backend answers with its next sample.
TpsServe ==
    /\ BagIn(TpsGet, tpsNet) /\ tpsServed < TpsSamples
    /\ tpsNet' = BagAdd(BagRemove(tpsNet, TpsGet), Answer("tps", tpsServed))
    /\ tpsServed' = tpsServed + 1
    /\ UNCHANGED <<srvHosts, net, hosts, numOfNodes, storageInfo, services,
                   seen, changes, fails, tpsValues, x, tpsApplied>>

\* Mutant: the shift test off by one (>= instead of >).
TpsSlideShort(vals, pt) ==
    IF Len(Append(vals, pt)) >= TpsCap THEN Tail(Append(vals, pt))
    ELSE Append(vals, pt)

\* values.push(pt); if (values.length > 20) values.shift();
TpsSlide(vals, pt) ==
    LET pushed == Append(vals, pt)
    IN IF Len(pushed) > TpsCap THEN Tail(pushed) ELSE pushed

\* The .then callback: push {x, y: resp.data.tps}, shift, x++.
TpsApply(m) ==
    /\ m.phase = "resp"
    /\ tpsNet' = BagRemove(tpsNet, m)
    /\ tpsValues' = TpsSlide(tpsValues, [x |-> x, y |-> m.data])
    /\ x' = x + 1
    /\ tpsApplied' = Append(tpsApplied, m.data)
    /\ UNCHANGED <<srvHosts, net, hosts, numOfNodes, storageInfo, services,
                   seen, changes, fails, tpsServed>>

\* A metric GET or its response lost: .then has no error callback.
TpsFail(m) ==
    /\ fails < MaxFails
    /\ tpsNet' = BagRemove(tpsNet, m)
    /\ fails' = fails + 1
    /\ UNCHANGED <<srvHosts, net, hosts, numOfNodes, storageInfo, services,
                   seen, changes, tpsServed, tpsValues, x, tpsApplied>>

Next ==
    \/ \E l \in HostLists : HostsChange(l)
    \/ Tick
    \/ \E m \in BagToSet(net) :
          Serve(m) \/ ApplyHosts(m) \/ ApplyServices(m) \/ Fail(m)
    \/ TpsTick \/ TpsServe
    \/ \E m \in BagToSet(tpsNet) : TpsApply(m) \/ TpsFail(m)

\* The 3 s interval keeps firing, the backend answers and $http runs the
\* callbacks; the backend's list need not change, the failures are bounded.
Spec == Init /\ [][Next]_vars
        /\ WF_vars(Tick) /\ WF_vars(\E m \in BagToSet(net) : Serve(m))
        /\ WF_vars(\E m \in BagToSet(net) : ApplyHosts(m) \/ ApplyServices(m))
-----------------------------------------------------------------------------
(* Refinement.                                                             *)

\* The page's host list is a polled copy of the backend's.
Nodes == INSTANCE PolledValue
           WITH Values <- HostLists, Initial <- NoData,
                source <- srvHosts, shown <- hosts, seen <- seen
-----------------------------------------------------------------------------
(* Reference definitions: counts and sums over index sets.                 *)

DiskSlots(list) ==
    UNION {{<<i, j>> : j \in DOMAIN list[i].usageOfDisk} :
              i \in {k \in DOMAIN list : list[k].usageOfDisk # NoData}}

RefSummary(list) ==
    [usage |-> MapThenSumSet(LAMBDA ij : list[ij[1]].usageOfDisk[ij[2]].usedSize,
                             DiskSlots(list)),
     capacity |-> MapThenSumSet(LAMBDA ij : list[ij[1]].usageOfDisk[ij[2]].totalSize,
                                DiskSlots(list))]

RefAlive(list) == Quantify(DOMAIN list, LAMBDA i : list[i].isAlive)
-----------------------------------------------------------------------------
(* Properties.                                                             *)

\* The node count and the storage summary on the page are those of the
\* host list on the page (never of a different response), and equal the
\* reference count and sums (spec 8: usage 40 / capacity 100, 1 node).
SummaryOfShownHosts ==
    hosts # NoData =>
        /\ numOfNodes = RefAlive(hosts)
        /\ storageInfo = RefSummary(hosts)

\* The host list on the page is undefined or a list the backend has
\* reported, and, through overlapping polls answered in any order and a
\* lost GET, it catches up with the backend's list whenever that stays put.
NodesRefine == Nodes!Spec

\* Spec 4.2 and 8: the TPS strip holds exactly the last min(x, 20) samples
\* whose callbacks ran, in the order they ran, at consecutive x ending at
\* x - 1, although the callbacks run in whatever order responses arrive
\* and a lost response never advances x.
TpsWindowIsLatest ==
    LET w == Min({x, TpsCap})
    IN tpsValues = [i \in 1..w |-> [x |-> x - w + i - 1,
                                    y |-> tpsApplied[Len(tpsApplied) - w + i]]]

\* Spec 4.1: a view fetches at activation and then repeats on its interval,
\* so the services list is eventually shown for good, lost GETs or not.
ServicesEventuallyShown == <>[](services = Svcs)
=============================================================================
