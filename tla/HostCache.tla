----------------------------- MODULE HostCache -----------------------------
(***************************************************************************)
(* The shared host accessor HostService (services.js) and its reader, the *)
(* sidebar directive (sidebar.js).  HostService keeps one host list in    *)
(* its closure, starts empty, and reloads it with GET api/v1/hosts at     *)
(* creation, every 3 s, and on refresh(); the callback replaces the list  *)
(* wholesale.  The sidebar copies getHosts() into its scope at creation   *)
(* and every 1 s, and keeps two collapse toggles.  The two timers are     *)
(* independent; the GETs overlap and answer in any order.                 *)
(*                                                                         *)
(* The backend's host list is abstracted to a version number: version v  *)
(* is the list the backend reports after its v-th change; Empty is the    *)
(* [] HostService starts with.                                            *)
(*                                                                         *)
(* The sidebar's interval is a plain setInterval, not $interval: its      *)
(* assignment runs outside Angular's digest, so the page shows the new    *)
(* $scope.hosts only at the next digest.  Digests run after every $http   *)
(* callback (success or error, of this or any other view) and after an    *)
(* ng-click such as check/multiCheck.  rendered is what the page shows.   *)
(***************************************************************************)
EXTENDS Naturals, Bags, BagsExt

CONSTANTS
    MaxVersion,   \* bound on changes of the backend's host list
    MaxInFlight,  \* bound on overlapping GETs
    MaxFails,     \* bound on GETs lost to errors
    Menus,        \* the menu ids the sidebar's check/multiCheck receive
    Empty         \* model value: the initial []

VARIABLES
    srvVer,       \* the backend's current host list
    net,          \* bag of pending GETs ("get") and answers (versions)
    cache,        \* HostService's hosts
    shown,        \* the sidebar's $scope.hosts
    rendered,     \* the sidebar's host list as last rendered by a digest
    collapseVar, multiCollapseVar,
    fails

vars == <<srvVer, net, cache, shown, rendered, collapseVar, multiCollapseVar,
          fails>>

Get == [kind |-> "get", ver |-> 0]
Answer(v) == [kind |-> "answer", ver |-> v]

\* HostService is created (refreshNodes() once), then the sidebar
\* controller copies getHosts(), which is still [].
Init ==
    /\ srvVer = 0
    /\ net = SetToBag({Get})
    /\ cache = Empty /\ shown = Empty /\ rendered = Empty
    /\ collapseVar = 0 /\ multiCollapseVar = 0
    /\ fails = 0

HostsChange ==
    /\ srvVer < MaxVersion
    /\ srvVer' = srvVer + 1
    /\ UNCHANGED <<net, cache, shown, rendered, collapseVar, multiCollapseVar,
                   fails>>

\* refreshNodes(), from setInterval(refreshNodes, 3000) or refresh().
RefreshNodes ==
    /\ BagCardinality(net) < MaxInFlight
    /\ net' = BagAdd(net, Get)
    /\ UNCHANGED <<srvVer, cache, shown, rendered, collapseVar,
                   multiCollapseVar, fails>>

Serve ==
    /\ BagIn(Get, net)
    /\ net' = BagAdd(BagRemove(net, Get), Answer(srvVer))
    /\ UNCHANGED <<srvVer, cache, shown, rendered, collapseVar,
                   multiCollapseVar, fails>>

\* hosts = resp.data, inside $http's digest: the page re-renders the
\* sidebar's $scope.hosts, which still holds what its interval last copied.
ApplyHosts(m) ==
    /\ m.kind = "answer"
    /\ net' = BagRemove(net, m)
    /\ cache' = m.ver
    /\ rendered' = shown
    /\ UNCHANGED <<srvVer, shown, collapseVar, multiCollapseVar, fails>>

\* A failed GET: no error callback, but $http still ends in a digest.
Fail(m) ==
    /\ fails < MaxFails
    /\ net' = BagRemove(net, m)
    /\ fails' = fails + 1
    /\ rendered' = shown
    /\ UNCHANGED <<srvVer, cache, shown, collapseVar, multiCollapseVar>>

\* Mutant: the sidebar's interval does not re-read getHosts().
SidebarPollStale ==
    /\ shown' = shown
    /\ UNCHANGED <<srvVer, net, cache, rendered, collapseVar, multiCollapseVar,
                   fails>>

\* setInterval(function() { $scope.hosts = HostService.getHosts(); }, 1000):
\* outside Angular, so nothing is rendered.
SidebarPoll ==
    /\ shown' = cache
    /\ UNCHANGED <<srvVer, net, cache, rendered, collapseVar, multiCollapseVar,
                   fails>>

\* The digest after an $http callback of the active view's controller.
OtherDigest ==
    /\ rendered' = shown
    /\ UNCHANGED <<srvVer, net, cache, shown, collapseVar, multiCollapseVar,
                   fails>>

\* $scope.check(x) / multiCheck(y): toggle a menu open or closed.
Toggle(cur, x) == IF x = cur THEN 0 ELSE x

\* ng-click handlers: the toggle, then a digest.
Check(x) ==
    /\ collapseVar' = Toggle(collapseVar, x)
    /\ rendered' = shown
    /\ UNCHANGED <<srvVer, net, cache, shown, multiCollapseVar, fails>>

MultiCheck(y) ==
    /\ multiCollapseVar' = Toggle(multiCollapseVar, y)
    /\ rendered' = shown
    /\ UNCHANGED <<srvVer, net, cache, shown, collapseVar, fails>>

Next ==
    \/ HostsChange \/ RefreshNodes \/ Serve \/ SidebarPoll \/ OtherDigest
    \/ \E m \in BagToSet(net) : ApplyHosts(m) \/ Fail(m)
    \/ \E x \in Menus : Check(x) \/ MultiCheck(x)

\* Both timers keep firing, the backend answers and $http runs callbacks.
\* The operator and the other views are not assumed to do anything.
Spec == Init /\ [][Next]_vars
        /\ WF_vars(RefreshNodes) /\ WF_vars(Serve) /\ WF_vars(SidebarPoll)
        /\ WF_vars(\E m \in BagToSet(net) : ApplyHosts(m))
-----------------------------------------------------------------------------
(* Refinement.                                                             *)

\* The rendered sidebar is a polled copy of the backend's host list; the
\* lists the backend has held are the versions 0..srvVer.
Sidebar == INSTANCE PolledValue
             WITH Values <- 0..MaxVersion, Initial <- Empty,
                  source <- srvVer, shown <- rendered, seen <- 0..srvVer
-----------------------------------------------------------------------------
(* Properties.                                                             *)

\* The sidebar the page renders shows only the initial [] or a host list
\* the backend has reported, and, through a cache a late answer can set
\* back, a copy the setInterval writes outside the digest and digests that
\* only $http answers and clicks trigger, it catches up with the backend
\* whenever the backend's list stays put.
SidebarRefines == Sidebar!Spec
=============================================================================
