------------------------------ MODULE Counter ------------------------------
(***************************************************************************)
(* The counter demo of the feApp (MainCtrl, fe/app/scripts/controllers/   *)
(* main.js): count starts at 0; an $interval fires every second and GETs  *)
(* the backend's counter; the success handler copies res.count into the   *)
(* scope, the error handler is empty.  The first GET leaves after one     *)
(* second; GETs overlap and answer in any order.  $interval and $http run *)
(* their callbacks inside a digest, so count is rendered as soon as set.  *)
(*                                                                         *)
(* The backend's counter (out of the repository) is taken to count up     *)
(* from Start.                                                             *)
(***************************************************************************)
EXTENDS Naturals, Bags, BagsExt

CONSTANTS
    Start,        \* the backend's counter when the page opens
    MaxCount,     \* bound on the backend's counter
    MaxInFlight,  \* bound on overlapping GETs
    MaxFails      \* bound on GETs that end in the error handler

ASSUME Start \in 1..MaxCount

VARIABLES
    srvCount,     \* the backend's counter
    net,          \* bag of pending GETs and answers
    count,        \* $scope.count
    fails

vars == <<srvCount, net, count, fails>>

Get == [kind |-> "get", count |-> 0]
Answer(c) == [kind |-> "answer", count |-> c]

Init ==
    /\ srvCount = Start
    /\ net = EmptyBag
    /\ count = 0
    /\ fails = 0

\* The backend's counter advances.
Advance ==
    /\ srvCount < MaxCount
    /\ srvCount' = srvCount + 1
    /\ UNCHANGED <<net, count, fails>>

\* $interval(function () { $http.get(".../counter") ... }, 1000)
Tick ==
    /\ BagCardinality(net) < MaxInFlight
    /\ net' = BagAdd(net, Get)
    /\ UNCHANGED <<srvCount, count, fails>>

Serve ==
    /\ BagIn(Get, net)
    /\ net' = BagAdd(BagRemove(net, Get), Answer(srvCount))
    /\ UNCHANGED <<srvCount, count, fails>>

\* .success(function (res) { $scope.count = res.count; })
Success(m) ==
    /\ m.kind = "answer"
    /\ net' = BagRemove(net, m)
    /\ count' = m.count
    /\ UNCHANGED <<srvCount, fails>>

\* Mutant: the error handler resets the display.
ErrorReset(m) ==
    /\ fails < MaxFails
    /\ net' = BagRemove(net, m)
    /\ fails' = fails + 1
    /\ count' = 0
    /\ UNCHANGED srvCount

\* .error(function (status) { }): a failed request changes nothing.
Error(m) ==
    /\ fails < MaxFails
    /\ net' = BagRemove(net, m)
    /\ fails' = fails + 1
    /\ UNCHANGED <<srvCount, count>>

Next ==
    \/ Advance \/ Tick \/ Serve
    \/ \E m \in BagToSet(net) : Success(m) \/ Error(m)

\* The interval never stops, the backend answers and $http runs the
\* success handler; the backend's counter need not advance.
Spec == Init /\ [][Next]_vars
        /\ WF_vars(Tick) /\ WF_vars(Serve)
        /\ WF_vars(\E m \in BagToSet(net) : Success(m))
-----------------------------------------------------------------------------
(* Refinement.                                                             *)

\* The page's count is a polled copy of the backend's counter, which has
\* held exactly the values Start..srvCount.
Display == INSTANCE PolledValue
             WITH Values <- 0..MaxCount, Initial <- 0,
                  source <- srvCount, shown <- count, seen <- Start..srvCount
-----------------------------------------------------------------------------
(* Properties.                                                             *)

\* The counter on the page is 0 or a value the backend's counter has had
\* (a failed GET leaves it alone, spec 8), although an old answer may put
\* it back to an earlier value; and it catches up with the backend's
\* counter whenever that stays put.
CountRefines == Display!Spec
=============================================================================
