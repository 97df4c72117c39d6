---------------------------- MODULE ChartBuffer ----------------------------
(***************************************************************************)
(* The performance charts of ChartCtrl (chartContoller.js): refresh()     *)
(* GETs one metric sample and its callback appends a point {x, y} to each *)
(* series (TPS, QPS, IOPS, connections), drops the oldest point once a    *)
(* series holds more than 20, and increments the tick counter x.          *)
(* refresh() runs once at construction and then every second; requests    *)
(* overlap and their callbacks run in whatever order the responses come.  *)
(*                                                                         *)
(* A sample is identified by the order in which the backend produced it:  *)
(* the k-th sample served carries y = k in every series.                  *)
(***************************************************************************)
EXTENDS Naturals, Sequences, Bags, BagsExt

CONSTANTS
    Series,       \* the series keys
    Cap,          \* the window length: 20 in the code
    MaxSamples,   \* bound on samples the backend produces
    MaxInFlight   \* bound on overlapping requests

ASSUME Cap \in Nat \ {0} /\ MaxSamples \in Nat /\ MaxInFlight \in Nat \ {0}

VARIABLES
    served,   \* samples the backend has produced
    net,      \* bag of pending requests and responses
    values,   \* values[s]: $scope.<s>[0].values
    x,        \* the closure's tick counter
    applied   \* history: sample ids in the order their callbacks ran

vars == <<served, net, values, x, applied>>

Point == [x: Nat, y: Nat]

\* A pending GET, and a response carrying the k-th sample.
GetReq == [kind |-> "get", y |-> 0]
Sample(k) == [kind |-> "sample", y |-> k]

TypeOK ==
    /\ served \in 0..MaxSamples
    /\ values \in [Series -> Seq(Point)]
    /\ \A s \in Series : Len(values[s]) <= Cap
    /\ x \in Nat /\ applied \in Seq(0..MaxSamples)

\* Construction: empty series, x = 0, and refresh() called once.
Init ==
    /\ served = 0
    /\ net = SetToBag({GetReq})
    /\ values = [s \in Series |-> <<>>]
    /\ x = 0
    /\ applied = <<>>

\* setInterval(refresh, 1000)
Tick ==
    /\ BagCardinality(net) < MaxInFlight
    /\ net' = BagAdd(net, GetReq)
    /\ UNCHANGED <<served, values, x, applied>>

\* The backend answers GET monitor/real/tidb_perf with its next sample.
Serve ==
    /\ BagIn(GetReq, net) /\ served < MaxSamples
    /\ net' = BagAdd(BagRemove(net, GetReq), Sample(served))
    /\ served' = served + 1
    /\ UNCHANGED <<values, x, applied>>

\* Mutant: the shift dropped.
SlidePushOnly(vals, pt) == Append(vals, pt)

\* Mutant: the shift test off by one (>= instead of >).
SlideShort(vals, pt) ==
    LET pushed == Append(vals, pt)
    IN IF Len(pushed) >= Cap THEN Tail(pushed) ELSE pushed

\* push, then shift if the series is longer than 20.
Slide(vals, pt) ==
    LET pushed == Append(vals, pt)
    IN IF Len(pushed) > Cap THEN Tail(pushed) ELSE pushed

\* The .then callback: every series gets the point (x, y), then x++.
Apply(m) ==
    /\ m.kind = "sample" /\ BagIn(m, net)
    /\ net' = BagRemove(net, m)
    /\ values' = [s \in Series |-> Slide(values[s], [x |-> x, y |-> m.y])]
    /\ x' = x + 1
    /\ applied' = Append(applied, m.y)
    /\ UNCHANGED served

\* A failed request or lost response: .then has no error handler.
Fail(m) ==
    /\ BagIn(m, net)
    /\ net' = BagRemove(net, m)
    /\ UNCHANGED <<served, values, x, applied>>

Next ==
    \/ Tick \/ Serve
    \/ \E m \in BagToSet(net) : Apply(m) \/ Fail(m)

Spec == Init /\ [][Next]_vars
-----------------------------------------------------------------------------
(* Properties.                                                             *)

Window == IF x < Cap THEN x ELSE Cap

\* Spec 8: every series holds exactly the last min(x, 20) samples whose
\* callbacks ran, in the order they ran, with consecutive x coordinates
\* ending at x - 1.
WindowIsLatest ==
    \A s \in Series :
        values[s] = [i \in 1..Window |->
                       [x |-> x - Window + i - 1,
                        y |-> applied[Len(applied) - Window + i]]]

=============================================================================
