------------------------------ MODULE Backend ------------------------------
(***************************************************************************)
(* The REST backend the dashboard talks to (spec section 6).  It is not   *)
(* code of this repository: it is the environment of the view-models, and *)
(* is modelled only as far as the views can observe it.  A process slot   *)
(* of Procs is either Absent or holds a process record; a create request   *)
(* fills an absent slot, delete empties one, start/stop change the state.  *)
(*                                                                         *)
(* Requests and responses travel through an unordered network (a bag), so *)
(* both the order in which the backend serves requests and the order in   *)
(* which the browser runs the response callbacks are arbitrary.           *)
(***************************************************************************)
EXTENDS Naturals, Bags, BagsExt

CONSTANTS
    Procs,      \* process id slots the backend can hand out
    Hosts,      \* machine ids (machID)
    Svcs,       \* service names (svcName)
    Absent,     \* model value: an empty process slot
    NoArg,      \* model value: a request that carries no argument
    NoData      \* model value: a scope variable not yet assigned (undefined)

\* What GET api/v1/processes returns for one process.
Entry == [state: {"started", "stopped"}, svc: Svcs, host: Hosts]

\* The backend's table of processes.
ServerState == [Procs -> Entry \cup {Absent}]

\* An HTTP request of a given kind, and the response that completes it.
Req(kind, arg) == [phase |-> "req", kind |-> kind, arg |-> arg]
Resp(kind, arg) == [phase |-> "resp", kind |-> kind, arg |-> arg]

\* The processes the backend holds.
Live(srv) == {p \in Procs : srv[p] # Absent}

\* Start and stop of an existing process set its state; delete empties the
\* slot.  A request for an absent process is answered with an error.
AfterMutation(srv, kind, p) ==
    CASE kind = "start"  -> [srv EXCEPT ![p].state = "started"]
      [] kind = "stop"   -> [srv EXCEPT ![p].state = "stopped"]
      [] kind = "delete" -> [srv EXCEPT ![p] = Absent]

\* Put one message into / take one message out of the network.
Send(net, m) == BagAdd(net, m)
Consume(net, m) == BagRemove(net, m)
InFlight(net) == BagCardinality(net)
=============================================================================
