--------------------------- MODULE HostStatusView ---------------------------
(***************************************************************************)
(* The host-status view-model (HostStatusCtrl, hostStatusController.js)   *)
(* for the host MachID of the route /host-status/:machID: a 3 s polling   *)
(* loop that reloads services, the host's detail and the processes of     *)
(* that host (processes/findByHost), start / stop / delete buttons, and a  *)
(* new-process dialog that creates the process on MachID.  $scope.hosts is *)
(* never assigned in this controller, so the dialog's hosts are undefined; *)
(* it needs none, since the machine is the route's.                        *)
(***************************************************************************)
EXTENDS Backend

CONSTANTS
    MachID,       \* $stateParams.machID
    MaxInFlight,  \* bound on requests the timer and user may add
    MaxOps,       \* bound on user mutations (start/stop/delete/create)
    MaxDialogs,   \* bound on new-process dialogs opened
    MaxFails,     \* bound on requests lost to network or server errors
    InitSrv       \* the backend tables the view may find when it starts

ASSUME MachID \in Hosts /\ MaxInFlight >= 3 /\ InitSrv \subseteq ServerState

Dialogs == 1..MaxDialogs

VARIABLES
    srv,        \* the backend's process table
    net,        \* bag of requests and responses in flight
    services,   \* $scope.services
    host,       \* $scope.host
    processes,  \* $scope.processes
    dialog,     \* dialog[d]: status and newProcData.serviceName of modal d
    ops, fails

vars == <<srv, net, services, host, processes, dialog, ops, fails>>

\* What GET processes/findByHost?machID=MachID returns.
OnHost(s) == [p \in Procs |-> IF s[p] # Absent /\ s[p].host = MachID
                              THEN s[p] ELSE Absent]

IsOpen(d) == dialog[d].status = "open"
NoDialogOpen == \A d \in Dialogs : ~IsOpen(d)
Room(k) == InFlight(net) + k <= MaxInFlight

\* refresh(): services, hosts/MachID and processes/findByHost.
Refresh(n) == Send(Send(Send(n, Req("services", NoArg)),
                        Req("host", NoArg)), Req("findByHost", NoArg))

TypeOK ==
    /\ srv \in ServerState
    /\ services \in {NoData, Svcs} /\ host \in {NoData, MachID}
    /\ processes \in {NoData} \cup ServerState
    /\ dialog \in [Dialogs -> [status: {"unopened", "open", "cancelled", "closed"},
                               svcs: {NoData, Svcs}, svc: Svcs \cup {NoData}]]
    /\ ops \in 0..MaxOps /\ fails \in 0..MaxFails

Init ==
    /\ srv \in InitSrv
    /\ net = Refresh(EmptyBag)
    /\ services = NoData /\ host = NoData /\ processes = NoData
    /\ dialog = [d \in Dialogs |-> [status |-> "unopened", svcs |-> NoData,
                                    svc |-> NoData]]
    /\ ops = 0 /\ fails = 0

Tick ==
    /\ Room(3)
    /\ net' = Refresh(net)
    /\ UNCHANGED <<srv, services, host, processes, dialog, ops, fails>>

Mutate(kind, p) ==
    /\ NoDialogOpen
    /\ processes # NoData /\ processes[p] # Absent
    /\ ops < MaxOps /\ Room(1)
    /\ net' = Send(net, Req(kind, p))
    /\ ops' = ops + 1
    /\ UNCHANGED <<srv, services, host, processes, dialog, fails>>

OpenDialog(d) ==
    /\ NoDialogOpen /\ dialog[d].status = "unopened"
    /\ \A e \in 1..(d - 1) : dialog[e].status # "unopened"
    /\ dialog' = [dialog EXCEPT ![d] = [status |-> "open", svcs |-> services,
                                         svc |-> NoData]]
    /\ UNCHANGED <<srv, net, services, host, processes, ops, fails>>

SelectService(d, s) ==
    /\ IsOpen(d) /\ dialog[d].svcs # NoData /\ s \in dialog[d].svcs
    /\ dialog' = [dialog EXCEPT ![d].svc = s]
    /\ UNCHANGED <<srv, net, services, host, processes, ops, fails>>

\* Mutant: the serviceName check of $scope.ok dropped.
OkUnchecked(d) ==
    /\ IsOpen(d) /\ ops < MaxOps /\ Room(1)
    /\ net' = Send(net, Req("create", [svc |-> dialog[d].svc,
                                       mach |-> MachID, dlg |-> d]))
    /\ ops' = ops + 1
    /\ UNCHANGED <<srv, services, host, processes, dialog, fails>>

\* $scope.ok: only a service is required; the machine is the route's.
Ok(d) ==
    /\ IsOpen(d) /\ dialog[d].svc # NoData
    /\ ops < MaxOps /\ Room(1)
    /\ net' = Send(net, Req("create", [svc |-> dialog[d].svc,
                                       mach |-> MachID, dlg |-> d]))
    /\ ops' = ops + 1
    /\ UNCHANGED <<srv, services, host, processes, dialog, fails>>

Cancel(d) ==
    /\ IsOpen(d)
    /\ dialog' = [dialog EXCEPT ![d].status = "cancelled"]
    /\ UNCHANGED <<srv, net, services, host, processes, ops, fails>>
-----------------------------------------------------------------------------
(* Backend and network.                                                    *)

ServeRead(m) ==
    /\ m.phase = "req" /\ m.kind \in {"services", "host", "findByHost"}
    /\ net' = Send(Consume(net, m),
                   Resp(m.kind, IF m.kind = "findByHost" THEN OnHost(srv)
                                ELSE NoArg))
    /\ UNCHANGED <<srv, services, host, processes, dialog, ops, fails>>

ServeMutation(m) ==
    /\ m.phase = "req" /\ m.kind \in {"start", "stop", "delete"}
    /\ srv[m.arg] # Absent
    /\ srv' = AfterMutation(srv, m.kind, m.arg)
    /\ net' = Send(Consume(net, m), Resp(m.kind, NoArg))
    /\ UNCHANGED <<services, host, processes, dialog, ops, fails>>

ServeCreate(m) ==
    /\ m.phase = "req" /\ m.kind = "create"
    /\ \E p \in Procs \ Live(srv) :
          srv' = [srv EXCEPT ![p] = [state |-> "started", svc |-> m.arg.svc,
                                     host |-> m.arg.mach]]
    /\ net' = Send(Consume(net, m), Resp("create", m.arg.dlg))
    /\ UNCHANGED <<services, host, processes, dialog, ops, fails>>

ServeRejected(m) ==
    /\ m.phase = "req"
    /\ \/ m.kind \in {"start", "stop", "delete"} /\ srv[m.arg] = Absent
       \/ m.kind = "create" /\ Live(srv) = Procs
    /\ net' = Consume(net, m)
    /\ UNCHANGED <<srv, services, host, processes, dialog, ops, fails>>

Fail(m) ==
    /\ fails < MaxFails
    /\ net' = Consume(net, m)
    /\ fails' = fails + 1
    /\ UNCHANGED <<srv, services, host, processes, dialog, ops>>
-----------------------------------------------------------------------------
(* Success callbacks.                                                      *)

ApplyServices(m) ==
    /\ m = Resp("services", NoArg)
    /\ services' = Svcs
    /\ net' = Consume(net, m)
    /\ UNCHANGED <<srv, host, processes, dialog, ops, fails>>

ApplyHost(m) ==
    /\ m = Resp("host", NoArg)
    /\ host' = MachID
    /\ net' = Consume(net, m)
    /\ UNCHANGED <<srv, services, processes, dialog, ops, fails>>

\* Mutant: the table filled from GET processes, every host's processes.
ApplyAllProcesses(m) ==
    /\ m.phase = "resp" /\ m.kind = "findByHost"
    /\ processes' = srv
    /\ net' = Consume(net, m)
    /\ UNCHANGED <<srv, services, host, dialog, ops, fails>>

ApplyProcesses(m) ==
    /\ m.phase = "resp" /\ m.kind = "findByHost"
    /\ processes' = m.arg
    /\ net' = Consume(net, m)
    /\ UNCHANGED <<srv, services, host, dialog, ops, fails>>

MutationDone(m) ==
    /\ m.phase = "resp" /\ m.kind \in {"start", "stop", "delete"}
    /\ net' = Refresh(Consume(net, m))
    /\ UNCHANGED <<srv, services, host, processes, dialog, ops, fails>>

\* The modal's callback calls the controller's refresh(), then closes the
\* $modalInstance it was opened with.
CreateDone(m) ==
    /\ m.phase = "resp" /\ m.kind = "create"
    /\ net' = Refresh(Consume(net, m))
    /\ dialog' = IF IsOpen(m.arg)
                 THEN [dialog EXCEPT ![m.arg].status = "closed"] ELSE dialog
    /\ UNCHANGED <<srv, services, host, processes, ops, fails>>
-----------------------------------------------------------------------------
Msgs == BagToSet(net)

Serve == \E m \in Msgs :
    ServeRead(m) \/ ServeMutation(m) \/ ServeCreate(m) \/ ServeRejected(m)

Deliver == \E m \in Msgs :
    \/ ApplyServices(m) \/ ApplyHost(m) \/ ApplyProcesses(m)
    \/ MutationDone(m) \/ CreateDone(m)

User ==
    \/ \E k \in {"start", "stop", "delete"}, p \in Procs : Mutate(k, p)
    \/ \E d \in Dialogs :
          \/ OpenDialog(d) \/ Ok(d) \/ Cancel(d)
          \/ \E s \in Svcs : SelectService(d, s)

Next == Tick \/ User \/ Serve \/ Deliver \/ \E m \in Msgs : Fail(m)

Spec == Init /\ [][Next]_vars
        /\ WF_vars(Tick) /\ WF_vars(Serve) /\ WF_vars(Deliver)
-----------------------------------------------------------------------------
(* Properties.                                                             *)

\* Once mutations and failures stop, the table eventually shows exactly
\* the backend's processes on MachID, for good: processes that were
\* created, started, stopped or deleted from this page included.
Converges == <>[](processes = OnHost(srv))
=============================================================================
