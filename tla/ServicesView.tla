---------------------------- MODULE ServicesView ----------------------------
(***************************************************************************)
(* The Services view-model (ServicesController, servicesController.js):   *)
(* a 3 s polling loop that reloads services, processes and hosts, the     *)
(* start / stop / delete buttons of the process table, and the            *)
(* new-process modal dialog.  Every handler runs to completion; the only   *)
(* suspension points are the $http calls, whose requests and responses are *)
(* messages of the Backend network, served and answered in any order.     *)
(* A failed request has no error callback, so it simply disappears.       *)
(***************************************************************************)
EXTENDS Backend

CONSTANTS
    MaxInFlight,  \* bound on requests/responses the timer and user may add
    MaxOps,       \* bound on user mutations (start/stop/delete/create)
    MaxDialogs,   \* bound on new-process dialogs opened
    MaxFails,     \* bound on requests lost to network or server errors
    InitSrv       \* the backend tables the view may find when it starts

ASSUME MaxInFlight >= 3 /\ MaxDialogs >= 1 /\ InitSrv \subseteq ServerState

Dialogs == 1..MaxDialogs

VARIABLES
    srv,        \* the backend's process table
    net,        \* bag of requests and responses in flight
    services,   \* $scope.services
    processes,  \* $scope.processes
    hosts,      \* $scope.hosts
    dialog,     \* dialog[d]: the d-th modal opened, its scope and its fate
    created,    \* dialogs whose POST the backend has carried out
    ops,        \* user mutations so far
    fails       \* requests lost so far

vars == <<srv, net, services, processes, hosts, dialog, created, ops, fails>>

\* A modal instance: its resolved services/hosts, newProcData selections,
\* how many POSTs its OK button issued, and whether it is still open.
DialogState == [status: {"unopened", "open", "cancelled", "closed"},
                svcs: {NoData, Svcs}, hosts: {NoData, Hosts},
                svc: Svcs \cup {NoData}, mach: Hosts \cup {NoData},
                posts: Nat]

Unopened == [status |-> "unopened", svcs |-> NoData, hosts |-> NoData,
             svc |-> NoData, mach |-> NoData, posts |-> 0]

IsOpen(d) == dialog[d].status = "open"
NoDialogOpen == \A d \in Dialogs : ~IsOpen(d)

Room(k) == InFlight(net) + k <= MaxInFlight

\* refresh(): three independent GETs, none awaited by the others.
Refresh(n) == Send(Send(Send(n, Req("services", NoArg)),
                        Req("processes", NoArg)), Req("hosts", NoArg))

TypeOK ==
    /\ srv \in ServerState
    /\ services \in {NoData, Svcs}
    /\ processes \in {NoData} \cup ServerState
    /\ hosts \in {NoData, Hosts}
    /\ dialog \in [Dialogs -> DialogState]
    /\ created \subseteq Dialogs
    /\ ops \in 0..MaxOps /\ fails \in 0..MaxFails

\* Controller construction: scope empty, refresh() called once.
Init ==
    /\ srv \in InitSrv
    /\ net = Refresh(EmptyBag)
    /\ services = NoData /\ processes = NoData /\ hosts = NoData
    /\ dialog = [d \in Dialogs |-> Unopened]
    /\ created = {} /\ ops = 0 /\ fails = 0

\* setInterval(refresh, 3000)
Tick ==
    /\ Room(3)
    /\ net' = Refresh(net)
    /\ UNCHANGED <<srv, services, processes, hosts, dialog, created, ops, fails>>

\* $scope.start / stop / delete (p): one request for a process of the
\* table; the page is behind the modal backdrop while a dialog is open.
Mutate(kind, p) ==
    /\ NoDialogOpen
    /\ processes # NoData /\ processes[p] # Absent
    /\ ops < MaxOps /\ Room(1)
    /\ net' = Send(net, Req(kind, p))
    /\ ops' = ops + 1
    /\ UNCHANGED <<srv, services, processes, hosts, dialog, created, fails>>

\* $scope.openNewProcessDialog: resolve copies the current scope lists
\* into the modal's scope; newProcData starts empty.
OpenDialog(d) ==
    /\ NoDialogOpen /\ dialog[d].status = "unopened"
    /\ \A e \in 1..(d - 1) : dialog[e].status # "unopened"
    /\ dialog' = [dialog EXCEPT ![d] = [Unopened EXCEPT !.status = "open",
                                         !.svcs = services, !.hosts = hosts]]
    /\ UNCHANGED <<srv, net, services, processes, hosts, created, ops, fails>>

\* The select boxes bound to newProcData offer only what resolve gave.
SelectService(d, s) ==
    /\ IsOpen(d) /\ dialog[d].svcs # NoData /\ s \in dialog[d].svcs
    /\ dialog' = [dialog EXCEPT ![d].svc = s]
    /\ UNCHANGED <<srv, net, services, processes, hosts, created, ops, fails>>

SelectMachine(d, h) ==
    /\ IsOpen(d) /\ dialog[d].hosts # NoData /\ h \in dialog[d].hosts
    /\ dialog' = [dialog EXCEPT ![d].mach = h]
    /\ UNCHANGED <<srv, net, services, processes, hosts, created, ops, fails>>

\* Mutant: the selection check of $scope.ok dropped.
OkUnchecked(d) ==
    /\ IsOpen(d) /\ ops < MaxOps /\ Room(1)
    /\ net' = Send(net, Req("create", [svc |-> dialog[d].svc,
                                       mach |-> dialog[d].mach, dlg |-> d]))
    /\ dialog' = [dialog EXCEPT ![d].posts = @ + 1]
    /\ ops' = ops + 1
    /\ UNCHANGED <<srv, services, processes, hosts, created, fails>>

\* $scope.ok: with both selections it POSTs and leaves the modal open
\* until the POST succeeds; without them it only alerts, which changes
\* no state and is therefore a stuttering step, not an action.
Ok(d) ==
    /\ IsOpen(d)
    /\ dialog[d].svc # NoData /\ dialog[d].mach # NoData
    /\ ops < MaxOps /\ Room(1)
    /\ net' = Send(net, Req("create", [svc |-> dialog[d].svc,
                                       mach |-> dialog[d].mach, dlg |-> d]))
    /\ dialog' = [dialog EXCEPT ![d].posts = @ + 1]
    /\ ops' = ops + 1
    /\ UNCHANGED <<srv, services, processes, hosts, created, fails>>

\* $scope.cancel: $modalInstance.dismiss('cancel').
Cancel(d) ==
    /\ IsOpen(d)
    /\ dialog' = [dialog EXCEPT ![d].status = "cancelled"]
    /\ UNCHANGED <<srv, net, services, processes, hosts, created, ops, fails>>
-----------------------------------------------------------------------------
(* The backend serves one request.                                         *)

ServeRead(m) ==
    /\ m.phase = "req" /\ m.kind \in {"services", "processes", "hosts"}
    /\ net' = Send(Consume(net, m),
                   Resp(m.kind, IF m.kind = "processes" THEN srv ELSE NoArg))
    /\ UNCHANGED <<srv, services, processes, hosts, dialog, created, ops, fails>>

ServeMutation(m) ==
    /\ m.phase = "req" /\ m.kind \in {"start", "stop", "delete"}
    /\ srv[m.arg] # Absent
    /\ srv' = AfterMutation(srv, m.kind, m.arg)
    /\ net' = Send(Consume(net, m), Resp(m.kind, NoArg))
    /\ UNCHANGED <<services, processes, hosts, dialog, created, ops, fails>>

\* POST api/v1/processes with desiredState "started" fills a free slot.
ServeCreate(m) ==
    /\ m.phase = "req" /\ m.kind = "create"
    /\ \E p \in Procs \ Live(srv) :
          srv' = [srv EXCEPT ![p] = [state |-> "started", svc |-> m.arg.svc,
                                     host |-> m.arg.mach]]
    /\ net' = Send(Consume(net, m), Resp("create", m.arg.dlg))
    /\ created' = created \cup {m.arg.dlg}
    /\ UNCHANGED <<services, processes, hosts, dialog, ops, fails>>

\* A request for a process that no longer exists, or a create with no
\* free slot, is answered with an error: no success callback runs.
ServeRejected(m) ==
    /\ m.phase = "req"
    /\ \/ m.kind \in {"start", "stop", "delete"} /\ srv[m.arg] = Absent
       \/ m.kind = "create" /\ Live(srv) = Procs
    /\ net' = Consume(net, m)
    /\ UNCHANGED <<srv, services, processes, hosts, dialog, created, ops, fails>>

\* A network error loses a request or a response; .then has no error
\* handler, so nothing else happens.
Fail(m) ==
    /\ fails < MaxFails
    /\ net' = Consume(net, m)
    /\ fails' = fails + 1
    /\ UNCHANGED <<srv, services, processes, hosts, dialog, created, ops>>
-----------------------------------------------------------------------------
(* The browser runs one success callback.                                  *)

ApplyServices(m) ==
    /\ m = Resp("services", NoArg)
    /\ services' = Svcs
    /\ net' = Consume(net, m)
    /\ UNCHANGED <<srv, processes, hosts, dialog, created, ops, fails>>

\* Mutant: the table is loaded once and never replaced.
ApplyProcessesOnce(m) ==
    /\ m.phase = "resp" /\ m.kind = "processes"
    /\ processes' = IF processes = NoData THEN m.arg ELSE processes
    /\ net' = Consume(net, m)
    /\ UNCHANGED <<srv, services, hosts, dialog, created, ops, fails>>

\* $scope.processes = resp.data: whatever response runs last wins.
ApplyProcesses(m) ==
    /\ m.phase = "resp" /\ m.kind = "processes"
    /\ processes' = m.arg
    /\ net' = Consume(net, m)
    /\ UNCHANGED <<srv, services, hosts, dialog, created, ops, fails>>

ApplyHosts(m) ==
    /\ m = Resp("hosts", NoArg)
    /\ hosts' = Hosts
    /\ net' = Consume(net, m)
    /\ UNCHANGED <<srv, services, processes, dialog, created, ops, fails>>

\* .then(function(resp) { refresh(); })
MutationDone(m) ==
    /\ m.phase = "resp" /\ m.kind \in {"start", "stop", "delete"}
    /\ net' = Refresh(Consume(net, m))
    /\ UNCHANGED <<srv, services, processes, hosts, dialog, created, ops, fails>>

\* .then(function(resp) { refresh(); $modalInstance.close(); }): closes
\* the modal that posted, a no-op if that modal is no longer open.
CreateDone(m) ==
    /\ m.phase = "resp" /\ m.kind = "create"
    /\ net' = Refresh(Consume(net, m))
    /\ dialog' = IF IsOpen(m.arg)
                 THEN [dialog EXCEPT ![m.arg].status = "closed"] ELSE dialog
    /\ UNCHANGED <<srv, services, processes, hosts, created, ops, fails>>
-----------------------------------------------------------------------------
Msgs == BagToSet(net)

Serve == \E m \in Msgs :
    ServeRead(m) \/ ServeMutation(m) \/ ServeCreate(m) \/ ServeRejected(m)

Deliver == \E m \in Msgs :
    \/ ApplyServices(m) \/ ApplyProcesses(m) \/ ApplyHosts(m)
    \/ MutationDone(m) \/ CreateDone(m)

User ==
    \/ \E k \in {"start", "stop", "delete"}, p \in Procs : Mutate(k, p)
    \/ \E d \in Dialogs :
          \/ OpenDialog(d) \/ Ok(d) \/ Cancel(d)
          \/ \E s \in Svcs : SelectService(d, s)
          \/ \E h \in Hosts : SelectMachine(d, h)

Next == Tick \/ User \/ Serve \/ Deliver \/ \E m \in Msgs : Fail(m)

\* The timer never stops and the backend eventually answers what it is
\* sent; the user is under no obligation to do anything.
Spec == Init /\ [][Next]_vars
        /\ WF_vars(Tick) /\ WF_vars(Serve) /\ WF_vars(Deliver)
-----------------------------------------------------------------------------
(* Properties.                                                             *)

\* Once the user stops mutating and the network stops failing, the process
\* table shown by the polling loop eventually equals the backend's table
\* for good, although a slow response can overwrite a newer one on the way.
Converges == <>[](processes = srv)

\* Spec 4.4: on cancel the dialog discards its input with no side effect,
\* so no process is ever created for a dialog the user cancelled.
CancelHasNoEffect ==
    \A d \in Dialogs : dialog[d].status = "cancelled" => d \notin created

\* Spec 8 / 4.4: confirming the dialog issues exactly one POST.
AtMostOnePostPerDialog == \A d \in Dialogs : dialog[d].posts <= 1
=============================================================================
