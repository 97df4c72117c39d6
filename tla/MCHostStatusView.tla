-------------------------- MODULE MCHostStatusView --------------------------
(* Model-checking instance of HostStatusView for host h1.                 *)
EXTENDS HostStatusView

CONSTANTS p1, p2, p3, h1, h2, s1

MCProcs == {p1, p2, p3}
MCHosts == {h1, h2}
MCSvcs == {s1}

\* p1 runs on the viewed host, p2 on another one, p3 is a free slot.
TwoHosts == {[p \in MCProcs |->
                CASE p = p1 -> [state |-> "started", svc |-> s1, host |-> h1]
                  [] p = p2 -> [state |-> "started", svc |-> s1, host |-> h2]
                  [] OTHER -> Absent]}
=============================================================================
