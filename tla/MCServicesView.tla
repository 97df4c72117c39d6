--------------------------- MODULE MCServicesView ---------------------------
(* Model-checking instance of ServicesView.                                *)
EXTENDS ServicesView

CONSTANTS p1, p2, h1, h2, s1

MCProcs == {p1, p2}
MCHosts1 == {h1}
MCHosts2 == {h1, h2}
MCSvcs == {s1}

\* p1 runs on h1, p2 is a free slot.
OneRunning == {[p \in MCProcs |->
                  IF p = p1 THEN [state |-> "started", svc |-> s1, host |-> h1]
                  ELSE Absent]}
=============================================================================
