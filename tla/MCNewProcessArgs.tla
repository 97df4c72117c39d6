-------------------------- MODULE MCNewProcessArgs --------------------------
(* Model-checking instance of NewProcessArgs: args are "a" or "", a      *)
(* service has at most two, and the list at most two services.           *)
EXTENDS NewProcessArgs

CONSTANTS n1, n2, m1

MCNames == {n1, n2}
MCMachs == {m1}
MCChars == {"a", " "}
ArgValues == {<<"a">>, <<>>}
ArgLists == UNION {[1..k -> ArgValues] : k \in 0..2}
Service == [svcName: MCNames, args: ArgLists]
MCSvcLists == UNION {[1..k -> Service] : k \in 0..2}

=============================================================================
