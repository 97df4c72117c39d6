---------------------------- MODULE PolledValue ----------------------------
(***************************************************************************)
(* What a polled field of a view promises (spec 4.1, 4.3): the page shows *)
(* a copy of a value kept by the backend.  The backend's value changes at *)
(* any time.  The page only ever shows its initial value or a value the   *)
(* backend has held, possibly an old one: a stale answer may come late.   *)
(* Whenever the page differs from the backend and the backend stops       *)
(* changing, the page eventually catches up.                              *)
(*                                                                         *)
(* seen is the set of values the backend has held so far, a history       *)
(* variable that an implementation maps to its own record of the past.    *)
(***************************************************************************)
CONSTANTS
    Values,    \* the values the backend may hold
    Initial    \* what the page shows before its first answer

VARIABLES source, shown, seen

vars == <<source, shown, seen>>

Init ==
    /\ source \in Values
    /\ shown = Initial
    /\ seen = {source}

\* The backend's value changes.
Change ==
    /\ \E v \in Values \ {source} : source' = v
    /\ seen' = seen \cup {source'}
    /\ UNCHANGED shown

\* The page shows some value the backend has held, the latest or not.
Show ==
    /\ \E v \in seen : shown' = v
    /\ UNCHANGED <<source, seen>>

\* The page catches up with the backend.
Catch ==
    /\ shown # source
    /\ shown' = source
    /\ UNCHANGED <<source, seen>>

Next == Change \/ Show

Spec == Init /\ [][Next]_vars /\ WF_vars(Catch)
=============================================================================
