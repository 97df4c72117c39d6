--------------------------- MODULE NewProcessArgs ---------------------------
(***************************************************************************)
(* The argument field of the new-process dialog (servicesController.js).  *)
(* getServiceArgs(svcName) scans the resolved services from the end and   *)
(* returns the args of the last service with that name joined by " ", or  *)
(* "" when there is none; the template puts that text into the args input *)
(* when a service is picked.  The user may edit the text; ok() POSTs      *)
(* $("#newProcData_args").val().split(" ").                               *)
(*                                                                         *)
(* Here, and only here, strings are modelled character by character,      *)
(* because the properties are about how they are cut and glued: a string  *)
(* is a sequence over Chars, which contains the separator Space.          *)
(***************************************************************************)
EXTENDS Naturals, Sequences, SequencesExt

CONSTANTS
    Chars,      \* the alphabet of the args input
    Space,      \* the separator " ", a member of Chars
    Names,      \* service names
    SvcLists,   \* the services lists the dialog may be opened with
    Machs,      \* the machine ids the dialog offers
    MaxLen,     \* bound on the length of the args text
    NoData      \* model value: newProcData.serviceName not yet set

ASSUME Space \in Chars

VARIABLES
    svcList,  \* the dialog's $scope.services: a sequence of [svcName, args]
    sel,      \* newProcData.serviceName
    mach,     \* newProcData.machineID
    field,    \* the text of the args input
    posted    \* the args of the POST body, NoData until ok()

vars == <<svcList, sel, mach, field, posted>>

\* Array.prototype.join: the pieces with one separator between neighbours.
RECURSIVE JoinWith(_, _)
JoinWith(pieces, c) ==
    CASE pieces = <<>>     -> <<>>
      [] Len(pieces) = 1   -> pieces[1]
      [] OTHER             -> pieces[1] \o <<c>> \o JoinWith(Tail(pieces), c)

\* String.prototype.split with a one-character separator: every separator
\* ends a piece, empty pieces included, so "" gives one empty piece.
RECURSIVE SplitOn(_, _)
SplitOn(str, c) ==
    IF str = <<>> THEN << <<>> >>
    ELSE LET rest == SplitOn(Tail(str), c)
         IN IF Head(str) = c THEN << <<>> >> \o rest
            ELSE << <<Head(str)>> \o rest[1] >> \o Tail(rest)

\* getServiceArgs: var i = length; while (i--) { if match return join }.
GetServiceArgs(list, name) ==
    LET RECURSIVE Scan(_)
        Scan(i) == IF i = 0 THEN <<>>
                   ELSE IF list[i].svcName = name
                        THEN JoinWith(list[i].args, Space) ELSE Scan(i - 1)
    IN Scan(Len(list))
-----------------------------------------------------------------------------
Init ==
    /\ svcList \in SvcLists
    /\ sel = NoData /\ mach = NoData /\ field = <<>> /\ posted = NoData

\* Picking a service in the select fills the input with its default args.
Pick(n) ==
    /\ posted = NoData
    /\ \E i \in DOMAIN svcList : svcList[i].svcName = n
    /\ sel' = n
    /\ field' = GetServiceArgs(svcList, n)
    /\ UNCHANGED <<svcList, mach, posted>>

\* Picking a machine in the other select.
PickMachine(h) ==
    /\ posted = NoData
    /\ mach' = h
    /\ UNCHANGED <<svcList, sel, field, posted>>

Type(ch) ==
    /\ posted = NoData /\ Len(field) < MaxLen
    /\ field' = Append(field, ch)
    /\ UNCHANGED <<svcList, sel, mach, posted>>

Erase ==
    /\ posted = NoData /\ field # <<>>
    /\ field' = Front(field)
    /\ UNCHANGED <<svcList, sel, mach, posted>>

\* ok(): with serviceName and machineID set, the POST body gets
\* field.split(" "); otherwise it only alerts (a stuttering step).
Submit ==
    /\ posted = NoData /\ sel # NoData /\ mach # NoData
    /\ posted' = SplitOn(field, Space)
    /\ UNCHANGED <<svcList, sel, mach, field>>

Next ==
    \/ \E n \in Names : Pick(n)
    \/ \E h \in Machs : PickMachine(h)
    \/ \E ch \in Chars : Type(ch)
    \/ Erase \/ Submit

Spec == Init /\ [][Next]_vars
-----------------------------------------------------------------------------
(* Reference definitions.                                                  *)

\* The pieces of str between consecutive separators, found by position.
SplitRef(str, c) ==
    LET pos == SetToSortSeq({i \in DOMAIN str : str[i] = c}, <)
        n == Len(pos)
        from(k) == IF k = 1 THEN 1 ELSE pos[k - 1] + 1
        to(k) == IF k = n + 1 THEN Len(str) ELSE pos[k] - 1
    IN [k \in 1..(n + 1) |-> SubSeq(str, from(k), to(k))]

\* Splitting on whitespace as the spec words it: the non-empty runs.
WhitespaceTokens(str) == SelectSeq(SplitRef(str, Space), LAMBDA t : t # <<>>)
-----------------------------------------------------------------------------
(* Properties.                                                             *)

\* Spec 8: the POSTed args are the input "split on whitespace".
PostedArgsAreTokens ==
    posted # NoData => posted = WhitespaceTokens(field)
=============================================================================
