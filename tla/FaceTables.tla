------------------------------ MODULE FaceTables ------------------------------
(***************************************************************************)
(* The Pending Interest Table (PIT) of DirectFace as operators on its      *)
(* value: a set of entries, at most one per name.                          *)
(*                                                                         *)
(* Of an entry the model keeps the name, the identity of the interest that *)
(* created it (i), whether the application expressed it (loc: dCb_ and     *)
(* ito_ are set), whether it came from the network (net) and whether its   *)
(* deletion has been deferred (ded). Every entry has a running timer: each *)
(* add is followed by schedITO, and every erase cancels it.                *)
(***************************************************************************)
EXTENDS Integers, FiniteSets

PitEntry(Name, Id) == [name : Name, i : Id, loc : BOOLEAN, net : BOOLEAN,
                       ded : BOOLEAN]

NewEntry(name, i, loc, net) ==
    [name |-> name, i |-> i, loc |-> loc, net |-> net, ded |-> FALSE]

PitNames(pit) == {e.name : e \in pit}

\* PIT::add of a locally generated interest: an existing entry only gets the
\* local callbacks; its i_, fromNet_ and ded_ stay what they were
PitAddLocal(pit, name, i) ==
    IF name \in PitNames(pit)
    THEN {IF e.name = name THEN [e EXCEPT !.loc = TRUE] ELSE e : e \in pit}
    ELSE pit \cup {NewEntry(name, i, TRUE, FALSE)}

\* PIT::add of an interest from the network
PitAddNet(pit, name, i) ==
    IF name \in PitNames(pit)
    THEN {IF e.name = name THEN [e EXCEPT !.net = TRUE] ELSE e : e \in pit}
    ELSE pit \cup {NewEntry(name, i, FALSE, TRUE)}

\* pitErase of the entries named in S, and the extract of itoCB
PitErase(pit, S) == {e \in pit : e.name \notin S}

\* schedDED: the entry stays a little longer, to collect further answers
PitDefer(pit, name) ==
    {IF e.name = name THEN [e EXCEPT !.ded = TRUE] ELSE e : e \in pit}

\* Mutant: entries that are about to be deleted are answered too
PendingInterestsAll(pit) == {e.name : e \in {f \in pit : f.net}}

PendingInterests(pit) == {e.name : e \in {f \in pit : f.net /\ ~f.ded}}

\* The names the application itself has expressed
Expressed(pit) == {e.name : e \in {f \in pit : f.loc}}
===============================================================================
