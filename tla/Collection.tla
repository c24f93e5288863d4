------------------------------ MODULE Collection ------------------------------
(***************************************************************************)
(* The two halves of a SyncPS collection as operators: the hash-indexed    *)
(* map of entries (a status for every publication) and the iblt that       *)
(* summarises it.                                                          *)
(*                                                                         *)
(* A publication stands for its own hash. An iblt is the multiset of the   *)
(* hashes inserted in it: iblt[p] is the number of insertions of p that    *)
(* have not been erased. Subtracting two iblts subtracts the counts; what  *)
(* can be peeled out of the difference are the hashes that occur in it     *)
(* exactly once (twice the same hash cancels in the cells' xor sums and    *)
(* never becomes pure).                                                    *)
(***************************************************************************)
EXTENDS Integers

CONSTANT Pub    \* publications (each one standing for its hash)

\* An entry of the map: absent ("none"), active and local, active and from
\* the network, or expired but held; "gone" is absent again after having been
\* erased.
Status == {"none", "local", "net", "held", "gone"}

Present == {"local", "net", "held"}

Active == {"local", "net"}

Iblt == [Pub -> Nat]

\* Collection::add of every p in S with status s
AddEntries(st, S, s) == [p \in Pub |-> IF p \in S THEN s ELSE st[p]]

\* IBLT::insert and IBLT::erase of the hashes in S
Insert(iblt, S) == [p \in Pub |-> IF p \in S THEN iblt[p] + 1 ELSE iblt[p]]

Remove(iblt, S) == [p \in Pub |-> IF p \in S THEN iblt[p] - 1 ELSE iblt[p]]

\* IBLT::operator- followed by IBLT::peel: 'have' and 'need'
Have(mine, theirs) == {p \in Pub : mine[p] - theirs[p] = 1}

Need(mine, theirs) == {p \in Pub : mine[p] - theirs[p] = -1}

\* Mutants: have and need swapped, and pubCbs_ not removed from our iblt
AckedHave(mine, cbs, theirs) == cbs \cap Have(mine, theirs)

AckedNeed(mine, cbs, theirs) == cbs \cap Need(mine, theirs)

\* The hashes awaiting a delivery callback that the peer's iblt shows:
\* (pubs_.iblt() - pubCbs_.iblt() - iblt).peel().second, of which
\* doDeliveryCb only acts on those still in pubCbs_. The iblt of pubCbs_
\* holds each of its entries once.
Acked(mine, cbs, theirs) == {p \in cbs : mine[p] - 1 - theirs[p] = -1}
===============================================================================
