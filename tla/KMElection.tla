------------------------------ MODULE KMElection ------------------------------
(***************************************************************************)
(* The election of a key maker (km_election.hpp), as operators on the part *)
(* of a candidate's state that it keeps: its priority_, negated once the   *)
(* candidate knows that it has lost, and its epoch_. The distributors of   *)
(* group keys (DistGKey) run one.                                          *)
(*                                                                         *)
(* A node stands for the thumbprint of its signing cert: nodes are numbers *)
(* and compared as thumbprints are.                                        *)
(***************************************************************************)
EXTENDS Integers

CONSTANTS Node, Pri    \* Pri[n]: the value of n's key maker capability

ASSUME NodeAssumption == Node \subseteq Nat \ {0} /\ Pri \in [Node -> 0..9]

\* The candidate has lost
Lost(el) == [el EXCEPT !.priority = IF @ > 0 THEN -@ ELSE @]

\* wrongEpoch, for an epoch that is not ours
WrongEpoch(el, epoch) == IF epoch > el.epoch THEN [Lost(el) EXCEPT !.epoch = epoch] ELSE el

\* Mutant: of two candidates with the same priority both go on
HandleKMcandTie(n, el, p) ==
    IF el.priority <= 0 \/ Pri[p.from] = 0 THEN el
    ELSE IF p.epoch # el.epoch THEN WrongEpoch(el, p.epoch)
    ELSE IF Pri[p.from] > el.priority THEN Lost(el)
    ELSE el

\* handleKMcand of node n
HandleKMcand(n, el, p) ==
    IF el.priority <= 0 \/ Pri[p.from] = 0 THEN el
    ELSE IF p.epoch # el.epoch THEN WrongEpoch(el, p.epoch)
    ELSE IF Pri[p.from] > el.priority \/ (Pri[p.from] = el.priority /\ p.from > n) THEN Lost(el)
    ELSE el

\* handleKMelec
HandleKMelec(el, p) ==
    IF el.epoch >= p.epoch \/ Pri[p.from] = 0 THEN el
    ELSE [Lost(el) EXCEPT !.epoch = p.epoch]

\* The constructor's subscriptions get what is in the collection already. The
\* outcome does not depend on the order within elecs or within cands.
ElectionStart(n, elecs, cands) ==
    LET el0 == [priority |-> Pri[n], epoch |-> 0]
        won == {p \in elecs : HandleKMelec(el0, p) # el0}
        el1 == IF won = {} THEN el0 ELSE HandleKMelec(el0, CHOOSE p \in won : TRUE)
        better == {p \in cands : HandleKMcand(n, el1, p) # el1}
    IN  IF better = {} THEN el1 ELSE HandleKMcand(n, el1, CHOOSE p \in better : TRUE)

Won(el) == el.priority > 0

\* electionDone
ElectionDone(el) == [el EXCEPT !.epoch = IF Won(el) THEN @ + 1 ELSE @]
===============================================================================
