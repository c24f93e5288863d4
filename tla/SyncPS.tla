-------------------------------- MODULE SyncPS --------------------------------
(***************************************************************************)
(* SyncPS: peers on a broadcast network keep a collection of publications  *)
(* synchronised. Each peer multicasts a cState (an interest named by its   *)
(* iblt); a peer that holds local publications the sender lacks answers    *)
(* with a cAdd (a data of the same name that carries them).                *)
(*                                                                         *)
(* The module composes, for every node, the collection (Collection), the   *)
(* face's interest tables (FaceTables) and the handlers of syncps.hpp and  *)
(* direct.hpp. A handler is an operator from node states to node states,   *)
(* so a C++ function that calls another one is an operator applied to the  *)
(* other's result; an event of a node's single-threaded loop is an action. *)
(*                                                                         *)
(* Abstractions. The name of a cState is the sender's iblt. Timers fire at *)
(* any moment, in the order of their deadlines where two concern the same  *)
(* publication. Publications are natural numbers, larger ones carrying     *)
(* later timestamps; a cAdd has room for CAddCap of them. A subscriber's   *)
(* callback may publish; a delivery callback's reaction is a later step.   *)
(***************************************************************************)
EXTENDS Collection, FaceTables

CONSTANTS Node,
          OwnPubs,      \* OwnPubs[n]: what node n's application may publish
          WithCb,       \* publications published with a delivery callback
          Mortal,       \* publications with a non-zero lifetime
          Doubtful,     \* publications a receiver may find expired or invalid
          CAddCap,      \* how many publications fit in a cAdd (maxPubSize)
          IgnoreMax,    \* bound on outstanding ignorePub timers per hash
          PktValid,     \* the possible results of validating a cAdd packet
          Network       \* what happens to packets in flight, see Surviving

ASSUME PubAssumption == Pub \subseteq Nat
ASSUME OwnAssumption ==
    /\ OwnPubs \in [Node -> SUBSET Pub]
    /\ \A m, n \in Node : m # n => OwnPubs[m] \cap OwnPubs[n] = {}
ASSUME SetsAssumption ==
    /\ WithCb \subseteq Pub
    /\ Mortal \subseteq Pub
    /\ Doubtful \subseteq Pub
ASSUME BoundsAssumption == CAddCap \in Nat \ {0} /\ IgnoreMax \in Nat
ASSUME NetAssumption == /\ PktValid \subseteq BOOLEAN
                        /\ Network \in {"keep", "lossy"}

VARIABLES node,   \* node[n]: the state of n's SyncPS and DirectFace
          net     \* packets in flight, one copy per destination

vars == <<node, net>>

Name == Iblt

Told == {"none", "arrived", "timeout"}

CState(name) == [type |-> "cState", name |-> name]

CAdd(name, pubs) == [type |-> "cAdd", name |-> name, pubs |-> pubs]

Packet == [type : {"cState"}, name : Name]
          \cup [type : {"cAdd"}, name : Name, pubs : SUBSET Pub]

\* In the PIT the interest identity is reduced to the one comparison made on
\* it: "mine" while its nonce is the node's current nonce_, else "other".
Pit == SUBSET PitEntry(Name, {"mine", "other"})

\* up: registering_ is false; st and iblt: pubs_; ign: ignorePub timers per
\* hash; cbs: pubCbs_; soon: scheduledCStateId_ is running; out: packets sent
\* by the handler being executed; seen and told: history (publications taken
\* from a cAdd, and what delivery callbacks were called with).
NodeState == [up : BOOLEAN, st : [Pub -> Status], iblt : Iblt,
              ign : [Pub -> Nat], cbs : SUBSET Pub, pit : Pit,
              soon : BOOLEAN, out : SUBSET Packet,
              seen : SUBSET Pub, told : [Pub -> Told]]

InitNode ==
    [up |-> FALSE, st |-> [p \in Pub |-> "none"], iblt |-> [p \in Pub |-> 0],
     ign |-> [p \in Pub |-> 0], cbs |-> {}, pit |-> {},
     soon |-> FALSE, out |-> {}, seen |-> {}, told |-> [p \in Pub |-> "none"]]

Init == /\ node = [n \in Node |-> InitNode]
        /\ net = {}
-------------------------------------------------------------------------------
(* The functions of SyncPS, as operators on a node's state. *)

\* addToActive for the publications in S (its timers are the actions
\* DeliveryTimeout, Deactivate and Erase)
AddToActive(s, S, status) ==
    [s EXCEPT !.st = AddEntries(@, S, status), !.iblt = Insert(@, S)]

\* sendCState draws a new nonce, which no entry already in the PIT has
NewNonce(pit) == {[e EXCEPT !.i = "other"] : e \in pit}

\* sendCState, with the face's express
SendCState(s) ==
    IF ~s.up THEN s
    ELSE [s EXCEPT !.soon = FALSE,
                   !.pit = PitAddLocal(NewNonce(@), s.iblt, "mine"),
                   !.out = @ \cup {CState(s.iblt)}]

\* The default orderPub_, most recent first, cut to what fits in a cAdd
Newest(S) == {p \in S : Cardinality({q \in S : q > p}) < CAddCap}

\* Mutant: everything local is sent, whether or not the peer lacks it
OursForAny(s, m) == {p \in Pub : s.st[p] = "local"}

\* What s has that a peer whose iblt is m lacks: pv, and pv with pvOth
OursFor(s, m) == {p \in Have(s.iblt, m) : s.st[p] = "local"}

HeldFor(s, m) == {p \in Have(s.iblt, m) : s.st[p] \in Present}

\* Mutant: the entry stays in pubCbs_ after its callback was called
DoDeliveryCbKeeps(s, S, outcome) ==
    [s EXCEPT !.told = [p \in Pub |-> IF p \in S \cap s.cbs /\ s.st[p] = "local"
                                      THEN outcome ELSE s.told[p]]]

\* doDeliveryCb for the hashes in S
DoDeliveryCb(s, S, outcome) ==
    [s EXCEPT !.told = [p \in Pub |-> IF p \in S \cap s.cbs /\ s.st[p] = "local"
                                      THEN outcome ELSE s.told[p]],
              !.cbs = @ \ S]

\* handleCState for every name in names, with the face's send of the cAdds.
\* As orderPub_ says there are new publications, a cAdd is never delayed.
HandleCStates(s, names) ==
    LET acked  == UNION {Acked(s.iblt, s.cbs, m) : m \in names}
        answer == {m \in names : OursFor(s, m) # {}}
        both   == {m \in names : HeldFor(s, m) # {} /\ Need(s.iblt, m) # {}}
    IN  [DoDeliveryCb(s, acked, "arrived") EXCEPT
            !.soon = @ \/ both # {},
            !.pit = PitErase(@, answer),
            !.out = @ \cup {CAdd(m, Newest(OursFor(s, m))) : m \in answer}]

HandlePending(s) == HandleCStates(s, PendingInterests(s.pit))

\* publish, outside the delivery of a cAdd: the callback is registered last
PublishPub(s, p) ==
    LET h == HandlePending(SendCState(AddToActive(s, {p}, "local")))
    IN  [h EXCEPT !.cbs = @ \cup ({p} \cap WithCb)]

\* ignorePub of every p in S: in the iblt, not in the map
IgnorePubs(s, S) ==
    [s EXCEPT !.iblt = Insert(@, S),
              !.ign = [p \in Pub |-> IF p \in S THEN @[p] + 1 ELSE @[p]]]

\* onCAdd: of the publications in the cAdd that are not in the map, accept is
\* added and delivered, ignore is not wanted; replies is what the subscribers
\* publish while delivering_ is set.
OnCAdd(s, accept, ignore, replies) ==
    LET a == AddToActive(IgnorePubs(AddToActive(s, accept, "net"), ignore),
                         replies, "local")
        b == [a EXCEPT !.cbs = @ \cup (replies \cap WithCb),
                       !.seen = @ \cup accept \cup ignore]
        c == IF replies # {} THEN HandlePending(b) ELSE b
    IN  [c EXCEPT !.soon = TRUE]
-------------------------------------------------------------------------------
(* The events of a node. *)

\* What stays in flight once the packets in used have been received and those
\* in sent are sent. "keep": everything, so any packet may come late, again or
\* never. "lossy": of what was neither received nor lost before (Lose), what no
\* later packet of its type to the same node overtakes.
Surviving(used, sent) ==
    IF Network = "keep" THEN net
    ELSE {k \in net \ used : \A j \in sent :
            k.dst # j.dst \/ k.pkt.type # j.pkt.type}

\* The event handler of n leaves n in state s and consumes the packets in used
Step(n, s, used) ==
    LET sent == [dst : Node \ {n}, pkt : s.out]
    IN  /\ node' = [node EXCEPT ![n] = [s EXCEPT !.out = {}]]
        /\ net' = Surviving(used, sent) \cup sent

\* Applications stamp publications with the time, so later ones are larger
Fresh(n, S) ==
    /\ S \subseteq OwnPubs[n]
    /\ \A p \in S : /\ node[n].st[p] = "none"
                    /\ \A q \in OwnPubs[n] : node[n].st[q] # "none" => q < p

\* start, and the registration callback once the face is connected
Start(n) ==
    /\ ~node[n].up
    /\ Step(n, SendCState([node[n] EXCEPT !.up = TRUE]), {})

Publish(n, p) ==
    /\ Fresh(n, {p})
    /\ Step(n, PublishPub(node[n], p), {})

\* handleInterest: without a RIT entry the interest is dropped; with one it
\* goes in the PIT and is given to handleCState
RecvCState(n, k) ==
    /\ k.dst = n /\ k.pkt.type = "cState"
    /\ LET s == [node[n] EXCEPT !.pit = PitAddNet(@, k.pkt.name, "other")]
       IN  Step(n, IF node[n].up THEN HandleCStates(s, {k.pkt.name})
                                 ELSE node[n], {k})

\* handleData of a cAdd that is not pending, or pending only for a peer
RecvUnwanted(n, k) ==
    /\ k.dst = n /\ k.pkt.type = "cAdd"
    /\ k.pkt.name \notin Expressed(node[n].pit)
    /\ Step(n, [node[n] EXCEPT !.pit = PitErase(@, {k.pkt.name})], {k})

Wanted(n, k) ==
    /\ k.dst = n /\ k.pkt.type = "cAdd"
    /\ k.pkt.name \in Expressed(node[n].pit)

\* handleData of a cAdd that answers n's own cState but does not validate
RecvInvalid(n, k) ==
    /\ Wanted(n, k)
    /\ FALSE \in PktValid
    /\ LET s == [node[n] EXCEPT !.pit = PitDefer(@, k.pkt.name)]
           mine == \E e \in s.pit : e.name = k.pkt.name /\ e.i = "mine"
       IN  Step(n, [s EXCEPT !.soon = @ \/ mine], {k})

\* handleData of a cAdd that answers n's own cState: onCAdd. A publication
\* that n has held for all of its lifetime is expired when it comes again.
RecvCAdd(n, k) ==
    /\ Wanted(n, k)
    /\ TRUE \in PktValid
    /\ LET s    == [node[n] EXCEPT !.pit = PitDefer(@, k.pkt.name)]
           new  == {p \in k.pkt.pubs : s.st[p] \notin Present}
           gone == {p \in new : s.st[p] = "gone"}
       IN  \E bad \in SUBSET (new \cap Doubtful) :
           \E replies \in SUBSET OwnPubs[n] :
              LET ignore == bad \cup gone
                  accept == new \ ignore
              IN  /\ \A p \in ignore : s.ign[p] < IgnoreMax
                  /\ Fresh(n, replies) /\ (accept = {} => replies = {})
                  /\ Step(n, OnCAdd(s, accept, ignore, replies), {k})

\* Mutant: the callback comes first, then the entry is removed
PitTimeoutCbFirst(n, m) ==
    /\ m \in PitNames(node[n].pit)
    /\ LET s == IF m \in Expressed(node[n].pit) THEN SendCState(node[n])
                ELSE node[n]
       IN  Step(n, [s EXCEPT !.pit = PitErase(@, {m})], {})

\* itoCB: the entry is removed, then its timeout callback sends a cState
PitTimeout(n, m) ==
    /\ m \in PitNames(node[n].pit)
    /\ LET s == [node[n] EXCEPT !.pit = PitErase(@, {m})]
       IN  Step(n, IF m \in Expressed(node[n].pit) THEN SendCState(s) ELSE s, {})

\* The timer of sendCStateSoon
CStateTimer(n) ==
    /\ node[n].soon
    /\ Step(n, SendCState([node[n] EXCEPT !.soon = FALSE]), {})

\* The timers of addToActive, at the lifetime, maxClockSkew after it, and
\* pubExpirationGB after it
DeliveryTimeout(n, p) ==
    /\ p \in Mortal /\ node[n].st[p] = "local" /\ p \in node[n].cbs
    /\ Step(n, DoDeliveryCb(node[n], {p}, "timeout"), {})

\* Mutant: deactivates a second time, as without the active() check
DeactivateAgain(n, p) ==
    /\ p \in Mortal /\ node[n].st[p] \in Present /\ p \notin node[n].cbs
    /\ Step(n, [node[n] EXCEPT !.st[p] = "held", !.iblt = Remove(@, {p})], {})

\* Mutant: the hash stays in the iblt
DeactivateMapOnly(n, p) ==
    /\ p \in Mortal /\ node[n].st[p] \in Active /\ p \notin node[n].cbs
    /\ Step(n, [node[n] EXCEPT !.st[p] = "held"], {})

Deactivate(n, p) ==
    /\ p \in Mortal /\ node[n].st[p] \in Active /\ p \notin node[n].cbs
    /\ Step(n, [node[n] EXCEPT !.st[p] = "held", !.iblt = Remove(@, {p})], {})

Erase(n, p) ==
    /\ node[n].st[p] = "held"
    /\ Step(n, [node[n] EXCEPT !.st[p] = "gone"], {})

\* The timer of ignorePub
Unignore(n, p) ==
    /\ node[n].ign[p] > 0
    /\ Step(n, [node[n] EXCEPT !.ign[p] = @ - 1, !.iblt = Remove(@, {p})], {})

\* The network loses a packet
Lose(k) == Network = "lossy" /\ net' = net \ {k} /\ UNCHANGED node

Receive(n, k) == \/ RecvCState(n, k)
                 \/ RecvUnwanted(n, k)
                 \/ RecvInvalid(n, k)
                 \/ RecvCAdd(n, k)

Next ==
    \/ \E n \in Node : \/ Start(n)
                       \/ CStateTimer(n)
                       \/ \E m \in PitNames(node[n].pit) : PitTimeout(n, m)
                       \/ \E k \in net : Receive(n, k)
    \/ \E n \in Node, p \in Pub : \/ Publish(n, p)
                                  \/ DeliveryTimeout(n, p)
                                  \/ Deactivate(n, p)
                                  \/ Erase(n, p)
                                  \/ Unignore(n, p)
    \/ \E k \in net : Lose(k)

Spec == Init /\ [][Next]_vars
-------------------------------------------------------------------------------
\* Types of the state of the SyncPubsub objects and of the packets in flight.
TypeOK == /\ node \in [Node -> NodeState]
          /\ net \subseteq [dst : Node, pkt : Packet]

\* Once a node has started it never falls silent: a cState is scheduled, or
\* one it expressed is still in its PIT, whose timeout will send the next
\* (syncps.hpp sendCState, although direct.hpp send erases entries that the
\* node itself expressed when a peer's cState had the same name).
RefreshAlive ==
    \A n \in Node :
        node[n].up => node[n].soon \/ Expressed(node[n].pit) # {}

\* A delivery callback is called with 'true' only if some other node did take
\* the publication out of a cAdd: a node never mistakes its own cState, or one
\* sent before the publication existed, for a confirmation (handleCState).
ConfirmTruthful ==
    \A n \in Node, p \in Pub : node[n].told[p] = "arrived" =>
        \E m \in Node \ {n} : p \in node[m].seen

\* The iblt is the map plus the running ignorePub timers, so that every erase,
\* from deactivate, erase or an ignorePub timer, finds the hash it removes, and
\* an entry awaiting its delivery callback is local and active, so that the
\* callback is called when the entry leaves pubCbs_.
CollectionConsistent ==
    \A n \in Node, p \in Pub :
        /\ node[n].iblt[p] = (IF node[n].st[p] \in Active THEN 1 ELSE 0)
                             + node[n].ign[p]
        /\ p \in node[n].cbs => node[n].st[p] = "local"

\* While onCAdd runs as the callback of a PIT entry, publishing and answering
\* cStates from within it may erase entries (send), but never that one: its
\* callback is not destroyed while it is executed (!ded_ in pendingInterests).
CallbackSafe ==
    [][\A n \in Node : \A k \in net :
          RecvCAdd(n, k) => k.pkt.name \in Expressed(node'[n].pit)]_vars

\* What n has published or has taken out of a cAdd
Has(n) == node[n].seen \cup {p \in OwnPubs[n] : node[n].st[p] # "none"}

has == [n \in Node |-> Has(n)]

told == [n \in Node |-> node[n].told]

Abstract == INSTANCE PubSub WITH Node <- Node, Pub <- Pub, OwnPubs <- OwnPubs,
                                 has <- has, told <- told

\* The protocol implements the service (PubSub): nothing arrives that nobody
\* else has, each delivery callback is called at most once, and is told that
\* the publication arrived only when another node has it.
ImplementsPubSub == Abstract!Spec
-------------------------------------------------------------------------------
(* Fairness: timers fire, and a packet that is sent again and again gets   *)
(* through, for the two packets every refresh sends again: the cState that  *)
(* describes the sender's collection now, and the cAdds that answer it.     *)

RecvCurrentCState(m, n) ==
    \E k \in net : /\ k.pkt.type = "cState" /\ k.pkt.name = node[m].iblt
                   /\ Receive(n, k)

RecvCurrentCAdd(n) ==
    \E k \in net : /\ k.pkt.type = "cAdd" /\ k.pkt.name = node[n].iblt
                   /\ Receive(n, k)

Fairness ==
    \A n \in Node :
        /\ WF_vars(Start(n))
        /\ WF_vars(CStateTimer(n))
        /\ WF_vars(\E m \in Expressed(node[n].pit) : PitTimeout(n, m))
        /\ \A m \in Node \ {n} : SF_vars(RecvCurrentCState(m, n))
        /\ SF_vars(RecvCurrentCAdd(n))

FairSpec == Spec /\ Fairness

\* Every publication without a lifetime reaches every node, whatever the order
\* of starts, timeouts and lost packets.
Converges ==
    \A n \in Node, p \in Pub : node[n].st[p] = "local" ~>
        \A m \in Node : node[m].st[p] \in Active

\* A delivery callback of such a publication is eventually called.
Confirms ==
    \A n \in Node, p \in Pub :
        p \in node[n].cbs ~> node[n].told[p] = "arrived"
===============================================================================
