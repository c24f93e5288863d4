---------------------------- MODULE SyncPS_proofs ----------------------------
(***************************************************************************)
(* Proofs about SyncPS, for every set of nodes and publications.           *)
(*                                                                         *)
(* The argument. Every function of a node preserves Local and makes only   *)
(* the changes Moves allows (lemmas ...Local), and leaves a cState pending  *)
(* (lemmas ...Alive). So each action is a LocalStep (lemmas ...Step). A     *)
(* LocalStep preserves the inductive invariant IInv (StepInv) and is a step *)
(* of the abstract service (LocalStepRefines).                              *)
(***************************************************************************)
EXTENDS SyncPS, TLAPS

\* Zenon proves the leaves that do not name another prover.
USE Zenon

\* The map and the iblt agree, see CollectionConsistent.
Consistent(s) ==
    \A p \in Pub : /\ s.iblt[p] = (IF s.st[p] \in Active THEN 1 ELSE 0) + s.ign[p]
                   /\ p \in s.cbs => s.st[p] = "local"

\* Where n has things from: local publications are its own, what it got or
\* ignores was in a cAdd, and what still may be told has not been told.
Origin(n, s) ==
    \A p \in Pub : /\ s.st[p] = "local" => p \in OwnPubs[n]
                   /\ s.st[p] = "net" \/ s.ign[p] > 0 => p \in s.seen
                   /\ p \in s.cbs \/ s.st[p] = "none" => s.told[p] = "none"

\* Has, of a state of n.
HasOf(n, s) == s.seen \cup {p \in OwnPubs[n] : s.st[p] # "none"}

\* The packets that n sends show, or carry, only what n has.
Outgoing(n, s) ==
    \A k \in s.out :
        /\ k.type = "cState" => \A p \in Pub : k.name[p] >= 1 => p \in HasOf(n, s)
        /\ k.type = "cAdd" => k.pubs \subseteq OwnPubs[n] \cap HasOf(n, s)

\* The part of the inductive invariant that concerns one node's collection; it
\* holds between the calls of a handler too.
Local(n, s) ==
    s \in NodeState /\ Consistent(s) /\ Origin(n, s) /\ Outgoing(n, s)

\* The PIT entries from the network are named in names.
NetIn(s, names) == \A e \in s.pit : e.net => e.name \in names

\* What n's functions may do to n's state s, leaving it in t: take over some of
\* taken, confirm what a name in names shows, time out what is in late.
Moves(n, s, t, names, taken, late) ==
    /\ s.seen \subseteq t.seen /\ t.seen \subseteq s.seen \cup taken
    /\ \A p \in Pub :
          /\ s.st[p] # "none" => t.st[p] # "none"
          /\ \/ t.told[p] = s.told[p]
             \/ /\ p \in OwnPubs[n] /\ s.told[p] = "none"
                /\ \/ t.told[p] = "arrived" /\ \E m \in names : m[p] >= 1
                   \/ t.told[p] = "timeout" /\ s.st[p] = "local" /\ p \in late
    /\ NetIn(t, names)

\* r and s differ at most in their PIT, up and soon.
Agree(r, s) ==
    /\ s.st = r.st /\ s.iblt = r.iblt /\ s.ign = r.ign /\ s.seen = r.seen
    /\ s.told = r.told /\ s.cbs = r.cbs /\ s.out = r.out

\* A peer that shows m has all local publications of s.
Covers(s, m) == \A p \in Pub : s.st[p] = "local" => m[p] >= s.iblt[p]

\* RefreshAlive, strengthened: the cState in the PIT covers the local
\* publications, so that handleCState never answers, and never erases, it.
Alive(s) == s.up => s.soon \/ \E m \in Expressed(s.pit) : Covers(s, m)

\* What orderPub_ and the size limit of a cAdd leave is part of what they got.
LEMMA NewestSubset == \A S : Newest(S) \subseteq S
BY DEF Newest

\* Adding to the map and inserting in the iblt keep their types (Collection::add).
LEMMA CollectionTypes ==
    ASSUME NEW S \in SUBSET Pub
    PROVE  /\ \A st \in [Pub -> Status], v \in Status :
                 AddEntries(st, S, v) \in [Pub -> Status]
           /\ \A m \in Iblt : Insert(m, S) \in Iblt
BY SMT DEF AddEntries, Insert, Iblt

\* Every PIT operation (PIT::add, schedDED, pitErase) keeps the PIT's type.
LEMMA PitTypes ==
    ASSUME NEW q \in Pit, NEW m \in Name
    PROVE  /\ NewNonce(q) \in Pit
           /\ PitAddLocal(q, m, "mine") \in Pit
           /\ PitAddNet(q, m, "other") \in Pit
           /\ PitDefer(q, m) \in Pit
           /\ \A S : PitErase(q, S) \in Pit
           /\ PitNames(q) \subseteq Name
           /\ Expressed(q) \subseteq PitNames(q)
           /\ PendingInterests(q) \subseteq Name
<1>1. \A e \in q : e \in PitEntry(Name, {"mine", "other"})
  BY DEF Pit
<1>2. \A e \in q : /\ [e EXCEPT !.i = "other"] \in PitEntry(Name, {"mine", "other"})
                   /\ [e EXCEPT !.loc = TRUE] \in PitEntry(Name, {"mine", "other"})
                   /\ [e EXCEPT !.net = TRUE] \in PitEntry(Name, {"mine", "other"})
                   /\ [e EXCEPT !.ded = TRUE] \in PitEntry(Name, {"mine", "other"})
                   /\ e.name \in Name
  BY <1>1 DEF PitEntry
<1>3. /\ NewEntry(m, "mine", TRUE, FALSE) \in PitEntry(Name, {"mine", "other"})
      /\ NewEntry(m, "other", FALSE, TRUE) \in PitEntry(Name, {"mine", "other"})
  BY DEF NewEntry, PitEntry
<1>4. NewNonce(q) \in Pit
  BY <1>2 DEF NewNonce, Pit
<1>5. PitAddLocal(q, m, "mine") \in Pit
  BY <1>1, <1>2, <1>3 DEF PitAddLocal, Pit
<1>6. PitAddNet(q, m, "other") \in Pit
  BY <1>1, <1>2, <1>3 DEF PitAddNet, Pit
<1>7. PitDefer(q, m) \in Pit
  BY <1>1, <1>2 DEF PitDefer, Pit
<1>8. \A S : PitErase(q, S) \in Pit
  BY DEF PitErase, Pit
<1>9. /\ PitNames(q) \subseteq Name
      /\ Expressed(q) \subseteq PitNames(q)
      /\ PendingInterests(q) \subseteq Name
  BY <1>2 DEF PitNames, Expressed, PendingInterests
<1> QED
  BY <1>4, <1>5, <1>6, <1>7, <1>8, <1>9

\* addToActive keeps the node's state well typed.
LEMMA AddToActiveType ==
    ASSUME NEW s \in NodeState, NEW S \in SUBSET Pub, NEW v \in Status
    PROVE  AddToActive(s, S, v) \in NodeState
BY CollectionTypes DEF AddToActive, NodeState

\* What addToActive changes: the map and the iblt at S, nothing else.
LEMMA AddToActiveFields ==
    ASSUME NEW s \in NodeState, NEW S \in SUBSET Pub, NEW v \in Status,
           NEW t, t = AddToActive(s, S, v)
    PROVE  /\ t \in NodeState
           /\ \A p \in Pub : /\ t.st[p] = IF p \in S THEN v ELSE s.st[p]
                             /\ t.iblt[p] = IF p \in S THEN s.iblt[p] + 1
                                            ELSE s.iblt[p]
           /\ t.ign = s.ign /\ t.cbs = s.cbs /\ t.seen = s.seen
           /\ t.told = s.told /\ t.pit = s.pit /\ t.out = s.out
           /\ t.soon = s.soon /\ t.up = s.up
<1>1. t \in NodeState
  BY AddToActiveType
<1>2. /\ t.st = AddEntries(s.st, S, v) /\ t.iblt = Insert(s.iblt, S)
      /\ t.ign = s.ign /\ t.cbs = s.cbs /\ t.seen = s.seen
      /\ t.told = s.told /\ t.pit = s.pit /\ t.out = s.out
      /\ t.soon = s.soon /\ t.up = s.up
  BY DEF AddToActive, NodeState
<1> QED BY <1>1, <1>2 DEF AddEntries, Insert

\* sendCState keeps the node's state well typed.
LEMMA SendCStateType ==
    ASSUME NEW s \in NodeState
    PROVE  SendCState(s) \in NodeState
<1>1. CState(s.iblt) \in Packet
  BY DEF CState, Packet, NodeState, Name
<1>2. PitAddLocal(NewNonce(s.pit), s.iblt, "mine") \in Pit
  BY PitTypes DEF NodeState, Name
<1> QED
  BY <1>1, <1>2 DEF SendCState, NodeState

\* doDeliveryCb keeps the node's state well typed.
LEMMA DoDeliveryCbType ==
    ASSUME NEW s \in NodeState, NEW S, NEW v \in Told
    PROVE  DoDeliveryCb(s, S, v) \in NodeState
BY DEF DoDeliveryCb, NodeState

\* handleCState keeps the node's state well typed.
LEMMA HandleCStatesType ==
    ASSUME NEW s \in NodeState, NEW names \in SUBSET Name
    PROVE  HandleCStates(s, names) \in NodeState
<1> DEFINE acked  == UNION {Acked(s.iblt, s.cbs, m) : m \in names}
           answer == {m \in names : OursFor(s, m) # {}}
           both   == {m \in names : HeldFor(s, m) # {} /\ Need(s.iblt, m) # {}}
           d      == DoDeliveryCb(s, acked, "arrived")
           sent   == {CAdd(m, Newest(OursFor(s, m))) : m \in answer}
<1>1. d \in NodeState
  BY DoDeliveryCbType DEF Told
<1>2. PitErase(d.pit, answer) \in Pit
  BY <1>1 DEF PitErase, Pit, NodeState
<1>3. sent \subseteq Packet
  <2>1. \A m \in Name : OursFor(s, m) \subseteq Pub
    BY DEF OursFor, Have
  <2>2. \A m \in Name : Newest(OursFor(s, m)) \in SUBSET Pub
    BY <2>1, NewestSubset
  <2> QED BY SMT, <2>2 DEF CAdd, Packet
<1>4. HandleCStates(s, names) =
         [d EXCEPT !.soon = @ \/ both # {}, !.pit = PitErase(@, answer),
                   !.out = @ \cup sent]
  BY DEF HandleCStates
<1>5. PICK v \in BOOLEAN : v = (d.soon \/ both # {})
  OBVIOUS
<1> HIDE DEF acked, answer, both, d, sent
<1>6. HandleCStates(s, names) =
         [d EXCEPT !.soon = v, !.pit = PitErase(d.pit, answer),
                   !.out = d.out \cup sent]
  BY <1>4, <1>5
<1>7. d.out \cup sent \in SUBSET Packet
  BY <1>1, <1>3 DEF NodeState
<1> QED
  BY <1>1, <1>2, <1>6, <1>7 DEF NodeState

\* What ignorePub changes: the iblt and the running timers at S, nothing else.
LEMMA IgnorePubsFields ==
    ASSUME NEW s \in NodeState, NEW S \in SUBSET Pub,
           NEW t, t = IgnorePubs(s, S)
    PROVE  /\ t \in NodeState
           /\ \A p \in Pub : /\ t.iblt[p] = IF p \in S THEN s.iblt[p] + 1
                                            ELSE s.iblt[p]
                             /\ t.ign[p] = IF p \in S THEN s.ign[p] + 1
                                           ELSE s.ign[p]
           /\ t.st = s.st /\ t.cbs = s.cbs /\ t.seen = s.seen
           /\ t.told = s.told /\ t.pit = s.pit /\ t.out = s.out
<1> DEFINE f == [p \in Pub |-> IF p \in S THEN s.ign[p] + 1 ELSE s.ign[p]]
<1>1. Insert(s.iblt, S) \in Iblt
  BY CollectionTypes DEF NodeState
<1>2. f \in [Pub -> Nat]
  BY SMT DEF NodeState
<1>3. t = [s EXCEPT !.iblt = Insert(s.iblt, S), !.ign = f]
  BY DEF IgnorePubs
<1>4. \A p \in Pub : f[p] = IF p \in S THEN s.ign[p] + 1 ELSE s.ign[p]
  OBVIOUS
<1> HIDE DEF f
<1>5. /\ t \in NodeState
      /\ t.iblt = Insert(s.iblt, S) /\ t.ign = f
      /\ t.st = s.st /\ t.cbs = s.cbs /\ t.seen = s.seen
      /\ t.told = s.told /\ t.pit = s.pit /\ t.out = s.out
  BY <1>1, <1>2, <1>3 DEF NodeState
<1> QED BY <1>4, <1>5 DEF Insert

\* sendCState preserves the local invariant: the name it sends lists only hashes
\* of publications the node has, and no entry becomes one from the network.
LEMMA SendCStateLocal ==
    ASSUME NEW n \in Node, NEW s, Local(n, s), NEW names, NetIn(s, names)
    PROVE  /\ Local(n, SendCState(s))
           /\ Moves(n, s, SendCState(s), names, {}, {})
           /\ SendCState(s).st = s.st
           /\ SendCState(s).iblt = s.iblt
           /\ SendCState(s).cbs = s.cbs
           /\ SendCState(s).told = s.told
<1> DEFINE t == SendCState(s)
<1> s \in NodeState BY DEF Local
<1>1. t \in NodeState
  BY SendCStateType
<1>2. CASE ~s.up
  BY <1>2 DEF SendCState, Moves
<1>3. CASE s.up
  <2>1. /\ t.st = s.st /\ t.iblt = s.iblt /\ t.ign = s.ign /\ t.cbs = s.cbs
        /\ t.seen = s.seen /\ t.told = s.told
        /\ t.pit = PitAddLocal(NewNonce(s.pit), s.iblt, "mine")
        /\ t.out = s.out \cup {CState(s.iblt)}
    BY <1>3 DEF SendCState, NodeState
  <2>2. Consistent(t) /\ Origin(n, t)
    BY SMT, <2>1 DEF Local, Consistent, Origin
  <2>3. \A p \in Pub : s.iblt[p] >= 1 => p \in HasOf(n, s)
    BY SMT DEF Local, Consistent, Origin, HasOf, NodeState, Active, Iblt
  <2>4. HasOf(n, t) = HasOf(n, s)
    BY <2>1 DEF HasOf
  <2>5. Outgoing(n, t)
    BY SMT, <2>1, <2>3, <2>4 DEF Local, Outgoing, CState
  <2>6. \A e \in NewNonce(s.pit) : e.net => e.name \in names
    <3>1. \A e \in s.pit : e \in PitEntry(Name, {"mine", "other"})
      BY DEF NodeState, Pit
    <3>2. \A e \in s.pit : /\ [e EXCEPT !.i = "other"].net = e.net
                           /\ [e EXCEPT !.i = "other"].name = e.name
      BY <3>1 DEF PitEntry
    <3> QED BY <3>2 DEF NewNonce, NetIn
  <2>7. NetIn(t, names)
    <3>1. \A e \in NewNonce(s.pit) : e \in PitEntry(Name, {"mine", "other"})
      BY PitTypes DEF NodeState, Pit, Name
    <3>2. \A e \in NewNonce(s.pit) : /\ [e EXCEPT !.loc = TRUE].net = e.net
                                     /\ [e EXCEPT !.loc = TRUE].name = e.name
      BY <3>1 DEF PitEntry
    <3>3. \A m : ~NewEntry(m, "mine", TRUE, FALSE).net
      BY DEF NewEntry
    <3>4. \A e \in {IF e.name = s.iblt THEN [e EXCEPT !.loc = TRUE] ELSE e :
                      e \in NewNonce(s.pit)} : e.net => e.name \in names
      BY <2>6, <3>2
    <3>5. \A e \in NewNonce(s.pit) \cup {NewEntry(s.iblt, "mine", TRUE, FALSE)} :
             e.net => e.name \in names
      BY <2>6, <3>3
    <3> QED BY <2>1, <3>4, <3>5 DEF NetIn, PitAddLocal
  <2> QED BY <1>1, <2>1, <2>2, <2>5, <2>7 DEF Local, Moves
<1> QED BY <1>2, <1>3

\* handleCState preserves the local invariant: it sends only local publications,
\* and confirms one only if a handled name shows its hash.
LEMMA HandleCStatesLocal ==
    ASSUME NEW n \in Node, NEW s, Local(n, s), NEW names, NetIn(s, names),
           NEW ms \in SUBSET (Name \cap names)
    PROVE  /\ Local(n, HandleCStates(s, ms))
           /\ Moves(n, s, HandleCStates(s, ms), names, {}, {})
           /\ HandleCStates(s, ms).st = s.st
           /\ HandleCStates(s, ms).iblt = s.iblt
           /\ \A p \in Pub \ s.cbs : HandleCStates(s, ms).told[p] = s.told[p]
<1> DEFINE acked  == UNION {Acked(s.iblt, s.cbs, m) : m \in ms}
           answer == {m \in ms : OursFor(s, m) # {}}
           t      == HandleCStates(s, ms)
<1> s \in NodeState BY DEF Local
<1>1. t \in NodeState
  BY HandleCStatesType
<1>2. /\ t.st = s.st /\ t.iblt = s.iblt /\ t.ign = s.ign /\ t.seen = s.seen
      /\ t.cbs = s.cbs \ acked
      /\ t.pit = PitErase(s.pit, answer)
      /\ t.out = s.out \cup {CAdd(m, Newest(OursFor(s, m))) : m \in answer}
      /\ t.told = [p \in Pub |-> IF p \in acked \cap s.cbs /\ s.st[p] = "local"
                                 THEN "arrived" ELSE s.told[p]]
  BY DEF HandleCStates, DoDeliveryCb, NodeState
<1>3. Consistent(t) /\ Origin(n, t)
  BY SMT, <1>2 DEF Local, Consistent, Origin, NodeState
<1>4. HasOf(n, t) = HasOf(n, s)
  BY <1>2 DEF HasOf
<1>5. Outgoing(n, t)
  <2>1. \A m : Newest(OursFor(s, m)) \subseteq OwnPubs[n] \cap HasOf(n, s)
    <3>1. \A m : OursFor(s, m) \subseteq OwnPubs[n] \cap HasOf(n, s)
      BY DEF OursFor, Have, Local, Origin, HasOf
    <3> QED BY <3>1, NewestSubset
  <2> QED BY SMT, <1>2, <1>4, <2>1 DEF Local, Outgoing, CAdd
<1>6. NetIn(t, names)
  BY <1>2 DEF NetIn, PitErase
<1>7. ASSUME NEW p \in Pub, p \in acked, p \in s.cbs
      PROVE  \E m \in names : m[p] >= 1
  <2>1. PICK m \in ms : p \in Acked(s.iblt, s.cbs, m)
    BY <1>7
  <2>2. s.iblt[p] - 1 - m[p] = -1 /\ s.iblt[p] \in Nat /\ m[p] \in Nat
    BY <2>1 DEF Acked, NodeState, Iblt, Name
  <2>3. s.iblt[p] >= 1
    BY SMT, <1>7 DEF Local, Consistent, Active, NodeState
  <2> QED BY SMT, <2>2, <2>3
<1>8. \A p \in Pub : \/ t.told[p] = s.told[p]
                     \/ /\ p \in OwnPubs[n] /\ s.told[p] = "none"
                        /\ t.told[p] = "arrived" /\ \E m \in names : m[p] >= 1
  BY <1>2, <1>7 DEF Local, Origin, NodeState
<1>9. \A p \in Pub \ s.cbs : t.told[p] = s.told[p]
  BY <1>2
<1> QED BY <1>1, <1>2, <1>3, <1>5, <1>6, <1>8, <1>9 DEF Local, Moves

\* Two functions called one after the other make one permitted change.
LEMMA MovesTrans ==
    ASSUME NEW n \in Node, NEW s, NEW t, NEW u, NEW names, NEW taken,
           Moves(n, s, t, names, taken, {}), Moves(n, t, u, names, {}, {})
    PROVE  Moves(n, s, u, names, taken, {})
<1>1. s.seen \subseteq u.seen /\ u.seen \subseteq s.seen \cup taken
  BY DEF Moves
<1>2. ASSUME NEW p \in Pub
      PROVE  /\ s.st[p] # "none" => u.st[p] # "none"
             /\ \/ u.told[p] = s.told[p]
                \/ /\ p \in OwnPubs[n] /\ s.told[p] = "none"
                   /\ u.told[p] = "arrived" /\ \E m \in names : m[p] >= 1
  BY DEF Moves
<1> QED BY <1>1, <1>2 DEF Moves

\* pendingInterests returns only names that came from the network.
LEMMA PendingIn ==
    ASSUME NEW s \in NodeState, NEW names, NetIn(s, names)
    PROVE  PendingInterests(s.pit) \in SUBSET (Name \cap names)
<1>1. s.pit \in Pit /\ s.iblt \in Name
  BY DEF NodeState, Name
<1>2. PendingInterests(s.pit) \subseteq Name
  BY <1>1, PitTypes
<1> QED BY <1>2 DEF NetIn, PendingInterests

\* Registering delivery callbacks for local publications whose callback has not
\* been called (publish with a callback) preserves the local invariant.
LEMMA RegisterCbs ==
    ASSUME NEW n \in Node, NEW s, Local(n, s), NEW S \in SUBSET Pub,
           \A p \in S : s.st[p] = "local" /\ s.told[p] = "none",
           NEW r, NEW names, NEW taken, Moves(n, r, s, names, taken, {}),
           NEW t, t = [s EXCEPT !.cbs = @ \cup S]
    PROVE  Local(n, t) /\ Moves(n, r, t, names, taken, {})
<1>1. /\ t \in NodeState
      /\ t.st = s.st /\ t.iblt = s.iblt /\ t.ign = s.ign /\ t.seen = s.seen
      /\ t.told = s.told /\ t.pit = s.pit /\ t.out = s.out
      /\ t.cbs = s.cbs \cup S
  BY DEF Local, NodeState
<1>2. Consistent(t) /\ Origin(n, t)
  BY SMT, <1>1 DEF Local, Consistent, Origin
<1>3. Outgoing(n, t)
  BY SMT, <1>1 DEF Local, Outgoing, HasOf
<1>4. Moves(n, r, t, names, taken, {})
  BY SMT, <1>1 DEF Moves, NetIn
<1>5. Local(n, t)
  BY <1>1, <1>2, <1>3 DEF Local
<1> QED BY <1>4, <1>5

\* publish preserves the local invariant.
LEMMA PublishPubLocal ==
    ASSUME NEW n \in Node, NEW s, Local(n, s), NEW names, NetIn(s, names),
           NEW p \in OwnPubs[n], s.st[p] = "none"
    PROVE  /\ Local(n, PublishPub(s, p))
           /\ Moves(n, s, PublishPub(s, p), names, {}, {})
<1> DEFINE a == AddToActive(s, {p}, "local")
           b == SendCState(a)
           h == HandleCStates(b, PendingInterests(b.pit))
<1> s \in NodeState /\ p \in Pub
  BY OwnAssumption DEF Local
<1>1. a \in NodeState
  BY AddToActiveType DEF Status
<1>2. /\ \A q \in Pub : /\ a.st[q] = IF q = p THEN "local" ELSE s.st[q]
                        /\ a.iblt[q] = IF q = p THEN s.iblt[q] + 1 ELSE s.iblt[q]
      /\ a.ign = s.ign /\ a.cbs = s.cbs /\ a.seen = s.seen /\ a.told = s.told
      /\ a.pit = s.pit /\ a.out = s.out
  BY DEF AddToActive, AddEntries, Insert, NodeState
<1>3. PublishPub(s, p) = [h EXCEPT !.cbs = @ \cup ({p} \cap WithCb)]
  BY DEF PublishPub, HandlePending
<1> HIDE DEF a
<1>4. Consistent(a)
  <2>1. \A q \in Pub : s.iblt[q] = (IF s.st[q] \in Active THEN 1 ELSE 0) + s.ign[q]
    BY DEF Local, Consistent
  <2>2. s.ign[p] \in Nat /\ p \notin s.cbs
    BY DEF NodeState, Local, Consistent
  <2> QED BY SMT, <1>2, <2>1, <2>2 DEF Local, Consistent, Active
<1>5. Origin(n, a)
  BY SMT, <1>2 DEF Local, Origin
<1>6. Outgoing(n, a)
  <2>1. HasOf(n, s) \subseteq HasOf(n, a)
    BY <1>2, OwnAssumption DEF HasOf
  <2> QED BY <1>2, <2>1 DEF Local, Outgoing
<1>7. Local(n, a) /\ Moves(n, s, a, names, {}, {}) /\ NetIn(a, names)
  BY <1>1, <1>2, <1>4, <1>5, <1>6 DEF Local, Moves, NetIn
<1>8. /\ Local(n, b) /\ Moves(n, a, b, names, {}, {}) /\ NetIn(b, names)
      /\ b.st = a.st /\ b.cbs = a.cbs /\ b.told = a.told
  BY SMT, <1>7, SendCStateLocal DEF Moves
<1> HIDE DEF b
<1>9. PendingInterests(b.pit) \in SUBSET (Name \cap names)
  BY <1>8, PendingIn DEF Local
<1>10. /\ Local(n, h) /\ Moves(n, b, h, names, {}, {}) /\ h.st = b.st
       /\ p \notin b.cbs => h.told[p] = b.told[p]
  BY SMT, <1>8, <1>9, HandleCStatesLocal
<1> HIDE DEF h
<1>11. Moves(n, s, h, names, {}, {})
  BY <1>7, <1>8, <1>10, MovesTrans
<1>12. h.st[p] = "local" /\ h.told[p] = "none"
  BY SMT, <1>2, <1>8, <1>10 DEF Local, Consistent, Origin
<1>13. /\ {p} \cap WithCb \in SUBSET Pub
       /\ \A q \in {p} \cap WithCb : h.st[q] = "local" /\ h.told[q] = "none"
  BY <1>12
<1> QED BY <1>3, <1>10, <1>11, <1>13, RegisterCbs

\* The local invariant does not depend on the PIT, up and soon.
LEMMA SameLocal ==
    ASSUME NEW n \in Node, NEW r, NEW s \in NodeState, Local(n, r), Agree(r, s)
    PROVE  Local(n, s)
<1>1. Consistent(s)
  BY DEF Local, Consistent, Agree
<1>2. Origin(n, s)
  BY DEF Local, Origin, Agree
<1>3. Outgoing(n, s)
  BY DEF Local, Outgoing, HasOf, Agree
<1> QED BY <1>1, <1>2, <1>3 DEF Local

\* Neither does what a change may do to the collection.
LEMMA SameMoves ==
    ASSUME NEW n \in Node, NEW r, NEW s, Agree(r, s), NEW names
    PROVE  /\ \A t, taken, late :
                 Moves(n, s, t, names, taken, late) => Moves(n, r, t, names, taken, late)
           /\ \A q, taken, late :
                 Moves(n, q, r, names, taken, late) /\ NetIn(s, names)
                    => Moves(n, q, s, names, taken, late)
           /\ NetIn(s, names) => Moves(n, r, s, names, {}, {})
<1>1. ASSUME NEW t, NEW taken, NEW late, Moves(n, s, t, names, taken, late)
      PROVE  Moves(n, r, t, names, taken, late)
  BY SMT, <1>1 DEF Moves, Agree
<1>2. ASSUME NEW q, NEW taken, NEW late, Moves(n, q, r, names, taken, late),
             NetIn(s, names)
      PROVE  Moves(n, q, s, names, taken, late)
  BY <1>2 DEF Moves, Agree
<1>3. ASSUME NetIn(s, names) PROVE Moves(n, r, s, names, {}, {})
  BY <1>3 DEF Moves, Agree
<1> QED BY <1>1, <1>2, <1>3

\* onCAdd preserves the local invariant and always leaves a cState scheduled.
LEMMA OnCAddLocal ==
    ASSUME NEW n \in Node, NEW s, Local(n, s), NEW names, NetIn(s, names),
           NEW accept \in SUBSET Pub, NEW ignore \in SUBSET Pub,
           NEW replies \in SUBSET OwnPubs[n],
           accept \cap ignore = {},
           \A p \in accept \cup ignore :
               s.st[p] \notin Present /\ p \notin OwnPubs[n],
           \A p \in replies : s.st[p] = "none"
    PROVE  /\ Local(n, OnCAdd(s, accept, ignore, replies))
           /\ Moves(n, s, OnCAdd(s, accept, ignore, replies), names,
                    accept \cup ignore, {})
           /\ Alive(OnCAdd(s, accept, ignore, replies))
<1> DEFINE new == accept \cup ignore
           a0 == AddToActive(s, accept, "net")
           a1 == IgnorePubs(a0, ignore)
           a == AddToActive(a1, replies, "local")
           b == [a EXCEPT !.cbs = @ \cup (replies \cap WithCb),
                          !.seen = @ \cup accept \cup ignore]
           c == IF replies # {} THEN HandleCStates(b, PendingInterests(b.pit)) ELSE b
           t == OnCAdd(s, accept, ignore, replies)
<1> s \in NodeState /\ replies \in SUBSET Pub
  BY OwnAssumption DEF Local
<1>0. "net" \in Status /\ "local" \in Status
  BY DEF Status
<1>1. t = [c EXCEPT !.soon = TRUE]
  BY DEF OnCAdd, HandlePending
<1>2. /\ a0 \in NodeState
      /\ \A p \in Pub : /\ a0.st[p] = IF p \in accept THEN "net" ELSE s.st[p]
                        /\ a0.iblt[p] = IF p \in accept THEN s.iblt[p] + 1 ELSE s.iblt[p]
      /\ a0.ign = s.ign /\ a0.cbs = s.cbs /\ a0.seen = s.seen /\ a0.told = s.told
      /\ a0.pit = s.pit /\ a0.out = s.out
  BY SMT, <1>0, AddToActiveFields
<1> HIDE DEF a0
<1>3. /\ a1 \in NodeState
      /\ a1.st = a0.st
      /\ \A p \in Pub :
            /\ a1.iblt[p] = IF p \in ignore THEN a0.iblt[p] + 1 ELSE a0.iblt[p]
            /\ a1.ign[p] = IF p \in ignore THEN a0.ign[p] + 1 ELSE a0.ign[p]
      /\ a1.cbs = a0.cbs /\ a1.seen = a0.seen /\ a1.told = a0.told
      /\ a1.pit = a0.pit /\ a1.out = a0.out
  BY SMT, <1>2, IgnorePubsFields
<1> HIDE DEF a1
<1>4. /\ a \in NodeState
      /\ \A p \in Pub : /\ a.st[p] = IF p \in replies THEN "local" ELSE a1.st[p]
                        /\ a.iblt[p] = IF p \in replies THEN a1.iblt[p] + 1 ELSE a1.iblt[p]
      /\ a.ign = a1.ign /\ a.cbs = a1.cbs /\ a.seen = a1.seen /\ a.told = a1.told
      /\ a.pit = a1.pit /\ a.out = a1.out
  BY SMT, <1>0, <1>3, AddToActiveFields
<1> HIDE DEF a
<1>5. /\ b \in NodeState
      /\ b.st = a.st /\ b.iblt = a.iblt /\ b.ign = a.ign /\ b.told = a.told
      /\ b.pit = a.pit /\ b.out = a.out
      /\ b.cbs = a.cbs \cup (replies \cap WithCb)
      /\ b.seen = a.seen \cup accept \cup ignore
  BY <1>4 DEF NodeState
<1> HIDE DEF b
<1>6. /\ \A p \in Pub :
           /\ b.st[p] = IF p \in replies THEN "local"
                        ELSE IF p \in accept THEN "net" ELSE s.st[p]
           /\ b.iblt[p] = IF p \in new \cup replies THEN s.iblt[p] + 1 ELSE s.iblt[p]
           /\ b.ign[p] = IF p \in ignore THEN s.ign[p] + 1 ELSE s.ign[p]
      /\ b.cbs = s.cbs \cup (replies \cap WithCb)
      /\ b.seen = s.seen \cup new
      /\ b.told = s.told /\ b.pit = s.pit /\ b.out = s.out
  BY SMT, <1>2, <1>3, <1>4, <1>5
<1>7. Consistent(b)
  <2>1. \A p \in Pub : /\ s.iblt[p] = (IF s.st[p] \in Active THEN 1 ELSE 0) + s.ign[p]
                       /\ p \in s.cbs => s.st[p] = "local"
                       /\ s.iblt[p] \in Nat /\ s.ign[p] \in Nat
    BY DEF Local, Consistent, NodeState, Iblt
  <2>2. \A p \in new : s.st[p] \notin Active /\ s.st[p] # "local"
    BY DEF Active, Present
  <2>3. replies \cap new = {}
    OBVIOUS
  <2> SUFFICES ASSUME NEW p \in Pub
               PROVE  /\ b.iblt[p] = (IF b.st[p] \in Active THEN 1 ELSE 0) + b.ign[p]
                      /\ p \in b.cbs => b.st[p] = "local"
    BY DEF Consistent
  <2>4. CASE p \in replies
    BY SMT, <1>6, <2>1, <2>3, <2>4 DEF Active
  <2>5. CASE p \in accept
    BY SMT, <1>6, <2>1, <2>2, <2>3, <2>5 DEF Active
  <2>6. CASE p \in ignore
    BY SMT, <1>6, <2>1, <2>2, <2>3, <2>6 DEF Active
  <2>7. CASE p \notin new \cup replies
    BY <1>6, <2>1, <2>7 DEF Active
  <2> QED BY <2>4, <2>5, <2>6, <2>7
<1>8. Origin(n, b)
  <2>1. \A p \in new : p \notin s.cbs /\ p \notin replies
    BY DEF Local, Consistent, Present
  <2>2. \A p \in Pub : s.ign[p] \in Nat
    BY DEF NodeState
  <2> SUFFICES ASSUME NEW p \in Pub
               PROVE  /\ b.st[p] = "local" => p \in OwnPubs[n]
                      /\ b.st[p] = "net" \/ b.ign[p] > 0 => p \in b.seen
                      /\ p \in b.cbs \/ b.st[p] = "none" => b.told[p] = "none"
    BY DEF Origin
  <2>3. /\ s.st[p] = "local" => p \in OwnPubs[n]
        /\ s.st[p] = "net" \/ s.ign[p] > 0 => p \in s.seen
        /\ p \in s.cbs \/ s.st[p] = "none" => s.told[p] = "none"
    BY DEF Local, Origin
  <2>4. CASE p \in replies
    BY <1>6, <2>1, <2>3, <2>4
  <2>5. CASE p \in new
    BY <1>6, <2>1, <2>3, <2>5
  <2>6. CASE p \notin new \cup replies
    BY <1>6, <2>3, <2>6
  <2> QED BY <2>4, <2>5, <2>6
<1>9. Outgoing(n, b)
  <2>1. HasOf(n, s) \subseteq HasOf(n, b)
    BY <1>6, OwnAssumption DEF HasOf
  <2> QED BY <1>6, <2>1 DEF Local, Outgoing
<1>10. Local(n, b) /\ Moves(n, s, b, names, new, {}) /\ NetIn(b, names)
  BY <1>5, <1>6, <1>7, <1>8, <1>9 DEF Local, Moves, NetIn
<1>11. PendingInterests(b.pit) \in SUBSET (Name \cap names)
  BY <1>10, PendingIn DEF Local
<1>12. Local(n, c) /\ Moves(n, s, c, names, new, {})
  <2> DEFINE h == HandleCStates(b, PendingInterests(b.pit))
  <2>1. Local(n, h) /\ Moves(n, b, h, names, {}, {})
    BY <1>10, <1>11, HandleCStatesLocal
  <2> HIDE DEF h, new
  <2>2. Moves(n, s, h, names, new, {})
    BY <1>10, <2>1, MovesTrans
  <2> QED BY <1>10, <2>1, <2>2 DEF h
<1> HIDE DEF c
<1>13. /\ t \in NodeState
       /\ Agree(c, t) /\ t.pit = c.pit /\ t.soon
  BY <1>1, <1>12 DEF Local, NodeState, Agree
<1> HIDE DEF t
<1>14. Local(n, t)
  BY <1>12, <1>13, SameLocal
<1>15. Moves(n, s, t, names, new, {})
  <2>1. NetIn(t, names)
    BY <1>12, <1>13 DEF Moves, NetIn
  <2> QED BY <1>12, <1>13, <2>1, SameMoves
<1>16. Alive(t)
  BY <1>13 DEF Alive
<1> QED BY <1>14, <1>15, <1>16 DEF t

\* A name that the application expresses is among those it has expressed, also
\* when the PIT already had the entry (PIT::add).
LEMMA ExpressedLocal ==
    ASSUME NEW q \in Pit, NEW m \in Name
    PROVE  m \in Expressed(PitAddLocal(q, m, "mine"))
<1>1. CASE m \in PitNames(q)
  <2>1. PICK e \in q : e.name = m
    BY <1>1 DEF PitNames
  <2>2. e \in PitEntry(Name, {"mine", "other"})
    BY DEF Pit
  <2>3. /\ [e EXCEPT !.loc = TRUE].loc
        /\ [e EXCEPT !.loc = TRUE].name = m
    BY <2>1, <2>2 DEF PitEntry
  <2>4. [e EXCEPT !.loc = TRUE] \in PitAddLocal(q, m, "mine")
    BY <1>1, <2>1 DEF PitAddLocal
  <2> QED BY <2>3, <2>4 DEF Expressed
<1>2. CASE m \notin PitNames(q)
  <2> DEFINE e == NewEntry(m, "mine", TRUE, FALSE)
  <2>1. e.loc /\ e.name = m
    BY DEF NewEntry
  <2>2. e \in PitAddLocal(q, m, "mine")
    BY <1>2 DEF PitAddLocal
  <2> HIDE DEF e
  <2> QED BY <2>1, <2>2 DEF Expressed
<1> QED BY <1>1, <1>2

\* sendCState leaves a pending cState whose timeout sends the next one.
LEMMA SendCStateAlive ==
    ASSUME NEW s \in NodeState
    PROVE  Alive(SendCState(s))
<1> DEFINE t == SendCState(s)
<1>1. CASE ~s.up
  BY <1>1 DEF SendCState, Alive
<1>2. CASE s.up
  <2>1. /\ t.st = s.st /\ t.iblt = s.iblt
        /\ t.pit = PitAddLocal(NewNonce(s.pit), s.iblt, "mine")
    BY <1>2 DEF SendCState, NodeState
  <2>2. s.pit \in Pit /\ s.iblt \in Name /\ s.iblt \in Iblt
    BY DEF NodeState, Name
  <2>3. s.iblt \in Expressed(t.pit)
    BY <2>1, <2>2, PitTypes, ExpressedLocal
  <2>4. Covers(t, s.iblt)
    BY SMT, <2>1, <2>2 DEF Covers, Iblt
  <2> QED BY <2>3, <2>4 DEF Alive
<1> QED BY <1>1, <1>2

\* The send of a cAdd erases the PIT entry it answers, but never the one of the
\* node's own cState that covers all of its local publications.
LEMMA HandleCStatesAlive ==
    ASSUME NEW s \in NodeState, NEW ms \in SUBSET Name, Alive(s)
    PROVE  Alive(HandleCStates(s, ms))
<1> DEFINE answer == {m \in ms : OursFor(s, m) # {}}
           t == HandleCStates(s, ms)
<1>1. /\ t.st = s.st /\ t.iblt = s.iblt /\ t.up = s.up
      /\ t.pit = PitErase(s.pit, answer)
      /\ s.soon => t.soon
  BY DEF HandleCStates, DoDeliveryCb, NodeState
<1> SUFFICES Alive(t) OBVIOUS
<1> HIDE DEF t
<1>2. ASSUME NEW m \in Expressed(s.pit), Covers(s, m)
      PROVE  m \in Expressed(t.pit) /\ Covers(t, m)
  <2>1. m \in Name /\ s.iblt \in Iblt
    BY PitTypes DEF NodeState, Name
  <2>2. OursFor(s, m) = {}
    BY SMT, <1>2, <2>1 DEF OursFor, Have, Covers, Name, Iblt
  <2>3. m \notin answer
    BY <2>2
  <2>4. m \in Expressed(t.pit)
    BY <1>1, <2>3 DEF Expressed, PitErase
  <2> QED BY <1>1, <1>2, <2>4 DEF Covers
<1>3. CASE s.up /\ ~s.soon
  BY <1>1, <1>2, <1>3 DEF Alive
<1>4. CASE ~s.up \/ s.soon
  BY <1>1, <1>4 DEF Alive
<1> QED BY <1>3, <1>4

\* publish leaves a pending cState.
LEMMA PublishPubAlive ==
    ASSUME NEW s \in NodeState, NEW p \in Pub
    PROVE  Alive(PublishPub(s, p))
<1> DEFINE a == AddToActive(s, {p}, "local")
           b == SendCState(a)
           h == HandleCStates(b, PendingInterests(b.pit))
           t == PublishPub(s, p)
<1>1. t = [h EXCEPT !.cbs = @ \cup ({p} \cap WithCb)]
  BY DEF PublishPub, HandlePending
<1>2. a \in NodeState
  BY AddToActiveType DEF Status
<1> HIDE DEF a
<1>3. b \in NodeState /\ Alive(b)
  BY <1>2, SendCStateType, SendCStateAlive
<1> HIDE DEF b
<1>4. PendingInterests(b.pit) \in SUBSET Name
  BY <1>3, PitTypes DEF NodeState, Name
<1>5. h \in NodeState /\ Alive(h)
  BY <1>3, <1>4, HandleCStatesType, HandleCStatesAlive
<1> HIDE DEF h
<1>6. t.up = h.up /\ t.soon = h.soon /\ t.pit = h.pit /\ t.st = h.st /\ t.iblt = h.iblt
  BY <1>1, <1>5 DEF NodeState
<1> HIDE DEF t
<1>7. Alive(t)
  BY <1>5, <1>6 DEF Alive, Covers
<1> QED BY <1>7 DEF t

-----------------------------------------------------------------------------
\* Some node other than n has all the publications that the name m shows.
Vouched(n, m) ==
    \E o \in Node \ {n} : \A p \in Pub : m[p] >= 1 => p \in Has(o)

\* The inductive invariant: of nodes,
NodesInv ==
    \A n \in Node : /\ Local(n, node[n]) /\ node[n].out = {}
                    /\ Alive(node[n])
                    /\ NetIn(node[n], {m \in Name : Vouched(n, m)})

\* of the packets in flight,
NetInv ==
    \A k \in net :
        /\ k.pkt.type = "cState" => Vouched(k.dst, k.pkt.name)
        /\ k.pkt.type = "cAdd" =>
              \E o \in Node \ {k.dst} : k.pkt.pubs \subseteq OwnPubs[o] \cap Has(o)

\* and all of it.
IInv == TypeOK /\ NodesInv /\ NetInv /\ ConfirmTruthful

\* The network makes no packets of its own.
LEMMA SurvivingSubset == \A used, sent : Surviving(used, sent) \subseteq net
BY NetAssumption DEF Surviving

\* After an event, what is in flight was so before or was sent to another node.
LEMMA SentPackets ==
    ASSUME NEW n \in Node, NEW t \in NodeState, NEW used, Step(n, t, used)
    PROVE  \A k \in net' : k \in net \/ (k.dst \in Node \ {n} /\ k.pkt \in t.out)
<1> DEFINE sent == [dst : Node \ {n}, pkt : t.out]
<1>1. net' = Surviving(used, sent) \cup sent
  BY DEF Step
<1>2. \A k \in sent : k.dst \in Node \ {n} /\ k.pkt \in t.out
  OBVIOUS
<1> QED BY <1>1, <1>2, SurvivingSubset

\* An event that makes a permitted change preserves the inductive invariant.
LEMMA StepInv ==
    ASSUME IInv, NEW n \in Node, NEW t, NEW taken, NEW late, NEW used,
           Local(n, t), Alive(t),
           Moves(n, node[n], t, {m \in Name : Vouched(n, m)}, taken, late),
           Step(n, t, used)
    PROVE  IInv'
<1> DEFINE u == [t EXCEPT !.out = {}]
<1> t \in NodeState /\ node \in [Node -> NodeState]
  BY DEF Local, IInv, TypeOK
<1>1. /\ u \in NodeState
      /\ u.st = t.st /\ u.iblt = t.iblt /\ u.ign = t.ign /\ u.seen = t.seen
      /\ u.told = t.told /\ u.pit = t.pit /\ u.cbs = t.cbs /\ u.out = {}
      /\ u.soon = t.soon /\ u.up = t.up
  BY DEF NodeState
<1>2. /\ node' = [node EXCEPT ![n] = u]
      /\ node'[n] = u
      /\ \A m \in Node \ {n} : node'[m] = node[m]
  BY DEF Step
<1> HIDE DEF u
<1>3. Local(n, u) /\ Alive(u)
  <2>1. Consistent(u)
    BY <1>1 DEF Local, Consistent
  <2>3. Origin(n, u)
    BY <1>1 DEF Local, Origin
  <2>2. Outgoing(n, u) /\ Alive(u)
    BY <1>1 DEF Outgoing, Alive, Covers
  <2> QED BY <1>1, <2>1, <2>2, <2>3 DEF Local
<1>4. /\ \A m \in Node : Has(m) \subseteq Has(m)'
      /\ \A m \in Node : node[m].seen \subseteq node'[m].seen
      /\ Has(n)' = HasOf(n, t)
  <2>1. Has(n)' = HasOf(n, t)
    BY <1>1, <1>2 DEF Has, HasOf
  <2>2. node[n].seen \subseteq t.seen /\ Has(n) \subseteq HasOf(n, t)
    BY OwnAssumption DEF Has, HasOf, Moves
  <2>3. \A m \in Node \ {n} : Has(m)' = Has(m)
    BY <1>2 DEF Has
  <2> QED BY <1>1, <1>2, <2>1, <2>2, <2>3
<1>5. \A m \in Node, x \in Name : Vouched(m, x) => Vouched(m, x)'
  BY <1>4 DEF Vouched
<1>6. TypeOK'
  <2>1. node' \in [Node -> NodeState]
    BY <1>1, <1>2
  <2>2. net' \subseteq [dst : Node, pkt : Packet]
    <3>1. t.out \subseteq Packet
      BY DEF NodeState
    <3>2. [dst : Node \ {n}, pkt : t.out] \subseteq [dst : Node, pkt : Packet]
      BY <3>1
    <3> QED BY <3>2, SurvivingSubset DEF Step, IInv, TypeOK
  <2> QED BY <2>1, <2>2 DEF TypeOK
<1>7. NodesInv'
  <2>1. ASSUME NEW m \in Node, m # n
        PROVE  /\ Local(m, node'[m]) /\ node'[m].out = {} /\ Alive(node'[m])
               /\ NetIn(node'[m], {x \in Name : Vouched(m, x)'})
    BY <1>2, <1>5, <2>1 DEF IInv, NodesInv, NetIn
  <2>2. /\ Local(n, node'[n]) /\ node'[n].out = {} /\ Alive(node'[n])
        /\ NetIn(node'[n], {x \in Name : Vouched(n, x)'})
    BY <1>1, <1>2, <1>3, <1>5 DEF Moves, NetIn
  <2>3. ASSUME NEW m \in Node PROVE Local(m, node[m])'
    <3>1. Local(m, node'[m])
      BY <2>1, <2>2
    <3> QED BY <3>1 DEF Local, Consistent, Origin, Outgoing, HasOf
  <2>4. \A m \in Node : Alive(node[m])'
    BY <2>1, <2>2 DEF Alive, Covers
  <2>5. \A m \in Node : NetIn(node[m], {x \in Name : Vouched(m, x)})'
    BY <2>1, <2>2 DEF NetIn
  <2> QED BY <2>1, <2>2, <2>3, <2>4, <2>5 DEF NodesInv
<1>8. NetInv'
  <2> SUFFICES ASSUME NEW k \in net'
               PROVE  /\ k.pkt.type = "cState" => Vouched(k.dst, k.pkt.name)'
                      /\ k.pkt.type = "cAdd" =>
                            \E o \in Node \ {k.dst} :
                               k.pkt.pubs \subseteq OwnPubs[o] \cap Has(o)'
    BY DEF NetInv
  <2>1. CASE k \in net
    <3>1. k.dst \in Node /\ k.pkt \in Packet
      BY <2>1 DEF IInv, TypeOK
    <3>2. k.pkt.type = "cState" => k.pkt.name \in Name
      BY <3>1 DEF Packet
    <3> QED BY <1>4, <1>5, <2>1, <3>1, <3>2 DEF IInv, NetInv
  <2>2. CASE k.dst \in Node \ {n} /\ k.pkt \in t.out
    BY <1>4, <2>2 DEF Local, Outgoing, Vouched
  <2> QED BY <2>1, <2>2, SentPackets
<1>9. ConfirmTruthful'
  <2> SUFFICES ASSUME NEW m \in Node, NEW p \in Pub, node'[m].told[p] = "arrived"
               PROVE  \E o \in Node \ {m} : p \in node'[o].seen
    BY DEF ConfirmTruthful
  <2>1. CASE node[m].told[p] = "arrived"
    BY <1>4, <2>1 DEF IInv, ConfirmTruthful
  <2>2. CASE node[m].told[p] # "arrived"
    <3>1. m = n /\ t.told[p] = "arrived"
      BY <1>1, <1>2, <2>2
    <3>2. PICK x \in {y \in Name : Vouched(n, y)} : x[p] >= 1 /\ p \in OwnPubs[n]
      BY <2>2, <3>1 DEF Moves
    <3>3. PICK o \in Node \ {n} : p \in Has(o)
      BY <3>2 DEF Vouched
    <3>4. p \in node[o].seen
      BY <3>2, <3>3, OwnAssumption DEF Has
    <3> QED BY <1>4, <3>1, <3>3, <3>4
  <2> QED BY <2>1, <2>2
<1> QED BY <1>6, <1>7, <1>8, <1>9 DEF IInv

-----------------------------------------------------------------------------
\* The inductive invariant holds initially.
LEMMA InitInv == Init => IInv
<1> SUFFICES ASSUME Init PROVE IInv
  OBVIOUS
<1>1. /\ InitNode \in NodeState
      /\ InitNode.up = FALSE /\ InitNode.st = [p \in Pub |-> "none"]
      /\ InitNode.iblt = [p \in Pub |-> 0] /\ InitNode.ign = [p \in Pub |-> 0]
      /\ InitNode.cbs = {} /\ InitNode.pit = {} /\ InitNode.out = {}
      /\ InitNode.told = [p \in Pub |-> "none"]
  BY DEF InitNode, NodeState, Status, Iblt, Pit, Told
<1>2. \A n \in Node : node[n] = InitNode
  BY DEF Init
<1>3. TypeOK
  BY <1>1 DEF Init, TypeOK
<1>4. NodesInv
  <2>1. Consistent(InitNode) /\ \A n \in Node : Origin(n, InitNode)
    BY SMT, <1>1 DEF Consistent, Origin, Active
  <2>2. /\ Alive(InitNode) /\ \A n : NetIn(InitNode, {m \in Name : Vouched(n, m)})
        /\ \A n : Outgoing(n, InitNode)
    BY <1>1 DEF Alive, NetIn, Outgoing
  <2> QED BY <1>1, <1>2, <2>1, <2>2 DEF NodesInv, Local
<1>5. NetInv /\ ConfirmTruthful
  BY <1>1, <1>2 DEF Init, NetInv, ConfirmTruthful
<1> QED BY <1>3, <1>4, <1>5 DEF IInv

\* An event of n makes a permitted change, to t.
Reached(n, t, taken, late, used) ==
    /\ Local(n, t) /\ Alive(t)
    /\ Moves(n, node[n], t, {m \in Name : Vouched(n, m)}, taken, late)
    /\ taken \subseteq UNION {Has(m) : m \in Node \ {n}}
    /\ Step(n, t, used)

\* Some event of n makes a permitted change.
LocalStep(n) ==
    \E t \in NodeState, taken \in SUBSET Pub, late \in SUBSET Pub,
       used \in SUBSET net : Reached(n, t, taken, late, used)

\* What PIT operations do to the names expressed and to the entries from the net.
LEMMA PitFrames ==
    ASSUME NEW q \in Pit, NEW m \in Name
    PROVE  /\ Expressed(q) \subseteq Expressed(PitAddNet(q, m, "other"))
           /\ Expressed(q) \subseteq Expressed(PitDefer(q, m))
           /\ \A S : Expressed(q) \ S \subseteq Expressed(PitErase(q, S))
           /\ \A e \in PitAddNet(q, m, "other") :
                 e.net => e.name = m \/ \E f \in q : f.net /\ f.name = e.name
           /\ \A e \in PitDefer(q, m) :
                 e.net => \E f \in q : f.net /\ f.name = e.name
           /\ \A S : \A e \in PitErase(q, S) : e \in q
<1> DEFINE N(e) == [e EXCEPT !.net = TRUE]
           D(e) == [e EXCEPT !.ded = TRUE]
<1>1. \A e \in q : e \in PitEntry(Name, {"mine", "other"})
  BY DEF Pit
<1>2. \A e \in q : /\ N(e).loc = e.loc /\ N(e).name = e.name
                   /\ D(e).loc = e.loc /\ D(e).name = e.name /\ D(e).net = e.net
  BY <1>1 DEF PitEntry
<1> DEFINE netq == {IF e.name = m THEN N(e) ELSE e : e \in q}
           dedq == {IF e.name = m THEN D(e) ELSE e : e \in q}
           new == NewEntry(m, "other", FALSE, TRUE)
<1>3. /\ PitAddNet(q, m, "other") = IF m \in PitNames(q) THEN netq ELSE q \cup {new}
      /\ PitDefer(q, m) = dedq
  BY DEF PitAddNet, PitDefer
<1>4. new.name = m
  BY DEF NewEntry
<1> HIDE DEF N, D, new
<1>5. Expressed(q) \subseteq Expressed(netq)
  BY SMT, <1>2 DEF Expressed
<1>6. Expressed(q) \subseteq Expressed(dedq)
  BY SMT, <1>2 DEF Expressed
<1>7. Expressed(q) \subseteq Expressed(q \cup {new})
  BY DEF Expressed
<1>8. \A S : Expressed(q) \ S \subseteq Expressed(PitErase(q, S))
  BY DEF Expressed, PitErase
<1>9. \A e \in netq : e.net => e.name = m \/ \E f \in q : f.net /\ f.name = e.name
  BY <1>2
<1>10. \A e \in dedq : e.net => \E f \in q : f.net /\ f.name = e.name
  BY <1>2
<1>11. \A S : \A e \in PitErase(q, S) : e \in q
  BY DEF PitErase
<1> HIDE DEF netq, dedq
<1> QED BY <1>3, <1>4, <1>5, <1>6, <1>7, <1>8, <1>9, <1>10, <1>11

\* A permitted change is an event's permitted change.
LEMMA Reaching ==
    ASSUME NEW n \in Node, NEW t, NEW taken \in SUBSET Pub, NEW late \in SUBSET Pub,
           NEW used \in SUBSET net, Reached(n, t, taken, late, used)
    PROVE  LocalStep(n)
<1>1. t \in NodeState
  BY DEF Reached, Local
<1> QED BY <1>1 DEF LocalStep

\* An event that ends in sendCState makes a permitted change.
LEMMA RefreshStep ==
    ASSUME IInv, NEW n \in Node, NEW s \in NodeState, Agree(node[n], s),
           NetIn(s, {m \in Name : Vouched(n, m)}),
           Step(n, SendCState(s), {})
    PROVE  LocalStep(n)
<1> DEFINE r == node[n]
           names == {m \in Name : Vouched(n, m)}
           t == SendCState(s)
<1>1. Local(n, r)
  BY DEF IInv, NodesInv
<1> HIDE DEF r, names
<1>2. Local(n, s) /\ NetIn(s, names)
  BY <1>1, SameLocal DEF r, names
<1>3. Local(n, t) /\ Moves(n, s, t, names, {}, {}) /\ Alive(t)
  BY <1>2, SendCStateLocal, SendCStateAlive
<1>4. Moves(n, r, t, names, {}, {})
  BY <1>3, SameMoves DEF r
<1> HIDE DEF t
<1>5. Reached(n, t, {}, {}, {})
  BY <1>3, <1>4 DEF Reached, r, names, t
<1> QED BY SMT, <1>5, Reaching

\* An event that only touches the PIT and soon makes a permitted change.
LEMMA QuietStep ==
    ASSUME IInv, NEW n \in Node, NEW s \in NodeState, Agree(node[n], s),
           NetIn(s, {m \in Name : Vouched(n, m)}), Alive(s),
           NEW used \in SUBSET net, Step(n, s, used)
    PROVE  LocalStep(n)
<1>1. Local(n, node[n])
  BY DEF IInv, NodesInv
<1>2. Local(n, s) /\ Moves(n, node[n], s, {m \in Name : Vouched(n, m)}, {}, {})
  BY <1>1, SameLocal, SameMoves
<1>3. Reached(n, s, {}, {}, used)
  BY <1>2 DEF Reached
<1> QED BY <1>3, Reaching

\* start makes a permitted change.
LEMMA StartStep == ASSUME IInv, NEW n \in Node, Start(n) PROVE LocalStep(n)
<1> DEFINE s == [node[n] EXCEPT !.up = TRUE]
<1>1. node[n] \in NodeState /\ NetIn(node[n], {m \in Name : Vouched(n, m)})
  BY DEF IInv, NodesInv, Local
<1>2. s \in NodeState /\ Agree(node[n], s) /\ s.pit = node[n].pit
  BY <1>1 DEF NodeState, Agree
<1>3. Step(n, SendCState(s), {})
  BY DEF Start
<1> HIDE DEF s
<1> QED BY <1>1, <1>2, <1>3, RefreshStep DEF NetIn

\* The timer of sendCStateSoon makes a permitted change.
LEMMA CStateTimerStep ==
    ASSUME IInv, NEW n \in Node, CStateTimer(n)
    PROVE  LocalStep(n)
<1> DEFINE s == [node[n] EXCEPT !.soon = FALSE]
<1>1. node[n] \in NodeState /\ NetIn(node[n], {m \in Name : Vouched(n, m)})
  BY DEF IInv, NodesInv, Local
<1>2. s \in NodeState /\ Agree(node[n], s) /\ s.pit = node[n].pit
  BY <1>1 DEF NodeState, Agree
<1>3. Step(n, SendCState(s), {})
  BY DEF CStateTimer
<1> HIDE DEF s
<1> QED BY <1>1, <1>2, <1>3, RefreshStep DEF NetIn

\* itoCB makes a permitted change.
LEMMA PitTimeoutStep ==
    ASSUME IInv, NEW n \in Node, NEW m, PitTimeout(n, m)
    PROVE  LocalStep(n)
<1> DEFINE s == [node[n] EXCEPT !.pit = PitErase(@, {m})]
           names == {x \in Name : Vouched(n, x)}
<1>1. node[n] \in NodeState /\ NetIn(node[n], names) /\ Alive(node[n])
  BY DEF IInv, NodesInv, Local
<1>2. PitErase(node[n].pit, {m}) \in Pit
  BY <1>1 DEF NodeState, Pit, PitErase
<1>3. /\ s \in NodeState /\ Agree(node[n], s)
      /\ s.pit = PitErase(node[n].pit, {m}) /\ s.soon = node[n].soon
      /\ s.up = node[n].up
  BY <1>1, <1>2 DEF NodeState, Agree
<1>4. Step(n, IF m \in Expressed(node[n].pit) THEN SendCState(s) ELSE s, {})
  BY DEF PitTimeout
<1> HIDE DEF s
<1>5. NetIn(s, names)
  BY <1>1, <1>3 DEF NetIn, PitErase
<1>6. CASE m \in Expressed(node[n].pit)
  BY <1>3, <1>4, <1>5, <1>6, RefreshStep
<1>7. CASE m \notin Expressed(node[n].pit)
  <2>1. Expressed(s.pit) = Expressed(node[n].pit)
    BY <1>3, <1>7 DEF Expressed, PitErase
  <2>2. Alive(s)
    BY <1>1, <1>3, <2>1 DEF Alive, Agree, Covers
  <2> QED BY <1>3, <1>4, <1>5, <1>7, <2>2, QuietStep
<1> QED BY <1>6, <1>7

\* publish makes a permitted change.
LEMMA PublishStep ==
    ASSUME IInv, NEW n \in Node, NEW p \in Pub, Publish(n, p)
    PROVE  LocalStep(n)
<1> DEFINE r == node[n]
           names == {m \in Name : Vouched(n, m)}
           t == PublishPub(r, p)
<1>1. Local(n, r) /\ NetIn(r, names) /\ r \in NodeState
  BY DEF IInv, NodesInv, Local
<1>2. /\ Step(n, t, {})
      /\ p \in OwnPubs[n] /\ r.st[p] = "none"
  BY DEF Publish, Fresh
<1> HIDE DEF r, names
<1>3. Local(n, t) /\ Moves(n, r, t, names, {}, {}) /\ Alive(t)
  BY <1>1, <1>2, PublishPubLocal, PublishPubAlive
<1> HIDE DEF t
<1>4. Reached(n, t, {}, {}, {})
  BY <1>2, <1>3 DEF Reached, r, names
<1> QED BY SMT, <1>4, Reaching

\* The packets in flight are cStates and cAdds.
LEMMA PacketTypes ==
    ASSUME IInv, NEW k \in net
    PROVE  /\ k.dst \in Node
           /\ k.pkt.type \in {"cState", "cAdd"} /\ k.pkt.name \in Name
           /\ k.pkt.type = "cAdd" => k.pkt.pubs \in SUBSET Pub
<1>1. k.dst \in Node /\ k.pkt \in Packet
  BY DEF IInv, TypeOK
<1> QED BY <1>1 DEF Packet

\* Handling a cState makes a permitted change.
LEMMA RecvCStateStep ==
    ASSUME IInv, NEW n \in Node, NEW k \in net, RecvCState(n, k)
    PROVE  LocalStep(n)
<1> DEFINE r == node[n]
           m == k.pkt.name
           names == {x \in Name : Vouched(n, x)}
           s == [r EXCEPT !.pit = PitAddNet(@, m, "other")]
           t == HandleCStates(s, {m})
<1>1. r \in NodeState /\ Local(n, r) /\ NetIn(r, names) /\ Alive(r)
  BY DEF IInv, NodesInv, Local
<1>2. m \in Name /\ m \in names
  BY PacketTypes DEF RecvCState, IInv, NetInv
<1>3. r.pit \in Pit /\ PitAddNet(r.pit, m, "other") \in Pit
  BY <1>1, <1>2, PitTypes DEF NodeState
<1>4. /\ s \in NodeState /\ Agree(r, s)
      /\ s.pit = PitAddNet(r.pit, m, "other") /\ s.soon = r.soon /\ s.up = r.up
  BY <1>1, <1>3 DEF NodeState, Agree
<1>5. Step(n, IF r.up THEN t ELSE r, {k})
  BY DEF RecvCState
<1> HIDE DEF r, m, names, s
<1>6. NetIn(s, names)
  <2>1. \A e \in s.pit : e.net => e.name = m \/ \E f \in r.pit : f.net /\ f.name = e.name
    <3>1. \A e \in PitAddNet(r.pit, m, "other") :
             e.net => e.name = m \/ \E f \in r.pit : f.net /\ f.name = e.name
      BY <1>2, <1>3, PitFrames
    <3> QED BY <1>4, <3>1
  <2> QED BY <1>1, <1>2, <2>1 DEF NetIn
<1>7. Alive(s)
  <2>1. Expressed(r.pit) \subseteq Expressed(s.pit)
    BY SMT, <1>2, <1>3, <1>4, PitFrames
  <2> QED BY <1>1, <1>4, <2>1 DEF Alive, Agree, Covers
<1>8. CASE r.up
  <2>1. Local(n, s)
    BY <1>1, <1>4, SameLocal
  <2>2. {m} \in SUBSET (Name \cap names) /\ {m} \in SUBSET Name
    BY <1>2
  <2>3. Local(n, t) /\ Moves(n, s, t, names, {}, {})
    BY <1>6, <2>1, <2>2, HandleCStatesLocal
  <2>4. Alive(t)
    BY <1>4, <1>7, <2>2, HandleCStatesAlive
  <2> HIDE DEF t
  <2>5. Moves(n, r, t, names, {}, {})
    BY <1>4, <2>3, SameMoves
  <2>6. Reached(n, t, {}, {}, {k})
    BY <1>5, <1>8, <2>3, <2>4, <2>5 DEF Reached, r, names
  <2> QED BY <2>6, Reaching
<1>9. CASE ~r.up
  <2>1. Step(n, r, {k})
    BY <1>5, <1>9
  <2>2. Agree(node[n], r)
    BY DEF Agree, r
  <2> QED BY <1>1, <2>1, <2>2, QuietStep DEF names
<1> QED BY <1>8, <1>9

\* Handling a cAdd the node did not ask for makes a permitted change.
LEMMA RecvUnwantedStep ==
    ASSUME IInv, NEW n \in Node, NEW k \in net, RecvUnwanted(n, k)
    PROVE  LocalStep(n)
<1> DEFINE m == k.pkt.name
           names == {x \in Name : Vouched(n, x)}
           s == [node[n] EXCEPT !.pit = PitErase(@, {m})]
<1>1. node[n] \in NodeState /\ NetIn(node[n], names) /\ Alive(node[n])
  BY DEF IInv, NodesInv, Local
<1>2. PitErase(node[n].pit, {m}) \in Pit
  BY <1>1 DEF NodeState, Pit, PitErase
<1>3. /\ s \in NodeState /\ Agree(node[n], s)
      /\ s.pit = PitErase(node[n].pit, {m}) /\ s.soon = node[n].soon
      /\ s.up = node[n].up
  BY <1>1, <1>2 DEF NodeState, Agree
<1>4. Step(n, s, {k}) /\ m \notin Expressed(node[n].pit)
  BY DEF RecvUnwanted
<1> HIDE DEF s, m
<1>5. NetIn(s, names)
  BY <1>1, <1>3 DEF NetIn, PitErase
<1>6. Expressed(s.pit) = Expressed(node[n].pit)
  BY <1>3, <1>4 DEF Expressed, PitErase
<1>7. Alive(s)
  BY <1>1, <1>3, <1>6 DEF Alive, Agree, Covers
<1> QED BY <1>3, <1>4, <1>5, <1>7, QuietStep

\* schedDED leaves the node refreshed and its collection as it was.
LEMMA DeferFacts ==
    ASSUME IInv, NEW n \in Node, NEW m \in Name,
           NEW s, s = [node[n] EXCEPT !.pit = PitDefer(@, m)]
    PROVE  /\ s \in NodeState /\ Agree(node[n], s) /\ Alive(s)
           /\ NetIn(s, {x \in Name : Vouched(n, x)})
<1> DEFINE names == {x \in Name : Vouched(n, x)}
<1>1. node[n] \in NodeState /\ NetIn(node[n], names) /\ Alive(node[n])
  BY DEF IInv, NodesInv, Local
<1>2. node[n].pit \in Pit /\ PitDefer(node[n].pit, m) \in Pit
  BY <1>1, PitTypes DEF NodeState
<1>3. /\ s \in NodeState /\ Agree(node[n], s)
      /\ s.pit = PitDefer(node[n].pit, m) /\ s.soon = node[n].soon
      /\ s.up = node[n].up
  BY <1>1, <1>2 DEF NodeState, Agree
<1>4. NetIn(s, names)
  BY SMT, <1>1, <1>2, <1>3, PitFrames DEF NetIn
<1>5. Expressed(node[n].pit) \subseteq Expressed(s.pit)
  BY SMT, <1>2, <1>3, PitFrames
<1>6. Alive(s)
  BY SMT, <1>1, <1>3, <1>5 DEF Alive, Agree, Covers
<1> QED BY <1>3, <1>4, <1>6

\* Handling a cAdd that does not validate makes a permitted change.
LEMMA RecvInvalidStep ==
    ASSUME IInv, NEW n \in Node, NEW k \in net, RecvInvalid(n, k)
    PROVE  LocalStep(n)
<1> DEFINE s == [node[n] EXCEPT !.pit = PitDefer(@, k.pkt.name)]
           mine == \E e \in s.pit : e.name = k.pkt.name /\ e.i = "mine"
           t == [s EXCEPT !.soon = @ \/ mine]
<1>1. /\ s \in NodeState /\ Agree(node[n], s) /\ Alive(s)
      /\ NetIn(s, {x \in Name : Vouched(n, x)})
  BY DeferFacts, PacketTypes
<1>2. Step(n, t, {k})
  BY DEF RecvInvalid
<1> HIDE DEF s
<1>3. (s.soon \/ mine) \in BOOLEAN
  OBVIOUS
<1>4. /\ t \in NodeState /\ Agree(s, t)
      /\ t.pit = s.pit /\ t.up = s.up /\ (s.soon => t.soon)
  BY <1>1, <1>3 DEF NodeState, Agree
<1> HIDE DEF t
<1>5. Alive(t) /\ NetIn(t, {x \in Name : Vouched(n, x)})
  BY <1>1, <1>4 DEF Alive, NetIn, Agree, Covers
<1>6. Agree(node[n], t)
  BY <1>1, <1>4 DEF Agree
<1> QED BY <1>2, <1>4, <1>5, <1>6, QuietStep

\* Handling a cAdd makes a permitted change: all it brings another node has.
LEMMA RecvCAddStep ==
    ASSUME IInv, NEW n \in Node, NEW k \in net, RecvCAdd(n, k)
    PROVE  LocalStep(n)
<1> DEFINE r == node[n]
           names == {x \in Name : Vouched(n, x)}
           s == [r EXCEPT !.pit = PitDefer(@, k.pkt.name)]
           new == {p \in k.pkt.pubs : s.st[p] \notin Present}
           gone == {p \in new : s.st[p] = "gone"}
<1>1. /\ s \in NodeState /\ Agree(r, s) /\ Alive(s) /\ NetIn(s, names)
  BY DeferFacts, PacketTypes
<1>2. Local(n, r)
  BY DEF IInv, NodesInv
<1>3. PICK bad \in SUBSET (new \cap Doubtful), replies \in SUBSET OwnPubs[n] :
         /\ Fresh(n, replies)
         /\ Step(n, OnCAdd(s, new \ (bad \cup gone), bad \cup gone, replies), {k})
  BY DEF RecvCAdd
<1>4. PICK o \in Node \ {n} : k.pkt.pubs \subseteq OwnPubs[o] \cap Has(o)
  BY DEF RecvCAdd, Wanted, IInv, NetInv
<1>5. new \subseteq Pub /\ new \subseteq k.pkt.pubs
  BY PacketTypes DEF RecvCAdd, Wanted
<1>6. /\ \A p \in new : s.st[p] \notin Present /\ p \notin OwnPubs[n]
      /\ new \subseteq UNION {Has(m) : m \in Node \ {n}}
  BY <1>4, <1>5, OwnAssumption
<1>7. \A p \in replies : s.st[p] = "none"
  BY <1>1, <1>3 DEF Fresh, Agree
<1> HIDE DEF r, names, s
<1> DEFINE ignore == bad \cup gone
           accept == new \ ignore
           t == OnCAdd(s, accept, ignore, replies)
<1>8. /\ accept \in SUBSET Pub /\ ignore \in SUBSET Pub /\ accept \cap ignore = {}
      /\ accept \cup ignore = new
  BY <1>5
<1>9. Step(n, t, {k})
  BY <1>3
<1> HIDE DEF new, gone, accept, ignore
<1>10. Local(n, s)
  BY <1>1, <1>2, SameLocal
<1>11. \A p \in accept \cup ignore : s.st[p] \notin Present /\ p \notin OwnPubs[n]
  BY <1>6, <1>8
<1>12. /\ Local(n, t) /\ Alive(t)
       /\ Moves(n, s, t, names, accept \cup ignore, {})
  BY <1>1, <1>7, <1>8, <1>10, <1>11, OnCAddLocal
<1> HIDE DEF t
<1>13. Moves(n, r, t, names, new, {})
  BY <1>1, <1>8, <1>12, SameMoves
<1>14. Reached(n, t, new, {}, {k})
  BY <1>6, <1>9, <1>12, <1>13 DEF Reached, r, names
<1> QED BY SMT, <1>5, <1>14, Reaching

\* The delivery callback's timeout makes a permitted change.
LEMMA DeliveryTimeoutStep ==
    ASSUME IInv, NEW n \in Node, NEW p \in Pub, DeliveryTimeout(n, p)
    PROVE  LocalStep(n)
<1> DEFINE r == node[n]
           names == {x \in Name : Vouched(n, x)}
           t == DoDeliveryCb(r, {p}, "timeout")
<1>1. r \in NodeState /\ Local(n, r) /\ NetIn(r, names) /\ Alive(r)
  BY DEF IInv, NodesInv, Local
<1>2. Step(n, t, {}) /\ r.st[p] = "local"
  BY DEF DeliveryTimeout
<1> HIDE DEF r, names
<1>3. t \in NodeState
  BY <1>1, DoDeliveryCbType DEF Told
<1>4. /\ t.st = r.st /\ t.iblt = r.iblt /\ t.ign = r.ign /\ t.seen = r.seen
      /\ t.pit = r.pit /\ t.out = r.out /\ t.soon = r.soon /\ t.up = r.up
      /\ t.cbs = r.cbs \ {p}
      /\ \A q \in Pub : t.told[q] = IF q = p /\ q \in r.cbs THEN "timeout" ELSE r.told[q]
  BY <1>1, <1>2 DEF DoDeliveryCb, NodeState
<1> HIDE DEF t
<1>5. Local(n, t)
  <2>1. Consistent(t)
    BY <1>1, <1>4 DEF Local, Consistent
  <2>2. Origin(n, t)
    BY <1>1, <1>2, <1>4 DEF Local, Origin
  <2>3. Outgoing(n, t)
    BY <1>1, <1>4 DEF Local, Outgoing, HasOf
  <2> QED BY <1>3, <2>1, <2>2, <2>3 DEF Local
<1>6. Alive(t)
  BY <1>1, <1>4 DEF Alive, Covers
<1>7. Moves(n, r, t, names, {}, {p})
  BY <1>1, <1>2, <1>4 DEF Moves, Local, Origin, NetIn
<1>8. Reached(n, t, {}, {p}, {})
  BY <1>2, <1>5, <1>6, <1>7 DEF Reached, r, names
<1> QED BY SMT, <1>8, Reaching

\* The timers that deactivate, erase and stop ignoring a publication make
\* permitted changes, and only take out of the iblt what is in it.
LEMMA LifetimeStep ==
    ASSUME IInv, NEW n \in Node, NEW p \in Pub,
           Deactivate(n, p) \/ Erase(n, p) \/ Unignore(n, p)
    PROVE  LocalStep(n)
<1> DEFINE r == node[n]
           names == {x \in Name : Vouched(n, x)}
<1>1. r \in NodeState /\ Local(n, r) /\ NetIn(r, names) /\ Alive(r)
  BY DEF IInv, NodesInv, Local
<1>2. /\ r.iblt[p] = (IF r.st[p] \in Active THEN 1 ELSE 0) + r.ign[p]
      /\ p \in r.cbs => r.st[p] = "local"
      /\ r.ign[p] \in Nat /\ r.iblt[p] \in Nat /\ r.iblt \in Iblt
  BY <1>1 DEF Local, Consistent, NodeState, Iblt
<1>3. PICK t : /\ Step(n, t, {})
               /\ \/ /\ r.st[p] \in Active /\ p \notin r.cbs
                     /\ t = [r EXCEPT !.st[p] = "held", !.iblt = Remove(@, {p})]
                  \/ /\ r.st[p] = "held"
                     /\ t = [r EXCEPT !.st[p] = "gone"]
                  \/ /\ r.ign[p] > 0
                     /\ t = [r EXCEPT !.ign[p] = @ - 1, !.iblt = Remove(@, {p})]
  BY DEF Deactivate, Erase, Unignore
<1> HIDE DEF r, names
<1>5. \A q \in Pub : Remove(r.iblt, {p})[q] = IF q = p THEN r.iblt[q] - 1 ELSE r.iblt[q]
  BY DEF Remove
<1>4. r.iblt[p] >= 1 => Remove(r.iblt, {p}) \in Iblt
  <2> SUFFICES ASSUME r.iblt[p] >= 1 PROVE Remove(r.iblt, {p}) \in Iblt
    OBVIOUS
  <2>1. \A q \in Pub : r.iblt[q] \in Nat
    BY <1>2 DEF Iblt
  <2>3. r.iblt[p] - 1 \in Nat
    BY SMT, <1>2
  <2>2. \A q \in Pub : (IF q \in {p} THEN r.iblt[q] - 1 ELSE r.iblt[q]) \in Nat
    BY <2>1, <2>3
  <2> QED BY <2>2 DEF Remove, Iblt
<1>6. /\ t \in NodeState
      /\ t.cbs = r.cbs /\ t.seen = r.seen /\ t.told = r.told /\ t.pit = r.pit
      /\ t.out = r.out /\ t.soon = r.soon /\ t.up = r.up
      /\ \A q \in Pub \ {p} : /\ t.st[q] = r.st[q] /\ t.ign[q] = r.ign[q]
                              /\ t.iblt[q] = r.iblt[q]
      /\ \/ /\ r.st[p] \in Active /\ p \notin r.cbs
            /\ t.st[p] = "held" /\ t.ign[p] = r.ign[p] /\ t.iblt[p] = r.iblt[p] - 1
         \/ /\ r.st[p] = "held" /\ p \notin r.cbs
            /\ t.st[p] = "gone" /\ t.ign[p] = r.ign[p] /\ t.iblt[p] = r.iblt[p]
         \/ /\ r.ign[p] > 0 /\ t.st[p] = r.st[p]
            /\ t.ign[p] = r.ign[p] - 1 /\ t.iblt[p] = r.iblt[p] - 1
  <2>1. CASE /\ r.st[p] \in Active /\ p \notin r.cbs
             /\ t = [r EXCEPT !.st[p] = "held", !.iblt = Remove(@, {p})]
    <3>1. Remove(r.iblt, {p}) \in Iblt
      BY SMT, <1>2, <1>4, <2>1
    <3> QED BY <1>1, <1>5, <2>1, <3>1 DEF NodeState, Status
  <2>2. CASE r.st[p] = "held" /\ t = [r EXCEPT !.st[p] = "gone"]
    BY <1>1, <1>2, <2>2 DEF NodeState, Status
  <2>3. CASE r.ign[p] > 0 /\ t = [r EXCEPT !.ign[p] = @ - 1, !.iblt = Remove(@, {p})]
    <3>1. Remove(r.iblt, {p}) \in Iblt
      BY SMT, <1>2, <1>4, <2>3 DEF Active
    <3>2. r.ign \in [Pub -> Nat] /\ r.ign[p] - 1 \in Nat
      BY SMT, <1>1, <2>3 DEF NodeState
    <3>3. [r.ign EXCEPT ![p] = r.ign[p] - 1] \in [Pub -> Nat]
      BY <3>2
    <3>4. /\ t \in NodeState
          /\ t.st = r.st /\ t.iblt = Remove(r.iblt, {p})
          /\ t.ign = [r.ign EXCEPT ![p] = r.ign[p] - 1]
          /\ t.cbs = r.cbs /\ t.seen = r.seen /\ t.told = r.told /\ t.pit = r.pit
          /\ t.out = r.out /\ t.soon = r.soon /\ t.up = r.up
      BY <1>1, <2>3, <3>1, <3>3 DEF NodeState
    <3>5. /\ t.ign[p] = r.ign[p] - 1
          /\ \A q \in Pub \ {p} : t.ign[q] = r.ign[q]
      BY <3>2, <3>4
    <3>6. /\ t.iblt[p] = r.iblt[p] - 1
          /\ \A q \in Pub \ {p} : t.iblt[q] = r.iblt[q]
      BY <1>5, <3>4
    <3> QED BY <2>3, <3>4, <3>5, <3>6
  <2> QED BY <1>3, <2>1, <2>2, <2>3
<1>13. t.cbs = r.cbs
  BY <1>6
<1>14. \A q \in Pub \ {p} : t.st[q] = r.st[q] /\ t.ign[q] = r.ign[q] /\ t.iblt[q] = r.iblt[q]
  BY <1>6
<1>7. Consistent(t)
  <2> SUFFICES ASSUME NEW q \in Pub
               PROVE  /\ t.iblt[q] = (IF t.st[q] \in Active THEN 1 ELSE 0) + t.ign[q]
                      /\ q \in t.cbs => t.st[q] = "local"
    BY DEF Consistent
  <2>1. CASE q = p
    <3>1. CASE r.st[p] \in Active /\ p \notin r.cbs /\ t.st[p] = "held"
               /\ t.ign[p] = r.ign[p] /\ t.iblt[p] = r.iblt[p] - 1
      <4>1. t.st[p] \notin Active /\ r.iblt[p] = 1 + r.ign[p] /\ r.ign[p] \in Nat
        BY <1>2, <3>1 DEF Active
      <4>2. p \notin t.cbs
        BY <1>13, <3>1
      <4> QED BY SMT, <2>1, <3>1, <4>1, <4>2
    <3>2. CASE r.st[p] = "held" /\ p \notin r.cbs /\ t.st[p] = "gone"
               /\ t.ign[p] = r.ign[p] /\ t.iblt[p] = r.iblt[p]
      BY <1>2, <1>13, <2>1, <3>2 DEF Active
    <3>3. CASE r.ign[p] > 0 /\ t.st[p] = r.st[p]
               /\ t.ign[p] = r.ign[p] - 1 /\ t.iblt[p] = r.iblt[p] - 1
      BY SMT, <1>2, <1>13, <2>1, <3>3
    <3> QED BY <1>6, <3>1, <3>2, <3>3
  <2>2. CASE q # p
    BY <1>1, <1>13, <1>14, <2>2 DEF Local, Consistent
  <2> QED BY <2>1, <2>2
<1>8. Origin(n, t)
  <2> SUFFICES ASSUME NEW q \in Pub
               PROVE  /\ t.st[q] = "local" => q \in OwnPubs[n]
                      /\ t.st[q] = "net" \/ t.ign[q] > 0 => q \in t.seen
                      /\ q \in t.cbs \/ t.st[q] = "none" => t.told[q] = "none"
    BY DEF Origin
  <2>1. /\ r.st[q] = "local" => q \in OwnPubs[n]
        /\ r.st[q] = "net" \/ r.ign[q] > 0 => q \in r.seen
        /\ q \in r.cbs \/ r.st[q] = "none" => r.told[q] = "none"
    BY <1>1 DEF Local, Origin
  <2>2. CASE q = p
    BY <1>2, <1>6, <2>1, <2>2
  <2>3. CASE q # p
    BY <1>6, <2>1, <2>3
  <2> QED BY <2>2, <2>3
<1>9. Outgoing(n, t)
  <2>1. HasOf(n, r) \subseteq HasOf(n, t)
    BY <1>6, OwnAssumption DEF HasOf, Active
  <2> QED BY <1>1, <1>6, <2>1 DEF Local, Outgoing
<1>10. Alive(t)
  <2>1. \A m \in Name : Covers(r, m) => Covers(t, m)
    <3> SUFFICES ASSUME NEW m \in Name, Covers(r, m), NEW q \in Pub,
                        t.st[q] = "local"
                 PROVE  m[q] >= t.iblt[q]
      BY DEF Covers
    <3>1. m[q] \in Nat /\ r.iblt[q] \in Nat /\ (r.st[q] = "local" => m[q] >= r.iblt[q])
      BY <1>2 DEF Covers, Name, Iblt
    <3>2. r.st[q] = "local" /\ (t.iblt[q] = r.iblt[q] \/ t.iblt[q] = r.iblt[q] - 1)
      BY <1>6
    <3>3. CASE t.iblt[q] = r.iblt[q]
      BY <3>1, <3>2, <3>3
    <3>4. CASE t.iblt[q] = r.iblt[q] - 1
      BY SMT, <3>1, <3>2, <3>4
    <3> QED BY <3>2, <3>3, <3>4
  <2>2. Expressed(r.pit) \subseteq Name
    BY <1>1, <1>2, PitTypes DEF NodeState, Name
  <2> QED BY <1>1, <1>6, <2>1, <2>2 DEF Alive
<1>11. Moves(n, r, t, names, {}, {})
  BY <1>1, <1>6 DEF Moves, NetIn, Active
<1>12. Reached(n, t, {}, {}, {})
  BY <1>3, <1>6, <1>7, <1>8, <1>9, <1>10, <1>11 DEF Reached, Local, r, names
<1> QED BY SMT, <1>12, Reaching

\* Every step is an event's permitted change or the loss of a packet.
LEMMA NextSteps ==
    ASSUME IInv, Next
    PROVE  (\E n \in Node : LocalStep(n)) \/ (\E k \in net : Lose(k))
BY StartStep, CStateTimerStep, PitTimeoutStep, RecvCStateStep, RecvUnwantedStep,
   RecvInvalidStep, RecvCAddStep, PublishStep, DeliveryTimeoutStep, LifetimeStep
   DEF Next, Receive

\* Losing packets preserves the inductive invariant.
LEMMA LoseInv == ASSUME IInv, node' = node, net' \subseteq net PROVE IInv'
<1>1. node' = node /\ net' \subseteq net
  OBVIOUS
<1>2. \A n \in Node : Has(n)' = Has(n)
  BY <1>1 DEF Has
<1>3. \A n, m : Vouched(n, m)' <=> Vouched(n, m)
  BY <1>2 DEF Vouched
<1>4. TypeOK' /\ ConfirmTruthful'
  BY <1>1 DEF IInv, TypeOK, ConfirmTruthful
<1>5. NodesInv'
  BY <1>1, <1>3 DEF IInv, NodesInv
<1>6. NetInv'
  BY <1>1, <1>2, <1>3 DEF IInv, NetInv
<1> QED BY <1>4, <1>5, <1>6 DEF IInv

\* Every step preserves the inductive invariant.
LEMMA NextInv == IInv /\ [Next]_vars => IInv'
<1> SUFFICES ASSUME IInv, [Next]_vars PROVE IInv'
  OBVIOUS
<1>1. CASE Next
  <2>1. ASSUME NEW n \in Node, LocalStep(n) PROVE IInv'
    <3>1. PICK t \in NodeState, taken \in SUBSET Pub, late \in SUBSET Pub,
               used \in SUBSET net : Reached(n, t, taken, late, used)
      BY <2>1 DEF LocalStep
    <3> QED BY <3>1, StepInv DEF Reached
  <2>2. ASSUME NEW k \in net, Lose(k) PROVE IInv'
    BY <2>2, LoseInv DEF Lose
  <2> QED BY <1>1, <2>1, <2>2, NextSteps
<1>2. CASE UNCHANGED vars
  BY <1>2, LoseInv DEF vars
<1> QED BY <1>1, <1>2

\* IInv is an invariant of the protocol, for any number of nodes and publications
\* and each of the networks.
THEOREM Invariance == Spec => []IInv
BY InitInv, NextInv, PTL DEF Spec

\* Every reachable state is well typed; in particular no count of an iblt becomes
\* negative (IBLT::erase only removes hashes that are in the iblt).
THEOREM TypeCorrect == Spec => []TypeOK
<1>1. IInv => TypeOK
  BY DEF IInv
<1> QED BY <1>1, Invariance, PTL

\* A delivery callback is called with 'true' only if another node took the
\* publication out of a cAdd (handleCState, doDeliveryCb).
THEOREM ConfirmationsTruthful == Spec => []ConfirmTruthful
<1>1. IInv => ConfirmTruthful
  BY DEF IInv
<1> QED BY <1>1, Invariance, PTL

\* Map and iblt agree up to the running ignorePub timers, and whatever awaits a
\* delivery callback is local and active (Collection, pubCbs_).
THEOREM CollectionsConsistent == Spec => []CollectionConsistent
<1>1. IInv => CollectionConsistent
  BY DEF IInv, NodesInv, Local, Consistent, CollectionConsistent
<1> QED BY <1>1, Invariance, PTL

\* A started node always has a cState pending or scheduled (sendCState).
THEOREM RefreshNeverStops == Spec => []RefreshAlive
<1>1. IInv => RefreshAlive
  BY DEF IInv, NodesInv, Alive, RefreshAlive
<1> QED BY <1>1, Invariance, PTL

-----------------------------------------------------------------------------
\* The cStates that are answered do not include one whose deletion is deferred, so its
\* entry stays (pendingInterests, send).
LEMMA DeferredKept ==
    ASSUME NEW q \in Pit, NEW m \in Name, m \in Expressed(q)
    PROVE  \A S \in SUBSET PendingInterests(PitDefer(q, m)) : m \in Expressed(PitErase(PitDefer(q, m), S))
<1> DEFINE D(e) == [e EXCEPT !.ded = TRUE]
           d == PitDefer(q, m)
<1>1. \A e \in q : D(e).ded /\ D(e).name = e.name
  BY DEF Pit, PitEntry
<1>2. d = {IF e.name = m THEN D(e) ELSE e : e \in q}
  BY DEF PitDefer
<1> HIDE DEF D, d
<1>3. \A e \in d : e.name = m => e.ded
  BY <1>1, <1>2
<1>4. m \notin PendingInterests(d)
  BY <1>3 DEF PendingInterests
<1>5. d \in Pit /\ m \in Expressed(d)
  BY PitTypes, PitFrames DEF d
<1>6. \A S : Expressed(d) \ S \subseteq Expressed(PitErase(d, S))
  BY <1>5, PitFrames
<1> QED BY <1>4, <1>5, <1>6 DEF d

\* onCAdd erases no PIT entry but those of the pending interests that it answers.
LEMMA OnCAddPit ==
    ASSUME NEW s \in NodeState, NEW accept \in SUBSET Pub, NEW ignore \in SUBSET Pub,
           NEW replies \in SUBSET Pub
    PROVE  \E S \in SUBSET PendingInterests(s.pit) :
              OnCAdd(s, accept, ignore, replies).pit = PitErase(s.pit, S)
<1> DEFINE a1 == AddToActive(s, accept, "net")
           a2 == IgnorePubs(a1, ignore)
           a == AddToActive(a2, replies, "local")
           b == [a EXCEPT !.cbs = @ \cup (replies \cap WithCb), !.seen = @ \cup accept \cup ignore]
           c == IF replies # {} THEN HandlePending(b) ELSE b
           answer == {m \in PendingInterests(b.pit) : OursFor(b, m) # {}}
<1>1. a1 \in NodeState /\ a1.pit = s.pit
  BY SMT, AddToActiveFields DEF Status
<1> HIDE DEF a1
<1>2. a2 \in NodeState /\ a2.pit = s.pit
  BY SMT, <1>1, IgnorePubsFields
<1> HIDE DEF a2
<1>3. a \in NodeState /\ a.pit = s.pit
  BY SMT, <1>2, AddToActiveFields DEF Status
<1> HIDE DEF a
<1>4. b \in NodeState /\ b.pit = s.pit
  <2>1. a.cbs \cup (replies \cap WithCb) \in SUBSET Pub /\ a.seen \cup accept \cup ignore \in SUBSET Pub
    BY <1>3 DEF NodeState
  <2> QED BY <1>3, <2>1 DEF NodeState
<1> HIDE DEF b
<1>5. PendingInterests(b.pit) \in SUBSET Name
  <2>1. b.iblt \in Name /\ b.pit \in Pit
    BY <1>4 DEF NodeState, Name
  <2> QED BY <2>1, PitTypes
<1>6. HandlePending(b) \in NodeState /\ HandlePending(b).pit = PitErase(b.pit, answer)
  <2> DEFINE names == PendingInterests(b.pit)
             acked == UNION {Acked(b.iblt, b.cbs, m) : m \in names}
             both == {m \in names : HeldFor(b, m) # {} /\ Need(b.iblt, m) # {}}
             sent == {CAdd(m, Newest(OursFor(b, m))) : m \in answer}
             e == DoDeliveryCb(b, acked, "arrived")
  <2>1. HandlePending(b) \in NodeState
    BY <1>4, <1>5, HandleCStatesType DEF HandlePending
  <2>2. HandlePending(b) = [e EXCEPT !.soon = @ \/ both # {}, !.pit = PitErase(@, answer), !.out = @ \cup sent]
    BY DEF HandlePending, HandleCStates
  <2>3. e \in NodeState /\ e.pit = b.pit
    BY <1>4, DoDeliveryCbType DEF DoDeliveryCb, NodeState, Told
  <2> HIDE DEF e, both, answer, sent
  <2> QED BY <2>1, <2>2, <2>3 DEF NodeState
<1>7. PitErase(b.pit, {}) = b.pit
  BY DEF PitErase
<1>8. c \in NodeState /\ \E S \in SUBSET PendingInterests(s.pit) : c.pit = PitErase(s.pit, S)
  BY <1>4, <1>6, <1>7
<1>9. OnCAdd(s, accept, ignore, replies) = [c EXCEPT !.soon = TRUE]
  BY DEF OnCAdd, c, b, a, a2, a1
<1> HIDE DEF c
<1>10. OnCAdd(s, accept, ignore, replies).pit = c.pit
  BY <1>8, <1>9 DEF NodeState
<1> QED BY <1>8, <1>10

\* The PIT entry whose callback runs onCAdd is still there when onCAdd returns.
LEMMA RecvCAddKeeps ==
    ASSUME IInv, NEW n \in Node, NEW k \in net, RecvCAdd(n, k)
    PROVE  k.pkt.name \in Expressed(node'[n].pit)
<1> DEFINE s == [node[n] EXCEPT !.pit = PitDefer(@, k.pkt.name)]
           new == {p \in k.pkt.pubs : s.st[p] \notin Present}
           gone == {p \in new : s.st[p] = "gone"}
<1>1. node[n] \in NodeState /\ node \in [Node -> NodeState]
  BY DEF IInv, TypeOK
<1>2. k.pkt.name \in Name /\ k.pkt.name \in Expressed(node[n].pit)
  BY PacketTypes DEF RecvCAdd, Wanted
<1>3. s \in NodeState
  <2>1. s = [node[n] EXCEPT !.pit = PitDefer(@, k.pkt.name)]
    OBVIOUS
  <2> HIDE DEF s
  <2> QED BY <1>2, <2>1, DeferFacts
<1>4. node[n].pit \in Pit /\ s.pit = PitDefer(node[n].pit, k.pkt.name)
  BY <1>1 DEF NodeState
<1>5. PICK bad \in SUBSET (new \cap Doubtful), replies \in SUBSET OwnPubs[n] :
         Step(n, OnCAdd(s, new \ (bad \cup gone), bad \cup gone, replies), {k})
  BY DEF RecvCAdd
<1>6. new \subseteq Pub /\ replies \subseteq Pub
  BY PacketTypes, OwnAssumption DEF RecvCAdd, Wanted
<1> HIDE DEF s
<1> DEFINE ignore == bad \cup gone
           accept == new \ ignore
           t == OnCAdd(s, accept, ignore, replies)
<1>7. accept \in SUBSET Pub /\ ignore \in SUBSET Pub /\ replies \in SUBSET Pub
  BY <1>6
<1>8. node'[n] = [t EXCEPT !.out = {}]
  BY <1>1, <1>5 DEF Step
<1> HIDE DEF new, accept, ignore
<1>9. PICK S \in SUBSET PendingInterests(s.pit) : t.pit = PitErase(s.pit, S)
  <2>1. \E S \in SUBSET PendingInterests(s.pit) : t.pit = PitErase(s.pit, S)
    BY <1>3, <1>7, OnCAddPit
  <2> QED BY <2>1
<1>10. k.pkt.name \in Expressed(t.pit)
  BY <1>2, <1>4, <1>9, DeferredKept
<1>11. node'[n].pit = t.pit
  BY SMT, <1>8
<1> QED BY <1>10, <1>11

\* No handler erases the PIT entry whose callback it is, whatever the callback publishes
\* and answers (handleData, onCAdd, send).
THEOREM CallbacksSafe == Spec => CallbackSafe
<1>1. IInv => (\A n \in Node : \A k \in net :
                  RecvCAdd(n, k) => k.pkt.name \in Expressed(node'[n].pit))
  BY RecvCAddKeeps
<1> QED BY <1>1, Invariance, PTL DEF CallbackSafe

-----------------------------------------------------------------------------
\* Initially the service has published and delivered nothing.
LEMMA InitRefines == Init => Abstract!Init
<1> SUFFICES ASSUME Init PROVE Abstract!Init
  OBVIOUS
<1>1. \A n \in Node : /\ node[n].seen = {} /\ node[n].told = [p \in Pub |-> "none"]
                      /\ node[n].st = [p \in Pub |-> "none"]
  BY DEF Init, InitNode
<1>2. \A n \in Node : Has(n) = {}
  BY SMT, <1>1, OwnAssumption DEF Has
<1> QED BY <1>1, <1>2 DEF Abstract!Init, has, told

\* A permitted change of a node is an event of the service.
LEMMA LocalStepRefines ==
    ASSUME IInv, NEW n \in Node, LocalStep(n)
    PROVE  Abstract!Next
<1>1. PICK t \in NodeState, taken \in SUBSET Pub, late \in SUBSET Pub,
           used \in SUBSET net : Reached(n, t, taken, late, used)
  BY DEF LocalStep
<1> DEFINE r == node[n]
           u == [t EXCEPT !.out = {}]
           new == {p \in OwnPubs[n] : r.st[p] = "none" /\ t.st[p] # "none" /\ p \notin r.seen}
           got == (t.seen \ r.seen)
           arr == {p \in OwnPubs[n] : r.told[p] # t.told[p] /\ t.told[p] = "arrived"}
           out == {p \in OwnPubs[n] : r.told[p] # t.told[p] /\ t.told[p] = "timeout"}
<1>2. r \in NodeState /\ node \in [Node -> NodeState] /\ OwnPubs[n] \subseteq Pub
  BY OwnAssumption DEF IInv, TypeOK
<1>3. u.seen = t.seen /\ u.told = t.told /\ u.st = t.st
  BY DEF NodeState
<1>4. node' = [node EXCEPT ![n] = u]
  BY <1>1 DEF Reached, Step
<1>5. /\ has[n] = Has(n) /\ told[n] = r.told
      /\ has' = [has EXCEPT ![n] = HasOf(n, t)]
      /\ told' = [told EXCEPT ![n] = t.told]
  BY <1>2, <1>3, <1>4 DEF has, told, Has, HasOf
<1>6. Moves(n, r, t, {m \in Name : Vouched(n, m)}, taken, late)
  BY <1>1 DEF Reached
<1> HIDE DEF r, u
<1>7. Abstract!Elsewhere(n) = UNION {Has(m) : m \in Node \ {n}}
  BY DEF Abstract!Elsewhere, has
<1>8. /\ new \in SUBSET OwnPubs[n] /\ got \in SUBSET Pub
      /\ arr \in SUBSET OwnPubs[n] /\ out \in SUBSET OwnPubs[n]
  BY <1>2 DEF NodeState
<1>9. /\ new \subseteq OwnPubs[n] \ has[n]
      /\ got \subseteq Abstract!Elsewhere(n)
  BY <1>1, <1>5, <1>6, <1>7 DEF Reached, Moves, Has, r
<1>10. /\ arr \subseteq OwnPubs[n] \cap Abstract!Elsewhere(n)
       /\ out \subseteq OwnPubs[n] \cap has[n]
       /\ \A p \in arr \cup out : told[n][p] = "none"
  <2>1. ASSUME NEW p \in arr \cup out
        PROVE  /\ p \in OwnPubs[n] /\ r.told[p] = "none"
               /\ \/ /\ t.told[p] = "arrived"
                     /\ \E m \in {x \in Name : Vouched(n, x)} : m[p] >= 1
                  \/ t.told[p] = "timeout" /\ r.st[p] = "local"
    BY <1>2, <1>6 DEF Moves
  <2>2. arr \subseteq Abstract!Elsewhere(n)
    BY <1>2, <1>7, <2>1 DEF Vouched
  <2>3. out \subseteq has[n]
    BY <1>5, <2>1 DEF Has, r
  <2> QED BY <1>5, <2>1, <2>2, <2>3
<1>11. HasOf(n, t) = (has[n] \cup new) \cup got
  BY <1>2, <1>5, <1>6 DEF Moves, Has, HasOf, r
<1>12. t.told = [p \in Pub |-> IF p \in arr THEN "arrived"
                               ELSE IF p \in out THEN "timeout" ELSE told[n][p]]
  <2>1. \A p \in Pub : t.told[p] = IF p \in arr THEN "arrived"
                                   ELSE IF p \in out THEN "timeout" ELSE r.told[p]
    BY <1>6 DEF Moves
  <2>2. t.told \in [Pub -> Told]
    BY DEF NodeState
  <2> HIDE DEF arr, out
  <2> QED BY <1>5, <2>1, <2>2
<1> HIDE DEF new, got, arr, out
<1>13. Abstract!Event(n, new, got, arr, out)
  BY <1>5, <1>9, <1>10, <1>11, <1>12 DEF Abstract!Event
<1> QED BY <1>8, <1>13 DEF Abstract!Next

\* Every step of the protocol is a step of the service or changes none of its
\* variables.
LEMMA NextRefines == IInv /\ [Next]_vars => [Abstract!Next]_(Abstract!vars)
<1> SUFFICES ASSUME IInv, [Next]_vars PROVE [Abstract!Next]_(Abstract!vars)
  OBVIOUS
<1>1. ASSUME node' = node PROVE UNCHANGED <<has, told>>
  BY <1>1 DEF has, told, Has
<1>2. CASE Next
  BY <1>1, <1>2, NextSteps, LocalStepRefines DEF Lose, Abstract!vars
<1>3. CASE UNCHANGED vars
  BY <1>1, <1>3 DEF vars, Abstract!vars
<1> QED BY <1>2, <1>3

\* The protocol of syncps.hpp over direct.hpp implements the publication service
\* of PubSub, for any number of nodes and publications.
THEOREM Refinement == Spec => ImplementsPubSub
BY InitRefines, NextRefines, Invariance, PTL DEF Spec, ImplementsPubSub, Abstract!Spec
=============================================================================
