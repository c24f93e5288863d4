-------------------------- MODULE DistGKey_node_proofs --------------------------
(***************************************************************************)
(* What the operations of a group key distributor do to the state of their *)
(* node: the first part of the proofs about DistGKey, on which those in    *)
(* DistGKey_proofs rest.                                                   *)
(*                                                                         *)
(* Goes says what a subscription callback may do, Takes and Makes what     *)
(* becomes of a key, Acts what a whole event may do. Each operation of the *)
(* distributor is shown to keep NodeOK, how a node's fields and            *)
(* publications belong together, and to be of one of these kinds.          *)
(***************************************************************************)
EXTENDS DistGKey, FiniteSetTheorems, TLAPS

\* Zenon proves the leaves that do not name another prover.
USE Zenon

\* A group key: who made it and when
Key == [km : Node, ct : Nat \ {0}]

\* The Publications of the distributor: parts of a key list, ...
KeyList == [type : {"gk"}, from : Node, epoch : {1}, lo : Node, hi : Node, ct : Nat \ {0},
            key : Key, tps : SUBSET Node]

\* ... membership requests, ...
Request == [type : {"mr"}, from : Node]

\* ... candidacies and election results
Ballot == [type : {"cand", "elec"}, from : Node, epoch : Nat]

Post == KeyList \cup Request \cup Ballot

\* The type of a node's state
State == [up : BOOLEAN, el : [priority : Int, epoch : Nat], electing : BOOLEAN,
          keyMaker : BOOLEAN, KMepoch : Nat, init : BOOLEAN, mrPending : BOOLEAN,
          kmtp : Node \cup {0}, curKeyCT : Nat, curKey : Key \cup {NoKey}, mbrList : SUBSET Node,
          subGk : BOOLEAN, subMr : BOOLEAN, rekey : BOOLEAN, coll : SUBSET Post, out : SUBSET Post,
          conf : SUBSET Post, met : SUBSET Node, offered : SUBSET Key]

\* Key lists come from candidates, with a key of their own, and requests from members.
PostOK(p) ==
    /\ p \in Post
    /\ p.type = "gk" => Pri[p.from] > 0 /\ p.key = [km |-> p.from, ct |-> p.ct]
    /\ p.type = "mr" => IsSubr(p.from)

\* The node has asked to be a member, and listens to the key lists.
Asked(t) == t.subGk /\ (t.mrPending \/ ~t.init)

\* A node that is not up, or whose election is not over, has nothing yet.
Fresh(t) ==
    /\ t.init /\ ~t.keyMaker /\ ~t.subMr /\ ~t.mrPending /\ ~t.rekey
    /\ t.curKeyCT = 0 /\ t.curKey = NoKey /\ t.KMepoch = 0 /\ t.kmtp = 0
    /\ t.conf = {} /\ t.mbrList = {}

\* The keys of a node
KeyOK(n, t) ==
    /\ ~t.subGk => Fresh(t)
    /\ t.keyMaker => Candidate(n) /\ t.KMepoch = 1
    /\ t.curKeyCT # 0 => t.curKey # NoKey
    /\ t.keyMaker /\ t.curKeyCT # 0 => t.curKey = [km |-> n, ct |-> t.curKeyCT]
    /\ t.conf # {} => scheme.kind = "SG" /\ t.curKey # NoKey
    /\ ~t.init => t.curKey # NoKey /\ (scheme.kind = "GK" /\ t.keyMaker => t.mbrList # {})
    /\ IsFiniteSet(t.mbrList) /\ n \notin t.mbrList

\* What it heard in an election that it has not lost
ElectionOK(n, t) ==
    Won(t.el) => /\ Candidate(n) /\ t.el.priority = Pri[n]
                 /\ t.electing => t.el.epoch = 0
                 /\ \A m \in t.met : Beats(n, m)

\* What it sends, and has got from others
PostsOK(n, t) ==
    /\ \A p \in t.out : PostOK(p) /\ p.from = n /\ (p.type = "mr" => Asked(t))
    /\ \A p \in t.coll : PostOK(p) /\ p.from # n
    /\ IsFiniteSet(t.out) /\ IsFiniteSet(t.coll)

\* All that relates the fields of one node's state
NodeOK(n, t) ==
    /\ t \in State
    /\ t.subGk = (t.up /\ ~t.electing) /\ (t.electing => t.up /\ Candidate(n))
    /\ KeyOK(n, t) /\ ElectionOK(n, t) /\ PostsOK(n, t)

\* A key list with the key k for the member m
Covers(p, m, k) == p.type = "gk" /\ p.key = k /\ m \in p.tps /\ p.lo <= m /\ m <= p.hi

-------------------------------------------------------------------------------
\* Induction up to n: the strict subsets of 0..n are well-founded.
LEMMA UpTo ==
    ASSUME NEW n \in Nat, NEW S, 0 \in S, \A c \in 0..n - 1 : c \in S => c + 1 \in S
    PROVE  0..n \subseteq S
<1> DEFINE T == 0..n \ S
           U == {0..c : c \in T}
<1> SUFFICES ASSUME T # {} PROVE FALSE
  OBVIOUS
<1>1. U \subseteq FiniteSubsetsOf(Nat) /\ U # {}
  <2>1. \A c \in T : 0 \in Int /\ c \in Int BY SMT
  <2>2. \A c \in T : IsFiniteSet(0..c) BY <2>1, FS_Interval
  <2>3. \A c \in T : 0..c \subseteq Nat BY SMT
  <2> QED BY <2>2, <2>3 DEF FiniteSubsetsOf
<1>2. PICK X \in U : \A Y \in U : ~(<<Y, X>> \in StrictSubsetOrdering(Nat))
  <2> HIDE DEF U
  <2> QED BY <1>1, FS_StrictSubsetOrderingWellFounded, WFMin
<1>3. PICK c \in T : X = 0..c
  OBVIOUS
<1>4. c # 0 /\ c - 1 \in 0..n - 1
  BY SMT
<1>5. ASSUME c - 1 \in T PROVE FALSE
  <2>1. 0..c - 1 \in U BY <1>5
  <2>2. 0..c - 1 \subseteq 0..c /\ 0..c - 1 # 0..c /\ 0..c \subseteq Nat BY SMT, <1>4
  <2> QED BY <1>2, <1>3, <2>1, <2>2 DEF StrictSubsetOrdering
<1> QED BY SMT, <1>4, <1>5

\* The deliveries of a new subscription, one by one
LEMMA DeliveringDef ==
    ASSUME NEW n, NEW s, NEW o, NEW c \in Nat
    PROVE  LET st == Delivering(n, s, o, c)
           IN  st[0] = s /\ \A i \in 1..c : st[i] = Deliver(n, st[i - 1], o[i])
<1> DEFINE Is(g, k) == g = [i \in 0..k |-> IF i = 0 THEN s ELSE Deliver(n, g[i - 1], o[i])]
           S == {k \in 0..c : \E g : Is(g, k)}
<1>1. 0 \in S
  <2>1. Is([i \in 0..0 |-> s], 0) BY SMT
  <2> HIDE DEF Is
  <2> QED BY SMT, <2>1
<1>2. ASSUME NEW k \in 0..c - 1, k \in S PROVE k + 1 \in S
  <2>1. PICK g : Is(g, k) BY <1>2
  <2> DEFINE h == [i \in 0..k + 1 |-> IF i = k + 1 THEN Deliver(n, g[k], o[k + 1]) ELSE g[i]]
  <2>2. \A i \in 0..k : h[i] = g[i] BY SMT
  <2>3. h = [i \in 0..k + 1 |-> IF i = 0 THEN s ELSE Deliver(n, h[i - 1], o[i])]
    <3>1. SUFFICES ASSUME NEW i \in 0..k + 1
                   PROVE h[i] = IF i = 0 THEN s ELSE Deliver(n, h[i - 1], o[i])
      OBVIOUS
    <3>2. CASE i = k + 1
      <4>1. h[i] = Deliver(n, g[k], o[k + 1]) /\ i # 0 /\ i - 1 = k BY SMT, <3>2
      <4>2. g[k] = h[k] BY SMT, <2>2
      <4> QED BY <3>2, <4>1, <4>2
    <3>3. CASE i \in 0..k
      <4>1. h[i] = IF i = 0 THEN s ELSE Deliver(n, g[i - 1], o[i]) BY <2>1, <2>2, <3>3
      <4>2. i # 0 => h[i - 1] = g[i - 1] BY SMT, <2>2, <3>3
      <4> QED BY <4>1, <4>2
    <3> QED BY SMT, <3>2, <3>3
  <2>4. Is(h, k + 1) BY <2>3
  <2> HIDE DEF Is, h
  <2> QED BY SMT, <2>4
<1>3. c \in S
  <2> HIDE DEF S
  <2>1. 0..c \subseteq S BY <1>1, <1>2, UpTo
  <2> QED BY SMT, <2>1
<1>4. PICK g : Is(g, c) BY <1>3
<1> DEFINE st == Delivering(n, s, o, c)
<1>5. st = [i \in 0..c |-> IF i = 0 THEN s ELSE Deliver(n, st[i - 1], o[i])] BY <1>4 DEF Delivering
<1> HIDE DEF st
<1>6. st[0] = s BY SMT, <1>5
<1>7. \A i \in 1..c : st[i] = Deliver(n, st[i - 1], o[i])
  <2> SUFFICES ASSUME NEW i \in 1..c PROVE st[i] = Deliver(n, st[i - 1], o[i])
    OBVIOUS
  <2>1. i \in 0..c /\ i # 0 BY SMT
  <2> QED BY <1>5, <2>1
<1> QED BY <1>6, <1>7 DEF st

\* What every delivery preserves holds after a new subscription.
LEMMA AllDelivered ==
    ASSUME NEW n, NEW s, NEW type, IsFiniteSet(OfType(s, type)), NEW P, s \in P,
           \A t \in P, p \in OfType(s, type) : Deliver(n, t, p) \in P
    PROVE  AfterSubscribe(n, s, type) \subseteq P
<1> DEFINE S == OfType(s, type)
           c == Cardinality(S)
<1>1. c \in Nat BY FS_CardinalityType
<1> SUFFICES ASSUME NEW o \in Bijection(1..c, S) PROVE Delivering(n, s, o, c)[c] \in P
  BY DEF AfterSubscribe
<1> HIDE DEF c, S
<1>2. o \in [1..c -> S] BY DEF Bijection, Surjection
<1> DEFINE st == Delivering(n, s, o, c)
           I == {i \in 0..c : st[i] \in P}
<1>3. st[0] = s /\ \A i \in 1..c : st[i] = Deliver(n, st[i - 1], o[i]) BY SMT, <1>1, DeliveringDef
<1> HIDE DEF st
<1>4. 0 \in I BY SMT, <1>1, <1>3
<1>5. ASSUME NEW i \in 0..c - 1, i \in I PROVE i + 1 \in I
  <2>1. i + 1 \in 1..c /\ i + 1 - 1 = i /\ i + 1 \in 0..c BY SMT, <1>1
  <2>2. st[i + 1] = Deliver(n, st[i], o[i + 1]) BY SMT, <1>3, <2>1
  <2>3. o[i + 1] \in S BY <1>2, <2>1
  <2> QED BY <1>5, <2>1, <2>2, <2>3 DEF S
<1>6. c \in I
  <2> HIDE DEF I
  <2>1. 0..c \subseteq I BY <1>1, <1>4, <1>5, UpTo
  <2> QED BY SMT, <1>1, <2>1
<1> QED BY <1>6 DEF st

\* What the delivery of q brings about, and others preserve, holds after a new
\* subscription that gets q.
LEMMA OneDelivered ==
    ASSUME NEW n, NEW s, NEW type, IsFiniteSet(OfType(s, type)), NEW P, s \in P,
           \A t \in P, p \in OfType(s, type) : Deliver(n, t, p) \in P,
           NEW Q, NEW q \in OfType(s, type),
           \A t \in P : Deliver(n, t, q) \in Q,
           \A t \in P \cap Q, p \in OfType(s, type) : Deliver(n, t, p) \in Q
    PROVE  AfterSubscribe(n, s, type) \subseteq Q
<1> DEFINE S == OfType(s, type)
           c == Cardinality(S)
<1>1. c \in Nat BY FS_CardinalityType
<1> SUFFICES ASSUME NEW o \in Bijection(1..c, S) PROVE Delivering(n, s, o, c)[c] \in Q
  BY DEF AfterSubscribe
<1> HIDE DEF c, S
<1>2. o \in [1..c -> S] BY DEF Bijection, Surjection
<1>3. PICK j \in 1..c : o[j] = q BY DEF Bijection, Surjection, S
<1> DEFINE st == Delivering(n, s, o, c)
           I == {i \in 0..c : st[i] \in P /\ (i >= j => st[i] \in Q)}
<1>4. st[0] = s /\ \A i \in 1..c : st[i] = Deliver(n, st[i - 1], o[i]) BY SMT, <1>1, DeliveringDef
<1> HIDE DEF st
<1>5. 0 \in I BY SMT, <1>1, <1>4
<1>6. ASSUME NEW i \in 0..c - 1, i \in I PROVE i + 1 \in I
  <2>1. i + 1 \in 1..c /\ i + 1 - 1 = i /\ i + 1 \in 0..c BY SMT, <1>1
  <2>2. st[i + 1] = Deliver(n, st[i], o[i + 1]) BY SMT, <1>4, <2>1
  <2>3. o[i + 1] \in S BY <1>2, <2>1
  <2>4. st[i + 1] \in P BY <1>6, <2>2, <2>3 DEF S
  <2>5. CASE i + 1 = j BY <1>3, <1>6, <2>1, <2>2, <2>4, <2>5
  <2>6. CASE i >= j BY <1>6, <2>1, <2>2, <2>3, <2>4, <2>6 DEF S
  <2>7. CASE i + 1 < j BY SMT, <2>1, <2>4, <2>7
  <2> QED BY SMT, <1>1, <2>5, <2>6, <2>7
<1>7. c \in I
  <2> HIDE DEF I
  <2>1. 0..c \subseteq I BY <1>1, <1>5, <1>6, UpTo
  <2> QED BY SMT, <1>1, <2>1
<1> QED BY SMT, <1>1, <1>7 DEF st
-------------------------------------------------------------------------------
\* What a delivery may do to the state of a node: it may add members, each with its
\* key if there is one, and may make the node give up the role of key maker.
Goes(n, s, t) ==
    /\ NodeOK(n, t)
    /\ t.up = s.up /\ t.electing = s.electing /\ t.subGk = s.subGk /\ t.coll = s.coll
    /\ t.rekey = s.rekey /\ s.out \subseteq t.out /\ s.mbrList \subseteq t.mbrList
    /\ t.keyMaker => s.keyMaker /\ t.curKey = s.curKey /\ t.curKeyCT = s.curKeyCT
    /\ t.keyMaker /\ t.curKeyCT # 0 =>
          \A m \in t.mbrList \ s.mbrList : \E p \in t.out : Covers(p, m, t.curKey)
    /\ \A m \in t.mbrList \ s.mbrList : \E q \in s.coll : q.type = "mr" /\ q.from = m
    /\ \A p \in t.out \ s.out : p.type = "gk" => s.keyMaker /\ p.key = s.curKey
    /\ Asked(s) => Asked(t)

\* Nothing may be done, too.
LEMMA GoesSelf == ASSUME NEW n, NEW s, NodeOK(n, s) PROVE Goes(n, s, s)
BY DEF Goes

\* One delivery after the other
LEMMA GoesOn ==
    ASSUME NEW n, NEW s, NEW t, NEW u, Goes(n, s, t), Goes(n, t, u)
    PROVE  Goes(n, s, u)
<1>1. t.curKeyCT = u.curKeyCT \/ ~u.keyMaker BY DEF Goes
<1>2. ASSUME u.keyMaker, u.curKeyCT # 0, NEW m \in u.mbrList \ s.mbrList
      PROVE  \E p \in u.out : Covers(p, m, u.curKey)
  <2>1. CASE m \in t.mbrList
    <3>1. t.keyMaker /\ t.curKeyCT # 0 /\ t.curKey = u.curKey /\ t.out \subseteq u.out
      BY <1>2 DEF Goes
    <3>2. \E p \in t.out : Covers(p, m, t.curKey) BY <1>2, <2>1, <3>1 DEF Goes
    <3> QED BY <3>1, <3>2
  <2>2. CASE m \notin t.mbrList BY <1>2, <2>2 DEF Goes
  <2> QED BY <2>1, <2>2
<1>3. \A m \in u.mbrList \ s.mbrList : \E q \in s.coll : q.type = "mr" /\ q.from = m BY SMT DEF Goes
<1>4. \A p \in u.out \ s.out : p.type = "gk" => s.keyMaker /\ p.key = s.curKey BY DEF Goes
<1>5. s.mbrList \subseteq u.mbrList /\ s.out \subseteq u.out BY DEF Goes
<1> QED BY <1>2, <1>3, <1>4, <1>5 DEF Goes

\* publishMembershipReq
LEMMA Requested ==
    ASSUME NEW n \in Node, NEW s, NodeOK(n, s), s.subGk
    PROVE  Goes(n, s, PublishMembershipReq(n, s))
<1> DEFINE p == [type |-> "mr", from |-> n]
           t == [s EXCEPT !.mrPending = TRUE, !.out = @ \cup {p}]
<1>1. CASE ~IsSubr(n) BY <1>1, GoesSelf DEF PublishMembershipReq
<1>2. CASE IsSubr(n)
  <2>1. PublishMembershipReq(n, s) = t BY <1>2 DEF PublishMembershipReq
  <2>2. p \in Post /\ p.from = n /\ p.type = "mr" /\ p.type # "gk" BY DEF Post, Request
  <2>3. PostOK(p) BY <1>2, <2>2 DEF PostOK
  <2>4. s \in State BY DEF NodeOK
  <2> HIDE DEF p
  <2>5. t \in State BY <2>2, <2>4 DEF State
  <2>6. /\ t.mrPending /\ t.out = s.out \cup {p} /\ t.subGk = s.subGk /\ t.up = s.up /\ t.electing = s.electing
        /\ t.keyMaker = s.keyMaker /\ t.KMepoch = s.KMepoch /\ t.init = s.init /\ t.kmtp = s.kmtp
        /\ t.curKeyCT = s.curKeyCT /\ t.curKey = s.curKey /\ t.mbrList = s.mbrList /\ t.subMr = s.subMr
        /\ t.rekey = s.rekey /\ t.coll = s.coll /\ t.conf = s.conf /\ t.met = s.met /\ t.el = s.el
    BY <2>4 DEF State
  <2> HIDE DEF t
  <2>7. KeyOK(n, t) BY <2>6 DEF NodeOK, KeyOK
  <2>8. ElectionOK(n, t) BY <2>6 DEF NodeOK, ElectionOK
  <2>9. Asked(t) BY <2>6 DEF Asked
  <2>10. IsFiniteSet(t.out)
    <3>1. IsFiniteSet(s.out) BY DEF NodeOK, PostsOK
    <3> QED BY SMT, <2>6, <3>1, FS_AddElement
  <2>11. PostsOK(n, t) BY <2>2, <2>3, <2>6, <2>9, <2>10 DEF NodeOK, PostsOK
  <2>12. NodeOK(n, t) BY <2>5, <2>6, <2>7, <2>8, <2>11 DEF NodeOK
  <2> QED BY SMT, <2>1, <2>2, <2>6, <2>9, <2>12 DEF Goes
<1> QED BY <1>1, <1>2

\* The state of an election
El == [priority : Int, epoch : Nat]

\* handleKMcand: a candidate goes on only if it beats the other.
LEMMA CandFacts ==
    ASSUME NEW n \in Node, NEW el \in El, NEW p, p.from \in Node, p.epoch \in Nat, p.from # n
    PROVE  LET e == HandleKMcand(n, el, p)
           IN  /\ e \in El
               /\ Won(e) => e = el /\ (el.priority = Pri[n] /\ el.epoch = 0 => Beats(n, p.from))
<1>1. Pri[p.from] \in 0..9 /\ Pri[n] \in 0..9 /\ p.from \in Nat /\ n \in Nat BY NodeAssumption
<1>2. Lost(el) \in El /\ ~Won(Lost(el)) BY SMT DEF Lost, Won, El
<1> DEFINE w == WrongEpoch(el, p.epoch)
<1>3. w \in El /\ (Won(w) => w = el /\ p.epoch <= el.epoch)
  <2>1. CASE p.epoch > el.epoch
    <3> DEFINE l == Lost(el)
    <3>1. w = [l EXCEPT !.epoch = p.epoch] BY <2>1 DEF WrongEpoch
    <3> HIDE DEF l
    <3>2. w \in El /\ w.priority = l.priority BY <1>2, <3>1 DEF El, l
    <3> QED BY <1>2, <3>2 DEF Won, l
  <2>2. CASE ~(p.epoch > el.epoch) BY SMT, <2>2 DEF WrongEpoch, El
  <2> QED BY <2>1, <2>2
<1> HIDE DEF w
<1>4. el.priority \in Int /\ el.epoch \in Nat BY DEF El
<1>5. CASE el.priority <= 0 BY SMT, <1>4, <1>5 DEF HandleKMcand, Won
<1>6. CASE el.priority > 0 /\ Pri[p.from] = 0 BY <1>1, <1>4, <1>6 DEF HandleKMcand, Beats
<1>7. CASE el.priority > 0 /\ Pri[p.from] # 0 /\ p.epoch # el.epoch
  <2>1. HandleKMcand(n, el, p) = w BY SMT, <1>4, <1>7 DEF HandleKMcand, w
  <2> QED BY SMT, <1>3, <1>4, <1>7, <2>1
<1>8. CASE el.priority > 0 /\ Pri[p.from] # 0 /\ p.epoch = el.epoch
  <2> DEFINE better == Pri[p.from] > el.priority \/ (Pri[p.from] = el.priority /\ p.from > n)
  <2>1. CASE better
    <3>1. HandleKMcand(n, el, p) = Lost(el) BY SMT, <1>4, <1>8, <2>1 DEF HandleKMcand
    <3> QED BY <1>2, <3>1
  <2>2. CASE ~better
    <3>1. HandleKMcand(n, el, p) = el BY <1>4, <1>8, <2>2 DEF HandleKMcand
    <3>2. el.priority = Pri[n] => Beats(n, p.from) BY SMT, <1>1, <2>2 DEF Beats
    <3> QED BY <3>1, <3>2
  <2> QED BY <2>1, <2>2
<1> QED BY SMT, <1>4, <1>5, <1>6, <1>7, <1>8

\* handleKMelec
LEMMA ElecFacts ==
    ASSUME NEW el \in El, NEW p, p.epoch \in Nat
    PROVE  LET e == HandleKMelec(el, p) IN e \in El /\ (Won(e) => e = el)
<1> DEFINE l == Lost(el)
<1>1. l \in El /\ ~Won(l) BY SMT DEF Lost, Won, El
<1>2. CASE el.epoch >= p.epoch \/ Pri[p.from] = 0 BY <1>2 DEF HandleKMelec
<1>3. CASE ~(el.epoch >= p.epoch \/ Pri[p.from] = 0)
  <2>1. HandleKMelec(el, p) = [l EXCEPT !.epoch = p.epoch] BY <1>3 DEF HandleKMelec
  <2> HIDE DEF l
  <2> QED BY <1>1, <2>1 DEF El, Won
<1> QED BY <1>2, <1>3

\* A delivery that concerns the election only
LEMMA ElectionOnly ==
    ASSUME NEW n \in Node, NEW s, NodeOK(n, s), NEW e \in El, NEW M \in SUBSET Node,
           Won(e) => /\ e = s.el
                     /\ \A m \in M : m \in s.met \/ (s.electing /\ (e.priority = Pri[n] /\ e.epoch = 0 => Beats(n, m)))
    PROVE  Goes(n, s, [s EXCEPT !.el = e, !.met = M])
<1> DEFINE t == [s EXCEPT !.el = e, !.met = M]
<1>1. s \in State BY DEF NodeOK
<1>2. t \in State BY <1>1 DEF State, El
<1>3. /\ t.mrPending = s.mrPending /\ t.out = s.out /\ t.subGk = s.subGk /\ t.up = s.up /\ t.electing = s.electing
      /\ t.keyMaker = s.keyMaker /\ t.KMepoch = s.KMepoch /\ t.init = s.init /\ t.kmtp = s.kmtp
      /\ t.curKeyCT = s.curKeyCT /\ t.curKey = s.curKey /\ t.mbrList = s.mbrList /\ t.subMr = s.subMr
      /\ t.rekey = s.rekey /\ t.coll = s.coll /\ t.conf = s.conf /\ t.met = M /\ t.el = e
  BY <1>1 DEF State
<1> HIDE DEF t
<1>4. KeyOK(n, t) BY <1>3 DEF NodeOK, KeyOK, Fresh
<1>5. ElectionOK(n, t) BY SMT, <1>3 DEF NodeOK, ElectionOK
<1>6. PostsOK(n, t) BY SMT, <1>3 DEF NodeOK, PostsOK, Asked
<1>7. NodeOK(n, t) BY <1>2, <1>3, <1>4, <1>5, <1>6 DEF NodeOK
<1> QED BY <1>3, <1>7 DEF Goes, Asked, t

\* receiveGKeyList and receiveSGKeyRecords of a key maker
LEMMA Challenged ==
    ASSUME NEW n \in Node, NEW s, NodeOK(n, s), s.keyMaker, NEW p, p.from \in Node
    PROVE  /\ Goes(n, s, Challenge(n, s, p))
           /\ n < p.from => ~Challenge(n, s, p).keyMaker
<1> DEFINE t == [s EXCEPT !.keyMaker = FALSE, !.kmtp = p.from, !.subMr = FALSE]
<1>0. CASE ~(n < p.from) BY <1>0, GoesSelf DEF Challenge
<1>1. CASE n < p.from
  <2>1. s \in State /\ s.subGk BY DEF NodeOK, KeyOK, Fresh
  <2>2. t \in State BY <2>1 DEF State
  <2>3. /\ t.mrPending = s.mrPending /\ t.out = s.out /\ t.subGk = s.subGk /\ t.up = s.up /\ t.electing = s.electing
        /\ ~t.keyMaker /\ t.KMepoch = s.KMepoch /\ t.init = s.init
        /\ t.curKeyCT = s.curKeyCT /\ t.curKey = s.curKey /\ t.mbrList = s.mbrList
        /\ t.rekey = s.rekey /\ t.coll = s.coll /\ t.conf = s.conf /\ t.met = s.met /\ t.el = s.el
    BY <2>1 DEF State
  <2> HIDE DEF t
  <2>4. KeyOK(n, t) BY <2>1, <2>3 DEF NodeOK, KeyOK
  <2>5. ElectionOK(n, t) BY <2>3 DEF NodeOK, ElectionOK
  <2>6. PostsOK(n, t) BY <2>3 DEF NodeOK, PostsOK, Asked
  <2>7. NodeOK(n, t) BY <2>2, <2>3, <2>4, <2>5, <2>6 DEF NodeOK
  <2>8. Goes(n, s, t) BY <2>3, <2>7 DEF Goes, Asked
  <2>9. Goes(n, t, PublishMembershipReq(n, t)) BY <2>1, <2>3, <2>7, Requested
  <2>10. Challenge(n, s, p) = PublishMembershipReq(n, t) BY <1>1 DEF Challenge, t
  <2>11. ~PublishMembershipReq(n, t).keyMaker BY <2>3, <2>9 DEF Goes
  <2> QED BY <2>8, <2>9, <2>10, <2>11, GoesOn
<1> QED BY <1>0, <1>1

\* The key maker of the list is the one that s knows.
Known(s, p) == s.KMepoch = p.epoch /\ ~(s.kmtp < p.from)

\* What becomes of the epoch and the key maker that a node knows
LEMMA RecogniseFacts ==
    ASSUME NEW s \in State, NEW p \in KeyList
    PROVE  Recognise(s, p) = IF Known(s, p) THEN s
                             ELSE [s EXCEPT !.KMepoch = p.epoch, !.kmtp = p.from, !.curKeyCT = 0]
<1>0. p.from \in Node BY DEF KeyList
<1>1. p.from \in Nat \ {0} BY <1>0, NodeAssumption
<1> DEFINE e == [s EXCEPT !.KMepoch = p.epoch, !.kmtp = 0]
<1>2. CASE s.KMepoch = p.epoch
  <2>1. [s EXCEPT !.curKeyCT = 0, !.kmtp = p.from]
           = [s EXCEPT !.KMepoch = p.epoch, !.kmtp = p.from, !.curKeyCT = 0]
    BY <1>2 DEF State
  <2> QED BY <1>2, <2>1 DEF Recognise, Known
<1>3. CASE s.KMepoch # p.epoch
  <2>1. e.kmtp < p.from BY SMT, <1>1 DEF State
  <2>2. [e EXCEPT !.curKeyCT = 0, !.kmtp = p.from]
           = [s EXCEPT !.KMepoch = p.epoch, !.kmtp = p.from, !.curKeyCT = 0]
    BY DEF State
  <2> HIDE DEF e
  <2>3. Recognise(s, p) = [e EXCEPT !.curKeyCT = 0, !.kmtp = p.from] BY <1>3, <2>1 DEF Recognise, e
  <2> QED BY <1>3, <2>2, <2>3 DEF Known
<1> QED BY <1>2, <1>3

\* A node that is not a key maker, and may have taken a key
Takes(s, t) ==
    /\ t \in State
    /\ t.up = s.up /\ t.electing = s.electing /\ t.el = s.el /\ t.met = s.met
    /\ t.keyMaker = s.keyMaker /\ t.mbrList = s.mbrList /\ t.subGk = s.subGk /\ t.subMr = s.subMr
    /\ t.rekey = s.rekey /\ t.coll = s.coll /\ t.out = s.out
    /\ \/ /\ t.curKey = s.curKey /\ t.curKeyCT \in {0, s.curKeyCT} /\ t.init = s.init
          /\ t.mrPending = s.mrPending /\ t.conf = s.conf
       \/ /\ t.curKey \in Key /\ ~t.init /\ t.conf = {}

\* Taking a key from a list is one of the things a node may do (receiveGKeyList).
LEMMA TakesGoes ==
    ASSUME NEW n \in Node, NEW s, NodeOK(n, s), s.subGk, ~s.keyMaker, NEW t, Takes(s, t)
    PROVE  Goes(n, s, t)
<1>1. t.curKey \in Key => t.curKey # NoKey
  <2>1. t.curKey \in Key => t.curKey.km \in Node BY DEF Key
  <2>2. 0 \notin Node BY NodeAssumption
  <2> QED BY SMT, <2>1, <2>2 DEF NoKey
<1>2. KeyOK(n, t) BY <1>1 DEF Takes, NodeOK, KeyOK
<1>3. ElectionOK(n, t) BY DEF Takes, NodeOK, ElectionOK
<1>4. Asked(s) => Asked(t) BY DEF Takes, Asked
<1>5. PostsOK(n, t) BY <1>4 DEF Takes, NodeOK, PostsOK
<1>6. NodeOK(n, t) BY <1>2, <1>3, <1>5 DEF Takes, NodeOK
<1> QED BY <1>4, <1>6 DEF Takes, Goes

\* receiveGKeyList of a member, and receiveSGKeyRecords of a publisher
LEMMA TakeKeyTakes ==
    ASSUME NEW n \in Node, NEW s \in State, NEW p \in KeyList
    PROVE  Takes(s, TakeKey(n, s, p)) /\ Takes(s, TakePublicKey(n, s, p))
<1> DEFINE k == Recognise(s, p)
           o == [k EXCEPT !.offered = IF n \in p.tps THEN @ \cup {p.key} ELSE @]
           t == InitDone([o EXCEPT !.curKeyCT = p.ct, !.curKey = p.key, !.mrPending = FALSE])
           u == InitDone([k EXCEPT !.curKeyCT = p.ct, !.curKey = p.key])
<1>0. p.from \in Node /\ p.epoch \in Nat /\ p.ct \in Nat /\ p.key \in Key BY SMT DEF KeyList
<1>1. Takes(s, k)
  <2>1. CASE Known(s, p) BY <2>1, RecogniseFacts DEF Takes
  <2>2. CASE ~Known(s, p)
    <3> DEFINE r == [s EXCEPT !.KMepoch = p.epoch, !.kmtp = p.from, !.curKeyCT = 0]
    <3>1. k = r BY <2>2, RecogniseFacts
    <3>2. r \in State BY <1>0 DEF State
    <3>3. Takes(s, r) BY <3>2 DEF Takes, State
    <3> QED BY <3>1, <3>3
  <2> QED BY <2>1, <2>2
<1>2. k \in State BY <1>1 DEF Takes
<1> HIDE DEF k
<1>3. o \in State /\ Takes(k, o)
  <2>1. o \in State BY SMT, <1>0, <1>2 DEF State
  <2> QED BY SMT, <1>2, <2>1 DEF Takes, State
<1>4. Takes(s, o) BY <1>1, <1>3 DEF Takes
<1> HIDE DEF o
<1>5. Takes(s, t)
  <2>1. t \in State BY <1>0, <1>3 DEF State, InitDone
  <2>2. Takes(o, t) BY <1>0, <1>3, <2>1 DEF Takes, State, InitDone
  <2> HIDE DEF t
  <2> QED BY <1>4, <2>2 DEF Takes
<1>6. Takes(s, u)
  <2>1. u \in State BY <1>0, <1>2 DEF State, InitDone
  <2>2. Takes(k, u) BY <1>0, <1>2, <2>1 DEF Takes, State, InitDone
  <2> HIDE DEF u
  <2> QED BY <1>1, <2>2 DEF Takes
<1>7. TakeKey(n, s, p) \in {k, o, t} BY DEF TakeKey, k, o, t
<1>8. TakePublicKey(n, s, p) \in {k, u} BY DEF TakePublicKey, k, u
<1> QED BY <1>1, <1>4, <1>5, <1>6, <1>7, <1>8

\* A key list for the members in S, and a node that has published it
ListOf(n, t, lo, hi, S) == [type |-> "gk", from |-> n, epoch |-> t.KMepoch, lo |-> lo, hi |-> hi,
                            ct |-> t.curKeyCT, key |-> t.curKey, tps |-> S]

\* A further part of the key list is published
WithList(t, p) == [t EXCEPT !.out = @ \cup {p}]

\* publishKeyRange
LEMMA RangeFacts ==
    ASSUME NEW n \in Node, NEW t \in State, NEW lo \in Node, NEW hi \in Node, NEW S \in SUBSET Node,
           t.curKey = [km |-> n, ct |-> t.curKeyCT], t.curKeyCT # 0, t.KMepoch = 1, Pri[n] > 0
    PROVE  /\ ListOf(n, t, lo, hi, S) \in KeyList /\ PostOK(ListOf(n, t, lo, hi, S))
           /\ ListOf(n, t, lo, hi, S).from = n /\ ListOf(n, t, lo, hi, S).type = "gk"
           /\ ListOf(n, t, lo, hi, S).ct = t.curKeyCT
           /\ PublishKeyRange(n, t, lo, hi, S) = WithList(t, ListOf(n, t, lo, hi, S))
           /\ WithList(t, ListOf(n, t, lo, hi, S)) \in State
<1> DEFINE p == ListOf(n, t, lo, hi, S)
<1>1. t.curKeyCT \in Nat \ {0} BY DEF State
<1>2. t.curKey \in Key BY SMT, <1>1 DEF Key
<1>3. p \in KeyList BY <1>1, <1>2 DEF KeyList, ListOf
<1>4. p \in Post BY <1>3 DEF Post
<1>5. p.from = n /\ p.type = "gk" /\ p.key = [km |-> p.from, ct |-> p.ct] /\ p.ct = t.curKeyCT
  BY DEF ListOf
<1> HIDE DEF p
<1>6. PostOK(p) BY <1>4, <1>5 DEF PostOK
<1>7. PublishKeyRange(n, t, lo, hi, S) = WithList(t, p) BY DEF PublishKeyRange, WithList, ListOf, p
<1>8. WithList(t, p) \in State BY <1>4 DEF State, WithList
<1> QED BY <1>3, <1>5, <1>6, <1>7, <1>8 DEF p

\* addGroupMem: a new member
LEMMA Joined ==
    ASSUME NEW n \in Node, NEW s, NodeOK(n, s), s.keyMaker, NEW m \in Node, m # n,
           \E q \in s.coll : q.type = "mr" /\ q.from = m
    PROVE  Goes(n, s, Join(n, s, m)) /\ m \in Join(n, s, m).mbrList
<1> DEFINE t == [s EXCEPT !.mbrList = @ \cup {m}]
<1>1. s \in State /\ s.subGk /\ Pri[n] > 0 /\ s.KMepoch = 1
  BY DEF NodeOK, KeyOK, Fresh, Candidate
<1>2. t \in State BY <1>1 DEF State
<1>3. /\ t.mrPending = s.mrPending /\ t.out = s.out /\ t.subGk = s.subGk /\ t.up = s.up /\ t.electing = s.electing
      /\ t.keyMaker = s.keyMaker /\ t.KMepoch = s.KMepoch /\ t.init = s.init
      /\ t.curKeyCT = s.curKeyCT /\ t.curKey = s.curKey /\ t.mbrList = s.mbrList \cup {m}
      /\ t.rekey = s.rekey /\ t.coll = s.coll /\ t.conf = s.conf /\ t.met = s.met /\ t.el = s.el
  BY <1>1 DEF State
<1> HIDE DEF t
<1>4. IsFiniteSet(t.mbrList) BY SMT, <1>3, FS_AddElement DEF NodeOK, KeyOK
<1>5. KeyOK(n, t) BY SMT, <1>1, <1>3, <1>4 DEF NodeOK, KeyOK
<1>6. ElectionOK(n, t) BY <1>3 DEF NodeOK, ElectionOK
<1>7. PostsOK(n, t) BY <1>3 DEF NodeOK, PostsOK, Asked
<1>8. NodeOK(n, t) BY <1>2, <1>3, <1>5, <1>6, <1>7 DEF NodeOK
<1>9. CASE s.curKeyCT = 0
  <2>1. Join(n, s, m) = t BY <1>9 DEF Join, t
  <2>2. Goes(n, s, t) BY <1>3, <1>8, <1>9 DEF Goes, Asked
  <2> QED BY <1>3, <2>1, <2>2
<1>10. CASE s.curKeyCT # 0
  <2> DEFINE S == {m}
             p == ListOf(n, t, m, m, S)
             u == WithList(t, p)
             v == InitDone(u)
  <2>1. t.curKey = [km |-> n, ct |-> t.curKeyCT] /\ t.curKeyCT # 0 /\ t.KMepoch = 1
    BY <1>1, <1>3, <1>5, <1>10 DEF KeyOK
  <2>2. PostOK(p) /\ p.from = n /\ p.type = "gk" /\ u \in State /\ PublishKeyRange(n, t, m, m, S) = u
    <3>1. S \in SUBSET Node OBVIOUS
    <3> HIDE DEF S
    <3> QED BY SMT, <1>1, <1>2, <2>1, <3>1, RangeFacts
  <2>3. Join(n, s, m) = v BY <1>10, <2>2 DEF Join, t
  <2>4. Covers(p, m, t.curKey) /\ p.key = t.curKey
    <3>1. m <= m BY SMT, NodeAssumption
    <3> QED BY <3>1 DEF Covers, ListOf
  <2> HIDE DEF p
  <2>5. /\ u.mrPending = t.mrPending /\ u.out = t.out \cup {p} /\ u.subGk = t.subGk /\ u.up = t.up
        /\ u.electing = t.electing /\ u.keyMaker = t.keyMaker /\ u.KMepoch = t.KMepoch
        /\ u.curKeyCT = t.curKeyCT /\ u.curKey = t.curKey /\ u.mbrList = t.mbrList
        /\ u.rekey = t.rekey /\ u.coll = t.coll /\ u.met = t.met /\ u.el = t.el
    BY <1>2 DEF State, WithList
  <2> HIDE DEF u
  <2>6. v \in State
    <3>1. u \in State BY <2>2
    <3>2. InitDone(u) = [u EXCEPT !.init = FALSE, !.conf = {}] BY DEF InitDone
    <3> QED BY <3>1, <3>2 DEF State
  <2>7. /\ v.mrPending = t.mrPending /\ v.out = t.out \cup {p} /\ v.subGk = t.subGk /\ v.up = t.up
        /\ v.electing = t.electing /\ v.keyMaker = t.keyMaker /\ v.KMepoch = t.KMepoch
        /\ v.curKeyCT = t.curKeyCT /\ v.curKey = t.curKey /\ v.mbrList = t.mbrList
        /\ v.rekey = t.rekey /\ v.coll = t.coll /\ v.met = t.met /\ v.el = t.el
        /\ ~v.init /\ v.conf = {}
    BY SMT, <2>2, <2>5 DEF State, InitDone
  <2> HIDE DEF v
  <2>8. v.curKey # NoKey /\ v.mbrList # {} BY <1>3, <1>5, <2>1, <2>7 DEF KeyOK
  <2>9. KeyOK(n, v) BY <1>1, <1>3, <1>5, <2>7, <2>8 DEF KeyOK
  <2>10. ElectionOK(n, v) BY <1>6, <2>7 DEF ElectionOK
  <2>11. Asked(t) => Asked(v) BY <2>7 DEF Asked
  <2>12. IsFiniteSet(v.out) BY <1>7, <2>7, FS_AddElement DEF PostsOK
  <2>13. PostsOK(n, v) BY <1>7, <2>2, <2>7, <2>11, <2>12 DEF PostsOK
  <2>14. NodeOK(n, v) BY <1>8, <2>6, <2>7, <2>9, <2>10, <2>13 DEF NodeOK
  <2>15. Asked(s) => Asked(v) BY <1>3, <2>11 DEF Asked
  <2>16. \A l \in v.mbrList \ s.mbrList : \E q \in v.out : Covers(q, l, v.curKey)
    BY SMT, <1>3, <2>4, <2>7
  <2>17. \A l \in v.mbrList \ s.mbrList : \E q \in s.coll : q.type = "mr" /\ q.from = l
    BY <1>3, <2>7
  <2>18. \A l \in v.out \ s.out : l.key = s.curKey BY <1>3, <2>4, <2>7
  <2>19. Goes(n, s, v) BY <1>3, <2>7, <2>14, <2>15, <2>16, <2>17, <2>18 DEF Goes
  <2> QED BY <1>3, <2>3, <2>7, <2>19
<1> QED BY <1>9, <1>10

\* The kinds of publications
LEMMA PostKinds ==
    ASSUME NEW p \in Post
    PROVE  /\ p.from \in Node /\ p.type \in {"gk", "mr", "cand", "elec"}
           /\ p.type = "gk" => p \in KeyList
           /\ p.type \in {"cand", "elec"} => p.epoch \in Nat
<1>1. CASE p \in KeyList BY <1>1 DEF KeyList
<1>2. CASE p \in Request BY <1>2 DEF Request
<1>3. CASE p \in Ballot BY <1>3 DEF Ballot
<1> QED BY <1>1, <1>2, <1>3 DEF Post

\* The callbacks of the subscriptions
LEMMA DeliverGoes ==
    ASSUME NEW n \in Node, NEW s, NodeOK(n, s), NEW p \in s.coll
    PROVE  /\ Goes(n, s, Deliver(n, s, p))
           /\ p.type = "gk" /\ s.subGk /\ n < p.from => ~Deliver(n, s, p).keyMaker
<1> DEFINE d == Deliver(n, s, p)
<1>1. /\ p \in Post /\ p.from \in Node /\ p.type \in {"gk", "mr", "cand", "elec"}
      /\ p.type = "gk" => p \in KeyList
      /\ p.type \in {"cand", "elec"} => p.epoch \in Nat
      /\ PostOK(p) /\ p.from # n
  <2>1. PostOK(p) /\ p.from # n BY DEF NodeOK, PostsOK
  <2> QED BY <2>1, PostKinds DEF PostOK
<1>2. s \in State /\ s.el \in El /\ s.met \in SUBSET Node BY DEF NodeOK, State, El
<1>3. Goes(n, s, s) BY GoesSelf
<1>4. CASE p.type \in {"cand", "elec"} /\ ~Candidate(n)
  <2>1. d = s BY <1>4 DEF Deliver
  <2> QED BY <1>3, <1>4, <2>1
<1>5. CASE p.type = "cand" /\ Candidate(n)
  <2> DEFINE e == HandleKMcand(n, s.el, p)
             M == IF s.electing THEN s.met \cup {p.from} ELSE s.met
  <2>1. d = [s EXCEPT !.el = e, !.met = M] BY <1>5 DEF Deliver
  <2>2. e \in El /\ (Won(e) => e = s.el /\ (s.el.priority = Pri[n] /\ s.el.epoch = 0 => Beats(n, p.from)))
    BY <1>1, <1>2, <1>5, CandFacts
  <2> HIDE DEF e
  <2>3. M \in SUBSET Node BY <1>1, <1>2
  <2>4. \A m \in M : m \in s.met \/ (s.electing /\ m = p.from) OBVIOUS
  <2> HIDE DEF M
  <2>5. Goes(n, s, [s EXCEPT !.el = e, !.met = M]) BY <2>2, <2>3, <2>4, ElectionOnly
  <2> QED BY <1>5, <2>1, <2>5
<1>6. CASE p.type = "elec" /\ Candidate(n)
  <2> DEFINE e == HandleKMelec(s.el, p)
             M == s.met
  <2>1. d = [s EXCEPT !.el = e] BY <1>6 DEF Deliver
  <2>2. e \in El /\ (Won(e) => e = s.el) BY <1>1, <1>2, <1>6, ElecFacts
  <2> HIDE DEF e
  <2>3. [s EXCEPT !.el = e] = [s EXCEPT !.el = e, !.met = M] BY <1>2 DEF State
  <2>4. Goes(n, s, [s EXCEPT !.el = e, !.met = M])
    <3>1. M \in SUBSET Node /\ \A m \in M : m \in s.met BY <1>2
    <3> HIDE DEF M
    <3> QED BY <2>2, <3>1, ElectionOnly
  <2> QED BY <1>6, <2>1, <2>3, <2>4
<1>7. CASE p.type = "mr" /\ ~s.subMr
  <2>1. d = s BY <1>7 DEF Deliver
  <2> QED BY <1>3, <1>7, <2>1
<1>8. CASE p.type = "mr" /\ s.subMr
  <2>1. d \in {s, Join(n, s, p.from)} /\ (~s.keyMaker => d = s)
    BY <1>8 DEF Deliver, AddGroupMem, AddSGroupMem
  <2>2. s.keyMaker => Goes(n, s, Join(n, s, p.from)) BY <1>1, <1>8, Joined
  <2> QED BY <1>3, <1>8, <2>1, <2>2
<1>9. CASE p.type = "gk" /\ ~s.subGk
  <2>1. d = s BY <1>9 DEF Deliver
  <2> QED BY <1>3, <1>9, <2>1
<1>10. CASE p.type = "gk" /\ s.subGk
  <2>0. p \in KeyList /\ Pri[p.from] # 0 BY SMT, <1>1, <1>10, NodeAssumption DEF PostOK
  <2>1. d \in {ReceiveGKeyList(n, s, p), ReceiveSGKeyRecords(n, s, p)} BY <1>10 DEF Deliver
  <2>2. CASE s.keyMaker
    <3>1. d = Challenge(n, s, p) BY <2>0, <2>1, <2>2 DEF ReceiveGKeyList, ReceiveSGKeyRecords
    <3> QED BY <1>1, <2>2, <3>1, Challenged
  <2>3. CASE ~s.keyMaker
    <3>1. d \in {PublishMembershipReq(n, s), TakeKey(n, s, p), TakePublicKey(n, s, p)}
      BY <2>0, <2>1, <2>3 DEF ReceiveGKeyList, ReceiveSGKeyRecords
    <3>2. Goes(n, s, PublishMembershipReq(n, s)) BY <1>10, Requested
    <3>3. Takes(s, TakeKey(n, s, p)) /\ Takes(s, TakePublicKey(n, s, p)) BY <1>2, <2>0, TakeKeyTakes
    <3>4. Goes(n, s, TakeKey(n, s, p)) /\ Goes(n, s, TakePublicKey(n, s, p))
      BY <1>10, <2>3, <3>3, TakesGoes
    <3>5. Goes(n, s, d) BY <3>1, <3>2, <3>4
    <3>6. ~d.keyMaker BY <2>3, <3>5 DEF Goes
    <3> QED BY <3>5, <3>6
  <2> QED BY <2>2, <2>3
<1> QED BY <1>1, <1>4, <1>5, <1>6, <1>7, <1>8, <1>9, <1>10

\* A new subscription
LEMMA SubscribeGoes ==
    ASSUME NEW n \in Node, NEW s, NodeOK(n, s), NEW type
    PROVE  /\ \A t \in AfterSubscribe(n, s, type) : Goes(n, s, t)
           /\ type = "gk" /\ s.subGk =>
                \A t \in AfterSubscribe(n, s, type) : t.keyMaker =>
                    \A q \in s.coll : q.type = "gk" => ~(n < q.from)
<1> DEFINE P == {t \in State : Goes(n, s, t)}
<1>1. IsFiniteSet(OfType(s, type)) /\ \A p \in OfType(s, type) : p \in s.coll /\ p.type = type
  BY FS_Subset DEF OfType, NodeOK, PostsOK
<1>2. \A t \in P, p \in OfType(s, type) : p \in t.coll BY <1>1 DEF Goes
<1>3. s \in P BY GoesSelf DEF NodeOK
<1>4. ASSUME NEW t \in P, NEW p \in OfType(s, type) PROVE Deliver(n, t, p) \in P
  <2>1. Goes(n, t, Deliver(n, t, p))
    <3>1. NodeOK(n, t) BY DEF Goes
    <3> QED BY <1>2, <3>1, DeliverGoes
  <2>2. Goes(n, s, Deliver(n, t, p)) BY <2>1, GoesOn
  <2>3. Deliver(n, t, p) \in State BY <2>1 DEF Goes, NodeOK
  <2> QED BY <2>2, <2>3
<1>5. AfterSubscribe(n, s, type) \subseteq P
  <2> HIDE DEF P
  <2> QED BY <1>1, <1>3, <1>4, AllDelivered
<1>6. ASSUME type = "gk", s.subGk, NEW q \in s.coll, q.type = "gk", n < q.from
      PROVE  \A t \in AfterSubscribe(n, s, type) : ~t.keyMaker
  <2> DEFINE Q == {t \in State : ~t.keyMaker}
  <2>1. q \in OfType(s, type) BY <1>6 DEF OfType
  <2>2. \A t \in P : Deliver(n, t, q) \in Q
    <3> SUFFICES ASSUME NEW t \in P PROVE Deliver(n, t, q) \in Q
      OBVIOUS
    <3>1. NodeOK(n, t) /\ t.subGk BY <1>6 DEF Goes
    <3>2. ~Deliver(n, t, q).keyMaker BY <1>2, <1>6, <2>1, <3>1, DeliverGoes
    <3> QED BY <1>4, <2>1, <3>2
  <2>3. \A t \in P \cap Q, p \in OfType(s, type) : Deliver(n, t, p) \in Q
    <3> SUFFICES ASSUME NEW t \in P \cap Q, NEW p \in OfType(s, type) PROVE Deliver(n, t, p) \in Q
      OBVIOUS
    <3>1. NodeOK(n, t) BY DEF Goes
    <3>2. Goes(n, t, Deliver(n, t, p)) BY <1>2, <3>1, DeliverGoes
    <3> QED BY <3>2 DEF Goes, NodeOK
  <2>4. AfterSubscribe(n, s, type) \subseteq Q
    <3> HIDE DEF P, Q
    <3> QED BY <1>1, <1>3, <1>4, <2>1, <2>2, <2>3, OneDelivered
  <2> QED BY <2>4
<1> QED BY <1>5, <1>6
-------------------------------------------------------------------------------
\* A finite set of nodes has a least and a greatest.
LEMMA Extremes ==
    ASSUME NEW S \in SUBSET Node, IsFiniteSet(S), S # {}
    PROVE  /\ Least(S) \in S /\ \A k \in S : Least(S) <= k
           /\ Greatest(S) \in S /\ \A k \in S : k <= Greatest(S)
<1>0. S \subseteq Nat BY NodeAssumption
<1> DEFINE Below(x) == {k \in S : k < x}
           Above(x) == {k \in S : k > x}
           U == {Below(x) : x \in S}
           V == {Above(x) : x \in S}
<1>1. U \subseteq FiniteSubsetsOf(S) /\ U # {} /\ V \subseteq FiniteSubsetsOf(S) /\ V # {}
  <2>1. \A X : X \subseteq S => IsFiniteSet(X) BY FS_Subset
  <2> QED BY <2>1 DEF FiniteSubsetsOf
<1>2. \E x \in S : \A k \in S : x <= k
  <2>1. PICK X \in U : \A Y \in U : ~(<<Y, X>> \in StrictSubsetOrdering(S))
    <3> HIDE DEF U, V
    <3> QED BY <1>1, FS_StrictSubsetOrderingWellFounded, WFMin
  <2>2. PICK x \in S : X = Below(x) BY <2>1
  <2>3. ASSUME NEW k \in S, k < x PROVE FALSE
    <3>1. Below(k) \in U BY <2>3
    <3>0. k \in Nat /\ x \in Nat BY <1>0
    <3>2. Below(k) \subseteq Below(x) /\ k \in Below(x) /\ k \notin Below(k)
      <4>1. \A j \in S : j < k => j < x
        <5> SUFFICES ASSUME NEW j \in S, j < k PROVE j < x
          OBVIOUS
        <5>1. j \in Nat BY <1>0
        <5> QED BY SMT, <2>3, <3>0, <5>1
      <4>2. ~(k < k) BY SMT, <3>0
      <4> QED BY <2>3, <4>1, <4>2
    <3>3. <<Below(k), X>> \in StrictSubsetOrdering(S) BY <2>2, <3>2 DEF StrictSubsetOrdering
    <3> QED BY <2>1, <3>1, <3>3
  <2> QED BY SMT, <1>0, <2>3
<1>3. \E x \in S : \A k \in S : x >= k
  <2>1. PICK X \in V : \A Y \in V : ~(<<Y, X>> \in StrictSubsetOrdering(S))
    <3> HIDE DEF U, V
    <3> QED BY <1>1, FS_StrictSubsetOrderingWellFounded, WFMin
  <2>2. PICK x \in S : X = Above(x) BY <2>1
  <2>3. ASSUME NEW k \in S, k > x PROVE FALSE
    <3>1. Above(k) \in V BY <2>3
    <3>0. k \in Nat /\ x \in Nat BY <1>0
    <3>2. Above(k) \subseteq Above(x) /\ k \in Above(x) /\ k \notin Above(k)
      <4>1. \A j \in S : j > k => j > x
        <5> SUFFICES ASSUME NEW j \in S, j > k PROVE j > x
          OBVIOUS
        <5>1. j \in Nat BY <1>0
        <5> QED BY SMT, <2>3, <3>0, <5>1
      <4>2. ~(k > k) BY SMT, <3>0
      <4> QED BY <2>3, <4>1, <4>2
    <3>3. <<Above(k), X>> \in StrictSubsetOrdering(S) BY <2>2, <3>2 DEF StrictSubsetOrdering
    <3> QED BY <2>1, <3>1, <3>3
  <2> QED BY SMT, <1>0, <2>3
<1>4. Least(S) \in S /\ \A k \in S : Least(S) <= k BY <1>2 DEF Least
<1>5. Greatest(S) \in S /\ \A k \in S : Greatest(S) >= k BY <1>3 DEF Greatest
<1> QED BY <1>0, <1>4, <1>5

\* makeGKey splits the members into lists: each is in one of them.
LEMMA ChunkFacts ==
    ASSUME NEW S \in SUBSET Node, IsFiniteSet(S)
    PROVE  /\ \A c \in Chunks(S) : c \in SUBSET S /\ c # {} /\ IsFiniteSet(c)
           /\ IsFiniteSet(Chunks(S))
           /\ \A m \in S : \E c \in Chunks(S) : m \in c
<1>1. \A c \in Chunks(S) : c \in SUBSET S /\ c # {} BY DEF Chunks, Chunk
<1>2. \A c \in SUBSET S : IsFiniteSet(c) BY FS_Subset
<1>3. IsFiniteSet(Chunks(S))
  <2>1. Chunks(S) \in SUBSET (SUBSET S) BY <1>1
  <2>2. IsFiniteSet(SUBSET S) BY FS_SUBSET
  <2> QED BY <2>1, <2>2, FS_Subset
<1>4. ASSUME NEW m \in S PROVE \E c \in Chunks(S) : m \in c
  <2> DEFINE B == {k \in S : k < m}
             b == Cardinality(B)
             a == Cardinality(S)
             i == b \div MaxKR
  <2>1. b \in Nat /\ a \in Nat /\ b <= a
    <3>1. B \in SUBSET S OBVIOUS
    <3> HIDE DEF B
    <3> QED BY <3>1, FS_Subset, FS_CardinalityType
  <2> HIDE DEF b, a
  <2>2. MaxKR \in Nat \ {0} BY KeysAssumption
  <2>3. i \in Nat /\ i <= b
    <3>1. i \in Nat /\ i * MaxKR <= b BY SMT, <2>1, <2>2
    <3> HIDE DEF i
    <3>2. i <= i * MaxKR BY SMT, <2>2, <3>1
    <3> QED BY SMT, <2>1, <2>2, <3>1, <3>2
  <2> HIDE DEF i
  <2>4. i \in 0..a BY SMT, <2>1, <2>3
  <2>5. m \in Chunk(S, i) BY DEF Chunk, i, b
  <2> QED BY <2>4, <2>5 DEF Chunks, a
<1> QED BY <1>1, <1>2, <1>3, <1>4

\* A key maker that has a key
HasKey(n, t) == /\ t \in State /\ t.curKey = [km |-> n, ct |-> t.curKeyCT] /\ t.curKeyCT # 0
                /\ t.KMepoch = 1 /\ Pri[n] > 0

\* The key lists that a key maker publishes
LEMMA ListsFacts ==
    ASSUME NEW n \in Node, NEW t, HasKey(n, t), IsFiniteSet(t.mbrList), IsFiniteSet(t.out)
    PROVE  LET L == KeyLists(n, t)
           IN  /\ \A p \in L : p \in t.out \/ (PostOK(p) /\ p.from = n /\ p.type = "gk" /\ p.key = t.curKey)
               /\ \E p \in L : p.from = n /\ p.type = "gk"
               /\ \A m \in t.mbrList : \E p \in L : Covers(p, m, t.curKey)
               /\ IsFiniteSet(L)
<1> DEFINE L == KeyLists(n, t)
           M == t.mbrList
<1>0. t \in State /\ M \in SUBSET Node /\ t.out \subseteq Post BY DEF HasKey, State
<1>1. ASSUME NEW lo \in Node, NEW hi \in Node, NEW S \in SUBSET Node
      PROVE  /\ PublishKeyRange(n, t, lo, hi, S).out = t.out \cup {ListOf(n, t, lo, hi, S)}
             /\ PostOK(ListOf(n, t, lo, hi, S))
             /\ ListOf(n, t, lo, hi, S).from = n /\ ListOf(n, t, lo, hi, S).type = "gk"
             /\ ListOf(n, t, lo, hi, S).key = t.curKey
  <2>1. /\ PublishKeyRange(n, t, lo, hi, S) = WithList(t, ListOf(n, t, lo, hi, S))
        /\ PostOK(ListOf(n, t, lo, hi, S))
        /\ ListOf(n, t, lo, hi, S).from = n /\ ListOf(n, t, lo, hi, S).type = "gk"
    BY SMT, RangeFacts DEF HasKey
  <2>2. WithList(t, ListOf(n, t, lo, hi, S)).out = t.out \cup {ListOf(n, t, lo, hi, S)}
    BY <1>0 DEF WithList, State
  <2>3. ListOf(n, t, lo, hi, S).key = t.curKey BY DEF ListOf
  <2> QED BY <2>1, <2>2, <2>3
<1>2. CASE M = {}
  <2> DEFINE none == {}
  <2>1. L = PublishKeyRange(n, t, n, n, none).out BY <1>2 DEF KeyLists
  <2>2. none \in SUBSET Node OBVIOUS
  <2>3. /\ L = t.out \cup {ListOf(n, t, n, n, none)}
        /\ PostOK(ListOf(n, t, n, n, none))
        /\ ListOf(n, t, n, n, none).from = n /\ ListOf(n, t, n, n, none).type = "gk"
        /\ ListOf(n, t, n, n, none).key = t.curKey
    <3> HIDE DEF none, L
    <3> QED BY SMT, <1>1, <2>1, <2>2
  <2> HIDE DEF none, L
  <2>4. IsFiniteSet(L) BY <2>3, FS_AddElement
  <2> QED BY <1>2, <2>3, <2>4 DEF L
<1>3. CASE M # {}
  <2> DEFINE f == [c \in Chunks(M) |-> PublishKeyRange(n, t, Least(c), Greatest(c), c).out]
             F == {f[c] : c \in Chunks(M)}
  <2>1. L = UNION F BY <1>3 DEF KeyLists
  <2>2. /\ \A c \in Chunks(M) : c \in SUBSET M /\ c # {} /\ IsFiniteSet(c)
        /\ IsFiniteSet(Chunks(M))
        /\ \A m \in M : \E c \in Chunks(M) : m \in c
    <3> HIDE DEF M
    <3> QED BY <1>0, ChunkFacts DEF M
  <2>3. ASSUME NEW c \in Chunks(M)
        PROVE  /\ Least(c) \in Node /\ Greatest(c) \in Node /\ c \in SUBSET Node
               /\ \A k \in c : Least(c) <= k /\ k <= Greatest(c)
    <3>1. c \in SUBSET Node BY <1>0, <2>2
    <3> QED BY <2>2, <3>1, Extremes
  <2>4. ASSUME NEW c \in Chunks(M)
        PROVE  LET p == ListOf(n, t, Least(c), Greatest(c), c)
               IN  f[c] = t.out \cup {p} /\ PostOK(p) /\ p.from = n /\ p.type = "gk" /\ p.key = t.curKey
    BY SMT, <1>1, <2>3
  <2>5. \A p \in L : p \in t.out \/ (PostOK(p) /\ p.from = n /\ p.type = "gk" /\ p.key = t.curKey)
    <3> SUFFICES ASSUME NEW c \in Chunks(M), NEW p \in f[c]
                 PROVE  p \in t.out \/ (PostOK(p) /\ p.from = n /\ p.type = "gk" /\ p.key = t.curKey)
      BY <2>1
    <3> HIDE DEF f
    <3> QED BY <2>4
  <2>6. ASSUME NEW m \in M PROVE \E p \in L : Covers(p, m, t.curKey) /\ p.from = n /\ p.type = "gk"
    <3>1. PICK c \in Chunks(M) : m \in c BY <2>2
    <3> DEFINE p == ListOf(n, t, Least(c), Greatest(c), c)
    <3>2. f[c] = t.out \cup {p} /\ p.from = n /\ p.type = "gk" BY <2>4
    <3>3. p.key = t.curKey /\ p.tps = c /\ p.lo = Least(c) /\ p.hi = Greatest(c) BY DEF ListOf
    <3>4. Covers(p, m, t.curKey) BY <2>3, <3>1, <3>2, <3>3 DEF Covers
    <3>5. p \in L BY <2>1, <3>2
    <3> QED BY <3>2, <3>4, <3>5
  <2>7. IsFiniteSet(L)
    <3>1. f \in Surjection(Chunks(M), F) BY DEF Surjection
    <3> HIDE DEF F, f
    <3>2. IsFiniteSet(F) BY <2>2, <3>1, FS_Surjection
    <3>3. \A X \in F : IsFiniteSet(X)
      <4> SUFFICES ASSUME NEW c \in Chunks(M) PROVE IsFiniteSet(f[c])
        BY DEF F
      <4>1. PICK p : f[c] = t.out \cup {p} BY <2>4
      <4> QED BY <4>1, FS_AddElement
    <3> QED BY <2>1, <3>2, <3>3, FS_UNION
  <2> HIDE DEF L, f
  <2> QED BY <1>3, <2>5, <2>6, <2>7 DEF L
<1> QED BY <1>2, <1>3

\* What the timer of the key making does: a key maker has a new key, on its way to each member.
Makes(n, s, t) ==
    /\ NodeOK(n, t)
    /\ t.up = s.up /\ t.electing = s.electing /\ t.subGk = s.subGk /\ t.coll = s.coll
    /\ t.keyMaker = s.keyMaker /\ t.mbrList = s.mbrList /\ s.out \subseteq t.out
    /\ t.keyMaker => /\ t.curKeyCT = clock + 1
                     /\ \E p \in t.out : p.type = "gk" /\ p.from = n
                     /\ \A m \in t.mbrList : \E p \in t.out : Covers(p, m, t.curKey)
    /\ \A p \in t.out \ s.out : p.key = t.curKey
    /\ ~t.keyMaker => t.curKey = s.curKey /\ t.curKeyCT = s.curKeyCT /\ t.KMepoch = s.KMepoch
                      /\ t.kmtp = s.kmtp
    /\ Asked(s) => Asked(t)

\* gkeyTimeout and sgkeyTimeout, with makeGKey and makeSGKey
LEMMA TimeoutMakes ==
    ASSUME NEW n \in Node, NEW s, NodeOK(n, s), s.subGk, clock \in Nat, scheme \in Schemes
    PROVE  Makes(n, s, GkeyTimeout(n, s))
<1>0. s \in State /\ IsFiniteSet(s.mbrList) /\ IsFiniteSet(s.out) BY DEF NodeOK, KeyOK, PostsOK
<1>1. CASE ~s.keyMaker
  <2> DEFINE t == [s EXCEPT !.rekey = FALSE]
  <2>1. GkeyTimeout(n, s) = t BY <1>1 DEF GkeyTimeout
  <2>2. t \in State BY <1>0 DEF State
  <2>3. /\ t.mrPending = s.mrPending /\ t.out = s.out /\ t.subGk = s.subGk /\ t.up = s.up /\ t.electing = s.electing
        /\ t.keyMaker = s.keyMaker /\ t.KMepoch = s.KMepoch /\ t.init = s.init /\ t.kmtp = s.kmtp
        /\ t.curKeyCT = s.curKeyCT /\ t.curKey = s.curKey /\ t.mbrList = s.mbrList /\ t.subMr = s.subMr
        /\ t.coll = s.coll /\ t.conf = s.conf /\ t.met = s.met /\ t.el = s.el
    BY <1>0 DEF State
  <2> HIDE DEF t
  <2>4. KeyOK(n, t) BY <2>3 DEF NodeOK, KeyOK
  <2>5. ElectionOK(n, t) BY <2>3 DEF NodeOK, ElectionOK
  <2>6. PostsOK(n, t) BY <2>3 DEF NodeOK, PostsOK, Asked
  <2>7. NodeOK(n, t) BY <2>2, <2>3, <2>4, <2>5, <2>6 DEF NodeOK
  <2> QED BY <1>1, <2>1, <2>3, <2>7 DEF Makes, Asked
<1>2. CASE s.keyMaker
  <2> DEFINE q == NewKey(n, s)
             L == KeyLists(n, q)
             made == [q EXCEPT !.out = @ \cup L]
             gk == IF s.mbrList # {} THEN InitDone(made) ELSE made
             sg == IF s.mbrList # {} THEN InitDone(made)
                   ELSE [made EXCEPT !.conf = IF s.init THEN @ \cup (made.out \ s.out) ELSE @]
             u == IF scheme.kind = "GK" THEN gk ELSE sg
             t == [u EXCEPT !.rekey = TRUE]
             c == clock + 1
  <2>1. GkeyTimeout(n, s) = t BY <1>2 DEF GkeyTimeout, MakeGKey, MakeSGKey
  <2>2. s.KMepoch = 1 /\ Pri[n] > 0 BY <1>2 DEF NodeOK, KeyOK, Candidate
  <2>3. c \in Nat \ {0} BY SMT
  <2>4. q = [s EXCEPT !.curKeyCT = c, !.curKey = [km |-> n, ct |-> c]] BY DEF NewKey
  <2> HIDE DEF c, q
  <2>5. [km |-> n, ct |-> c] \in Key BY <2>3 DEF Key
  <2>6. q \in State BY <1>0, <2>3, <2>4, <2>5 DEF State
  <2>7. /\ q.mrPending = s.mrPending /\ q.out = s.out /\ q.subGk = s.subGk /\ q.up = s.up /\ q.electing = s.electing
        /\ q.keyMaker = s.keyMaker /\ q.KMepoch = s.KMepoch /\ q.init = s.init /\ q.mbrList = s.mbrList
        /\ q.curKeyCT = c /\ q.curKey = [km |-> n, ct |-> c]
        /\ q.coll = s.coll /\ q.conf = s.conf /\ q.met = s.met /\ q.el = s.el
    BY <1>0, <2>4 DEF State
  <2>8. HasKey(n, q) BY <2>2, <2>3, <2>6, <2>7 DEF HasKey
  <2>9. /\ \A p \in L : p \in q.out \/ (PostOK(p) /\ p.from = n /\ p.type = "gk" /\ p.key = q.curKey)
        /\ \E p \in L : p.from = n /\ p.type = "gk"
        /\ \A m \in q.mbrList : \E p \in L : Covers(p, m, q.curKey)
        /\ IsFiniteSet(L)
    BY <1>0, <2>7, <2>8, ListsFacts
  <2> HIDE DEF L
  <2>10. L \subseteq Post
    <3>1. q.out \subseteq Post BY <2>6 DEF State
    <3> QED BY <2>9, <3>1 DEF PostOK
  <2>11. made \in State BY <2>6, <2>10 DEF State
  <2>12. /\ made.mrPending = s.mrPending /\ made.out = s.out \cup L /\ made.subGk = s.subGk /\ made.up = s.up
         /\ made.electing = s.electing /\ made.keyMaker = s.keyMaker /\ made.KMepoch = s.KMepoch
         /\ made.init = s.init /\ made.mbrList = s.mbrList
         /\ made.curKeyCT = c /\ made.curKey = [km |-> n, ct |-> c]
         /\ made.coll = s.coll /\ made.conf = s.conf /\ made.met = s.met /\ made.el = s.el
    BY <2>6, <2>7 DEF State
  <2> HIDE DEF made
  <2>13. scheme.kind \in {"GK", "SG"} BY SchemesAssumption
  <2>14. /\ u \in State
         /\ u.mrPending = s.mrPending /\ u.out = s.out \cup L /\ u.subGk = s.subGk /\ u.up = s.up
         /\ u.electing = s.electing /\ u.keyMaker = s.keyMaker /\ u.KMepoch = s.KMepoch
         /\ u.mbrList = s.mbrList /\ u.curKeyCT = c /\ u.curKey = [km |-> n, ct |-> c]
         /\ u.coll = s.coll /\ u.met = s.met /\ u.el = s.el
         /\ (u.init = s.init \/ (~u.init /\ u.mbrList # {}))
         /\ (u.conf = {} \/ u.conf = s.conf \/ scheme.kind = "SG")
    <3>1. CASE s.mbrList # {}
      <4>1. u = InitDone(made) BY <3>1
      <4>2. InitDone(made) \in State BY <2>11 DEF State, InitDone
      <4> HIDE DEF u
      <4>3. /\ u.mrPending = made.mrPending /\ u.out = made.out /\ u.subGk = made.subGk /\ u.up = made.up
            /\ u.electing = made.electing /\ u.keyMaker = made.keyMaker /\ u.KMepoch = made.KMepoch
            /\ u.mbrList = made.mbrList /\ u.curKeyCT = made.curKeyCT /\ u.curKey = made.curKey
            /\ u.coll = made.coll /\ u.met = made.met /\ u.el = made.el
            /\ ~u.init /\ u.conf = {}
        BY <2>11, <4>1 DEF State, InitDone
      <4> QED BY <2>12, <3>1, <4>1, <4>2, <4>3
    <3>2. CASE s.mbrList = {} /\ scheme.kind = "GK" BY <2>11, <2>12, <3>2
    <3>3. CASE s.mbrList = {} /\ scheme.kind # "GK"
      <4> DEFINE C == IF s.init THEN made.conf \cup (made.out \ s.out) ELSE made.conf
                 v == [made EXCEPT !.conf = C]
      <4>1. u = v BY <3>3
      <4>2. C \subseteq Post BY <2>11 DEF State
      <4> HIDE DEF u, C
      <4>3. v \in State BY <2>11, <4>2 DEF State
      <4>4. /\ u.mrPending = made.mrPending /\ u.out = made.out /\ u.subGk = made.subGk /\ u.up = made.up
            /\ u.electing = made.electing /\ u.keyMaker = made.keyMaker /\ u.KMepoch = made.KMepoch
            /\ u.mbrList = made.mbrList /\ u.curKeyCT = made.curKeyCT /\ u.curKey = made.curKey
            /\ u.coll = made.coll /\ u.met = made.met /\ u.el = made.el /\ u.init = made.init
        BY <2>11, <4>1 DEF State
      <4> QED BY <2>12, <2>13, <3>3, <4>1, <4>3, <4>4
    <3> QED BY <3>1, <3>2, <3>3
  <2> HIDE DEF u
  <2>15. t \in State BY <2>14 DEF State
  <2>16. /\ t.mrPending = s.mrPending /\ t.out = s.out \cup L /\ t.subGk = s.subGk /\ t.up = s.up
         /\ t.electing = s.electing /\ t.keyMaker = s.keyMaker /\ t.KMepoch = s.KMepoch
         /\ t.mbrList = s.mbrList /\ t.curKeyCT = c /\ t.curKey = [km |-> n, ct |-> c]
         /\ t.coll = s.coll /\ t.met = s.met /\ t.el = s.el
         /\ (t.init = s.init \/ (~t.init /\ t.mbrList # {}))
         /\ (t.conf = {} \/ t.conf = s.conf \/ scheme.kind = "SG")
    BY <2>14 DEF State
  <2> HIDE DEF t
  <2>17. t.curKey # NoKey /\ t.curKeyCT # 0 /\ t.curKey = [km |-> n, ct |-> t.curKeyCT]
    BY SMT, <2>3, <2>16 DEF NoKey
  <2>18. KeyOK(n, t)
    <3>1. Candidate(n) /\ n \notin s.mbrList BY <1>2 DEF NodeOK, KeyOK
    <3>2. ~t.init /\ scheme.kind = "GK" => t.mbrList # {} BY <1>2, <2>16 DEF NodeOK, KeyOK
    <3>3. t.conf # {} => scheme.kind = "SG" BY <2>16 DEF NodeOK, KeyOK
    <3> QED BY <1>0, <2>2, <2>16, <2>17, <3>1, <3>2, <3>3 DEF KeyOK
  <2>19. ElectionOK(n, t) BY <2>16 DEF NodeOK, ElectionOK
  <2>20. Asked(s) => Asked(t) BY <2>16 DEF Asked
  <2>21. IsFiniteSet(t.out)
    <3>1. IsFiniteSet(s.out) /\ IsFiniteSet(L) BY <1>0, <2>9
    <3>2. IsFiniteSet(s.out \cup L) BY <3>1, FS_Union
    <3> QED BY <2>16, <3>2
  <2>22. PostsOK(n, t)
    <3>1. \A p \in t.out : p \in s.out \/ (PostOK(p) /\ p.from = n /\ p.type = "gk")
      BY <2>7, <2>9, <2>16
    <3> QED BY <2>16, <2>20, <2>21, <3>1 DEF NodeOK, PostsOK
  <2>23. NodeOK(n, t) BY <2>15, <2>16, <2>18, <2>19, <2>22 DEF NodeOK
  <2>24. /\ \E p \in t.out : p.type = "gk" /\ p.from = n
         /\ \A m \in t.mbrList : \E p \in t.out : Covers(p, m, t.curKey)
         /\ \A p \in t.out \ s.out : p.key = t.curKey
    BY <2>7, <2>9, <2>16
  <2> QED BY <1>2, <2>1, <2>16, <2>20, <2>23, <2>24 DEF Makes, c
<1> QED BY <1>0, <1>1, <1>2 DEF State
-------------------------------------------------------------------------------
\* What a handler may do: a node becomes a key maker only by an election, in which no key
\* list of a larger thumbprint was in its collection, and with a key list of its own.
\* A key maker's new members, or all of them, are sent the key.
Acts(n, s, t) ==
    /\ NodeOK(n, t) /\ t.coll = s.coll /\ (s.subGk => t.subGk) /\ (Asked(s) => Asked(t))
    /\ \A m \in t.mbrList \ s.mbrList : \E q \in s.coll : q.type = "mr" /\ q.from = m
    /\ \A p \in t.out : p.type = "gk" => p \in s.out \/ p.key \in {s.curKey, t.curKey}
    /\ t.keyMaker /\ ~s.keyMaker =>
          /\ ~s.subGk
          /\ \E p \in t.out : p.type = "gk" /\ p.from = n
          /\ \A q \in s.coll : q.type = "gk" => ~(n < q.from)
    /\ t.keyMaker =>
          \/ /\ t.curKeyCT = clock + 1
             /\ \A m \in t.mbrList : \E p \in t.out : Covers(p, m, t.curKey)
          \/ /\ s.keyMaker /\ t.curKey = s.curKey /\ t.curKeyCT = s.curKeyCT
             /\ t.curKeyCT # 0 =>
                   \A m \in t.mbrList \ s.mbrList : \E p \in t.out : Covers(p, m, t.curKey)

\* What a node does in a subscription callback it may do in any event.
LEMMA GoesActs == ASSUME NEW n, NEW s, NEW t, Goes(n, s, t) PROVE Acts(n, s, t)
BY DEF Goes, Acts

\* A node that subscribes to the key lists
Listening(n, s, elected) ==
    [s EXCEPT !.electing = FALSE, !.keyMaker = elected, !.KMepoch = s.el.epoch, !.subGk = TRUE]

\* Subscribing to the key lists after an election, won or lost, or without one (setup).
LEMMA ListeningOK ==
    ASSUME NEW n \in Node, NEW s \in State, s.up, Fresh(s), PostsOK(n, s), NEW elected \in BOOLEAN,
           Won(s.el) => Candidate(n) /\ s.el.priority = Pri[n] /\ \A m \in s.met : Beats(n, m),
           elected => s.el.epoch = 1 /\ Candidate(n)
    PROVE  NodeOK(n, Listening(n, s, elected))
<1> DEFINE t == Listening(n, s, elected)
<1>1. s.el.epoch \in Nat BY DEF State
<1>2. t \in State BY <1>1 DEF State, Listening
<1>3. /\ t.mrPending = s.mrPending /\ t.out = s.out /\ t.subGk /\ t.up = s.up /\ ~t.electing
      /\ t.keyMaker = elected /\ t.KMepoch = s.el.epoch /\ t.init = s.init
      /\ t.curKeyCT = s.curKeyCT /\ t.curKey = s.curKey /\ t.mbrList = s.mbrList
      /\ t.coll = s.coll /\ t.conf = s.conf /\ t.met = s.met /\ t.el = s.el
  BY DEF State, Listening
<1> HIDE DEF t
<1>4. KeyOK(n, t) BY <1>3, FS_EmptySet DEF KeyOK, Fresh
<1>5. ElectionOK(n, t) BY <1>3 DEF ElectionOK
<1>6. PostsOK(n, t) BY <1>3 DEF PostsOK, Asked
<1> QED BY <1>2, <1>3, <1>4, <1>5, <1>6 DEF NodeOK, t

\* The subscription to requests for membership
LEMMA SubMrGoes ==
    ASSUME NEW n \in Node, NEW s, NodeOK(n, s), s.subGk
    PROVE  Goes(n, s, [s EXCEPT !.subMr = TRUE])
<1> DEFINE t == [s EXCEPT !.subMr = TRUE]
<1>1. s \in State BY DEF NodeOK
<1>2. t \in State BY <1>1 DEF State
<1>3. /\ t.mrPending = s.mrPending /\ t.out = s.out /\ t.subGk = s.subGk /\ t.up = s.up /\ t.electing = s.electing
      /\ t.keyMaker = s.keyMaker /\ t.KMepoch = s.KMepoch /\ t.init = s.init /\ t.kmtp = s.kmtp
      /\ t.curKeyCT = s.curKeyCT /\ t.curKey = s.curKey /\ t.mbrList = s.mbrList
      /\ t.rekey = s.rekey /\ t.coll = s.coll /\ t.conf = s.conf /\ t.met = s.met /\ t.el = s.el
  BY <1>1 DEF State
<1> HIDE DEF t
<1>4. KeyOK(n, t) BY <1>3 DEF NodeOK, KeyOK
<1>5. ElectionOK(n, t) BY <1>3 DEF NodeOK, ElectionOK
<1>6. PostsOK(n, t) BY <1>3 DEF NodeOK, PostsOK, Asked
<1>7. NodeOK(n, t) BY <1>2, <1>3, <1>4, <1>5, <1>6 DEF NodeOK
<1> QED BY <1>3, <1>7 DEF Goes, Asked, t

\* eDone
LEMMA EDoneActs ==
    ASSUME NEW n \in Node, NEW s \in State, s.up, ~s.subGk, Fresh(s), PostsOK(n, s), NEW elected \in BOOLEAN,
           Won(s.el) => Candidate(n) /\ s.el.priority = Pri[n] /\ \A m \in s.met : Beats(n, m),
           elected => s.el.epoch = 1 /\ Candidate(n), clock \in Nat, scheme \in Schemes,
           NEW t \in EDone(n, s, elected)
    PROVE  Acts(n, s, t)
<1> DEFINE g == Listening(n, s, elected)
<1>1. NodeOK(n, g) BY ListeningOK
<1>2. /\ g.coll = s.coll /\ g.subGk /\ g.keyMaker = elected /\ g.mbrList = s.mbrList
      /\ g.out = s.out /\ g.curKey = s.curKey
  BY DEF Listening, State
<1>3. ~Asked(s) /\ ~s.keyMaker BY DEF Asked, Fresh
<1>4. CASE elected
  <2>0. PICK v \in AfterSubscribe(n, g, "gk") :
           t \in {GkeyTimeout(n, u) : u \in AfterSubscribe(n, [v EXCEPT !.subMr = TRUE], "mr")}
    BY <1>4 DEF EDone, Listening
  <2>1. PICK u \in AfterSubscribe(n, [v EXCEPT !.subMr = TRUE], "mr") : t = GkeyTimeout(n, u)
    BY <2>0
  <2> HIDE DEF g
  <2>2. Goes(n, g, v) /\ (v.keyMaker => \A q \in g.coll : q.type = "gk" => ~(n < q.from))
    BY <1>1, <1>2, SubscribeGoes
  <2> DEFINE w == [v EXCEPT !.subMr = TRUE]
  <2>3. NodeOK(n, v) /\ v.subGk BY <1>2, <2>2 DEF Goes
  <2>4. Goes(n, v, w) BY <2>3, SubMrGoes
  <2>5. NodeOK(n, w) BY <2>4 DEF Goes
  <2>6. Goes(n, w, u)
    <3>0. u \in AfterSubscribe(n, w, "mr") BY <2>1
    <3> HIDE DEF w
    <3> QED BY <2>5, <3>0, SubscribeGoes
  <2>7. NodeOK(n, u) /\ u.subGk /\ u.coll = s.coll /\ (u.keyMaker => v.keyMaker)
    BY <1>2, <2>2, <2>4, <2>6 DEF Goes
  <2>8. Makes(n, u, t) BY <2>1, <2>7, TimeoutMakes
  <2>9. Goes(n, g, u) BY <2>2, <2>4, <2>6, GoesOn
  <2>10. \A p \in t.out : p.type = "gk" => p \in s.out \/ p.key \in {s.curKey, t.curKey}
    BY SMT, <1>2, <2>8, <2>9 DEF Goes, Makes
  <2>11. \A m \in t.mbrList \ s.mbrList : \E q \in s.coll : q.type = "mr" /\ q.from = m
    BY SMT, <1>2, <2>8, <2>9 DEF Goes, Makes
  <2> QED BY <1>2, <1>3, <2>2, <2>7, <2>8, <2>10, <2>11 DEF Acts, Makes
<1>5. CASE ~elected
  <2>1. t \in AfterSubscribe(n, g, "gk") BY <1>5 DEF EDone, Listening
  <2> HIDE DEF g
  <2>2. Goes(n, g, t) BY <1>1, <2>1, SubscribeGoes
  <2>3. ~t.keyMaker BY <1>2, <1>5, <2>2 DEF Goes
  <2> QED BY <1>2, <1>3, <2>2, <2>3 DEF Acts, Goes
<1> QED BY <1>4, <1>5

\* A candidate that has not lost when it starts has its own priority and no epoch yet, and
\* beats the candidates in its collection.
LEMMA StartFacts ==
    ASSUME NEW n \in Node, NEW elecs, NEW cands, \A p \in elecs : p.epoch \in Nat,
           \A p \in cands : p.from \in Node /\ p.epoch \in Nat /\ p.from # n
    PROVE  LET e == ElectionStart(n, elecs, cands)
           IN  /\ e \in El
               /\ Won(e) => /\ e = [priority |-> Pri[n], epoch |-> 0]
                            /\ \A p \in cands : Beats(n, p.from)
<1> DEFINE el0 == [priority |-> Pri[n], epoch |-> 0]
           won == {p \in elecs : HandleKMelec(el0, p) # el0}
           el1 == IF won = {} THEN el0 ELSE HandleKMelec(el0, CHOOSE p \in won : TRUE)
           better == {p \in cands : HandleKMcand(n, el1, p) # el1}
           e == ElectionStart(n, elecs, cands)
<1>0. e = IF better = {} THEN el1 ELSE HandleKMcand(n, el1, CHOOSE p \in better : TRUE)
  BY DEF ElectionStart
<1>1. Pri[n] \in 0..9 BY NodeAssumption
<1>2. el0 \in El BY SMT, <1>1 DEF El
<1>3. el0.priority = Pri[n] /\ el0.epoch = 0 OBVIOUS
<1> HIDE DEF e, el0
<1>4. el1 \in El /\ (Won(el1) => el1 = el0)
  <2>1. CASE won = {} BY <1>2, <2>1
  <2>2. CASE won # {}
    <3>1. (CHOOSE p \in won : TRUE) \in elecs BY <2>2
    <3> QED BY <1>2, <2>2, <3>1, ElecFacts
  <2> QED BY <2>1, <2>2
<1> HIDE DEF el1
<1>5. CASE better = {}
  <2>1. e = el1 BY <1>0, <1>5
  <2>2. ASSUME Won(el1), NEW p \in cands PROVE Beats(n, p.from)
    <3>1. HandleKMcand(n, el1, p) = el1 BY <1>5
    <3> QED BY <1>3, <1>4, <2>2, <3>1, CandFacts
  <2> QED BY <1>4, <2>1, <2>2 DEF e, el0
<1>6. CASE better # {}
  <2> DEFINE b == CHOOSE p \in better : TRUE
  <2>1. b \in cands /\ HandleKMcand(n, el1, b) # el1 BY <1>6
  <2>2. e = HandleKMcand(n, el1, b) BY <1>0, <1>6
  <2> HIDE DEF b
  <2>3. e \in El /\ ~Won(e) BY <1>4, <2>1, <2>2, CandFacts
  <2> QED BY <2>3 DEF e
<1> QED BY <1>5, <1>6

\* setup of a node that is no candidate
LEMMA SetupNode ==
    ASSUME NEW n \in Node, NEW s, NodeOK(n, s), ~s.up
    PROVE  NodeOK(n, [[s EXCEPT !.up = TRUE] EXCEPT !.subGk = TRUE])
<1> DEFINE g == [[s EXCEPT !.up = TRUE] EXCEPT !.subGk = TRUE]
<1>1. s \in State /\ ~s.subGk /\ ~s.electing /\ Fresh(s) BY DEF NodeOK, KeyOK
<1>2. g \in State BY <1>1 DEF State
<1>3. /\ g.mrPending = s.mrPending /\ g.out = s.out /\ g.subGk /\ g.up /\ g.electing = s.electing
      /\ g.keyMaker = s.keyMaker /\ g.init = s.init /\ g.curKeyCT = s.curKeyCT /\ g.curKey = s.curKey
      /\ g.mbrList = s.mbrList /\ g.coll = s.coll /\ g.conf = s.conf /\ g.met = s.met /\ g.el = s.el
  BY <1>1 DEF State
<1> HIDE DEF g
<1>4. KeyOK(n, g) BY <1>1, <1>3 DEF NodeOK, KeyOK, Fresh
<1>5. ElectionOK(n, g) BY <1>3 DEF NodeOK, ElectionOK
<1>6. PostsOK(n, g) BY <1>1, <1>3 DEF NodeOK, PostsOK, Asked
<1>7. NodeOK(n, g) BY <1>1, <1>2, <1>3, <1>4, <1>5, <1>6 DEF NodeOK
<1> QED BY <1>7 DEF g

\* It gets the key lists that came before.
LEMMA SetupMember ==
    ASSUME NEW n \in Node, NEW s, NodeOK(n, s), ~s.up,
           NEW t \in AfterSubscribe(n, [[s EXCEPT !.up = TRUE] EXCEPT !.subGk = TRUE], "gk")
    PROVE  Acts(n, s, t)
<1> DEFINE g == [[s EXCEPT !.up = TRUE] EXCEPT !.subGk = TRUE]
<1>1. s \in State /\ ~s.subGk /\ Fresh(s) BY DEF NodeOK, KeyOK
<1>2. g.out = s.out /\ g.keyMaker = s.keyMaker /\ g.curKey = s.curKey /\ g.mbrList = s.mbrList /\ g.coll = s.coll
  BY <1>1 DEF State
<1>3. NodeOK(n, g) BY SetupNode
<1>4. t \in AfterSubscribe(n, g, "gk") OBVIOUS
<1> HIDE DEF g
<1>5. Goes(n, g, t) BY <1>3, <1>4, SubscribeGoes
<1> QED BY SMT, <1>1, <1>2, <1>5 DEF Acts, Goes, Asked, Fresh

\* A candidacy or a claim to have been elected
LEMMA KMFacts ==
    ASSUME NEW n \in Node, NEW s \in State, PostsOK(n, s), NEW topic \in {"cand", "elec"}
    PROVE  LET t == PublishKM(n, s, topic)
           IN  /\ t = [s EXCEPT !.out = t.out] /\ t.out \in SUBSET Post
               /\ PostsOK(n, t) /\ \A q \in t.out : q.type = "gk" => q \in s.out
<1> DEFINE p == [type |-> topic, from |-> n, epoch |-> s.el.epoch]
           t == PublishKM(n, s, topic)
<1>1. p \in Ballot BY DEF Ballot, State
<1>2. p \in Post BY <1>1 DEF Post
<1>3. p.type = topic /\ p.from = n OBVIOUS
<1>4. t = [s EXCEPT !.out = s.out \cup {p}] BY DEF PublishKM
<1> HIDE DEF p, t
<1>5. /\ t.out = s.out \cup {p} /\ t.coll = s.coll /\ t.subGk = s.subGk /\ t.init = s.init
      /\ t.mrPending = s.mrPending
  BY <1>4 DEF State
<1>6. IsFiniteSet(t.out) BY SMT, <1>5, FS_AddElement DEF PostsOK
<1>7. PostsOK(n, t) BY <1>2, <1>3, <1>5, <1>6 DEF PostsOK, PostOK, Asked
<1> QED BY SMT, <1>2, <1>3, <1>4, <1>5, <1>7 DEF State, t

\* A node at the end of its election, which was s before
Ready(n, s, c) ==
    /\ c \in State /\ c.up /\ Fresh(c) /\ PostsOK(n, c) /\ c.coll = s.coll /\ c.curKey = s.curKey
    /\ Won(c.el) => Candidate(n) /\ c.el.priority = Pri[n] /\ \A m \in c.met : Beats(n, m)

\* setup of a candidate: it announces its candidacy, or has lost already
LEMMA SetupCandidate ==
    ASSUME NEW n \in Node, NEW s, NodeOK(n, s), ~s.up, Candidate(n), clock \in Nat, scheme \in Schemes,
           NEW el, el = ElectionStart(n, OfType(s, "elec"), OfType(s, "cand")),
           NEW c, c = [[s EXCEPT !.up = TRUE] EXCEPT !.el = el, !.met = {p.from : p \in OfType(s, "cand")}]
    PROVE  /\ Won(el) => Acts(n, s, PublishKM(n, [c EXCEPT !.electing = TRUE], "cand"))
           /\ ~Won(el) => \A t \in EDone(n, c, FALSE) : Acts(n, s, t)
           /\ ~Won(el) => Ready(n, s, c)
<1> DEFINE M == {p.from : p \in OfType(s, "cand")}
<1>1. s \in State /\ ~s.subGk /\ ~s.electing /\ Fresh(s) /\ PostsOK(n, s) BY DEF NodeOK, KeyOK
<1>2. \A p \in s.coll : p \in Post /\ p.from # n BY <1>1 DEF PostsOK, PostOK
<1>3. /\ \A p \in OfType(s, "elec") : p.epoch \in Nat
      /\ \A p \in OfType(s, "cand") : p.from \in Node /\ p.epoch \in Nat /\ p.from # n
  BY <1>2, PostKinds DEF OfType
<1>4. /\ el \in El
      /\ Won(el) => el = [priority |-> Pri[n], epoch |-> 0] /\ \A m \in M : Beats(n, m)
  <2>1. LET e == ElectionStart(n, OfType(s, "elec"), OfType(s, "cand"))
        IN  e \in El /\ (Won(e) => /\ e = [priority |-> Pri[n], epoch |-> 0]
                                   /\ \A p \in OfType(s, "cand") : Beats(n, p.from))
    BY <1>3, StartFacts
  <2> QED BY <2>1
<1>5. M \in SUBSET Node BY <1>3
<1>6. c = [s EXCEPT !.up = TRUE, !.el = el, !.met = M] BY <1>1 DEF State
<1> HIDE DEF M
<1>7. c \in State BY <1>1, <1>4, <1>5, <1>6 DEF State, El
<1>8. /\ c.up /\ c.el = el /\ c.met = M
      /\ c.mrPending = s.mrPending /\ c.out = s.out /\ c.subGk = s.subGk /\ c.electing = s.electing
      /\ c.keyMaker = s.keyMaker /\ c.init = s.init /\ c.curKeyCT = s.curKeyCT /\ c.curKey = s.curKey
      /\ c.KMepoch = s.KMepoch /\ c.kmtp = s.kmtp /\ c.subMr = s.subMr /\ c.rekey = s.rekey
      /\ c.mbrList = s.mbrList /\ c.coll = s.coll /\ c.conf = s.conf
  BY <1>1, <1>6 DEF State
<1>9. Fresh(c) /\ PostsOK(n, c) BY SMT, <1>1, <1>8 DEF Fresh, PostsOK, Asked
<1>10. ASSUME Won(el) PROVE Acts(n, s, PublishKM(n, [c EXCEPT !.electing = TRUE], "cand"))
  <2> DEFINE d == [c EXCEPT !.electing = TRUE]
             t == PublishKM(n, d, "cand")
  <2>0. \A x \in State : [x EXCEPT !.electing = TRUE] \in State BY DEF State
  <2>1. d \in State BY <1>7, <2>0
  <2>2. /\ d.up /\ d.electing /\ d.el = el /\ d.met = M
        /\ d.mrPending = s.mrPending /\ d.out = s.out /\ d.subGk = s.subGk
        /\ d.keyMaker = s.keyMaker /\ d.init = s.init /\ d.curKeyCT = s.curKeyCT /\ d.curKey = s.curKey
        /\ d.KMepoch = s.KMepoch /\ d.kmtp = s.kmtp /\ d.subMr = s.subMr /\ d.rekey = s.rekey
        /\ d.mbrList = s.mbrList /\ d.coll = s.coll /\ d.conf = s.conf
    BY <1>7, <1>8 DEF State
  <2> HIDE DEF d
  <2>3. PostsOK(n, d) BY <1>1, <2>2 DEF PostsOK, Asked
  <2>4. /\ t = [d EXCEPT !.out = t.out] /\ t.out \in SUBSET Post /\ PostsOK(n, t)
        /\ \A q \in t.out : q.type = "gk" => q \in d.out
    BY <2>1, <2>3, KMFacts
  <2> HIDE DEF t
  <2>5. t \in State BY SMT, <2>1, <2>4 DEF State
  <2>6. /\ t.up /\ t.electing /\ t.el = el /\ t.met = M
        /\ t.mrPending = s.mrPending /\ t.subGk = s.subGk
        /\ t.keyMaker = s.keyMaker /\ t.init = s.init /\ t.curKeyCT = s.curKeyCT /\ t.curKey = s.curKey
        /\ t.KMepoch = s.KMepoch /\ t.kmtp = s.kmtp /\ t.subMr = s.subMr /\ t.rekey = s.rekey
        /\ t.mbrList = s.mbrList /\ t.coll = s.coll /\ t.conf = s.conf
    BY SMT, <2>1, <2>2, <2>4 DEF State
  <2>7. KeyOK(n, t) BY <1>1, <2>6 DEF NodeOK, KeyOK, Fresh
  <2>8. ElectionOK(n, t) BY SMT, <1>4, <1>10, <2>6 DEF ElectionOK
  <2>9. NodeOK(n, t) BY <1>1, <2>4, <2>5, <2>6, <2>7, <2>8 DEF NodeOK
  <2>10. Acts(n, s, t) BY <1>1, <2>2, <2>4, <2>6, <2>9 DEF Acts, Fresh, Asked
  <2> QED BY <2>10 DEF t, d
<1>11. ASSUME ~Won(el), NEW t \in EDone(n, c, FALSE) PROVE Acts(n, s, t)
  <2>1. ~Won(c.el) /\ ~c.subGk BY <1>1, <1>8, <1>11
  <2>2. Acts(n, c, t) BY <1>7, <1>8, <1>9, <1>11, <2>1, EDoneActs
  <2> QED BY SMT, <1>8, <2>2 DEF Acts, Asked
<1>12. ~Won(el) => Ready(n, s, c) BY <1>7, <1>8, <1>9 DEF Ready
<1> QED BY <1>10, <1>11, <1>12

\* Two states that differ in nothing but what is published
BarOut(x, y) ==
    /\ y \in State
    /\ y.up = x.up /\ y.el = x.el /\ y.met = x.met /\ y.subGk = x.subGk /\ y.mrPending = x.mrPending
    /\ y.keyMaker = x.keyMaker /\ y.init = x.init /\ y.curKeyCT = x.curKeyCT /\ y.curKey = x.curKey
    /\ y.KMepoch = x.KMepoch /\ y.kmtp = x.kmtp /\ y.subMr = x.subMr /\ y.rekey = x.rekey
    /\ y.mbrList = x.mbrList /\ y.coll = x.coll /\ y.conf = x.conf

\* A handler that only publishes
LEMMA OutFacts ==
    ASSUME NEW x \in State, NEW o \in SUBSET Post, NEW y, y = [x EXCEPT !.out = o]
    PROVE  BarOut(x, y)
BY DEF BarOut, State

\* The end of an election
LEMMA TimerActs ==
    ASSUME NEW n \in Node, NEW s, NodeOK(n, s), s.electing, clock \in Nat, scheme \in Schemes,
           NEW el, el = ElectionDone(s.el),
           NEW u, u = [s EXCEPT !.el = el],
           NEW c, c = IF Won(el) THEN PublishKM(n, u, "elec") ELSE u,
           NEW t \in EDone(n, c, Won(el))
    PROVE  Acts(n, s, t) /\ Ready(n, s, c) /\ (Won(el) => c.el.epoch = 1 /\ Candidate(n))
<1>1. s \in State /\ s.up /\ ~s.subGk /\ Fresh(s) /\ PostsOK(n, s) /\ s.el \in El
  BY DEF NodeOK, KeyOK, State, El
<1>2. el \in El /\ Won(el) = Won(s.el) /\ el.priority = s.el.priority /\ (Won(el) => el.epoch = s.el.epoch + 1)
  BY SMT, <1>1 DEF ElectionDone, El, Won
<1>3. \A x \in State, e \in El : [x EXCEPT !.el = e] \in State BY SMT DEF State, El
<1>4. u \in State BY <1>1, <1>2, <1>3
<1>5. /\ u.up /\ u.el = el /\ u.met = s.met /\ u.subGk = s.subGk
      /\ u.mrPending = s.mrPending /\ u.out = s.out
      /\ u.keyMaker = s.keyMaker /\ u.init = s.init /\ u.curKeyCT = s.curKeyCT /\ u.curKey = s.curKey
      /\ u.KMepoch = s.KMepoch /\ u.kmtp = s.kmtp /\ u.subMr = s.subMr /\ u.rekey = s.rekey
      /\ u.mbrList = s.mbrList /\ u.coll = s.coll /\ u.conf = s.conf
  BY <1>1 DEF State
<1>6. PostsOK(n, u) BY <1>1, <1>5 DEF PostsOK, Asked
<1>7. /\ c = [u EXCEPT !.out = c.out] /\ c.out \in SUBSET Post /\ PostsOK(n, c)
      /\ \A q \in c.out : q.type = "gk" => q \in u.out
  <2>1. CASE Won(el) BY <1>4, <1>6, <2>1, KMFacts
  <2>2. CASE ~Won(el)
    <3>1. u = [u EXCEPT !.out = u.out] /\ u.out \in SUBSET Post BY <1>4 DEF State
    <3> QED BY <1>6, <2>2, <3>1
  <2> QED BY <2>1, <2>2
<1>8. BarOut(u, c) BY <1>4, <1>7, OutFacts
<1>9. /\ c \in State /\ c.up /\ c.el = el /\ c.met = s.met /\ c.subGk = s.subGk
      /\ c.mrPending = s.mrPending
      /\ c.keyMaker = s.keyMaker /\ c.init = s.init /\ c.curKeyCT = s.curKeyCT /\ c.curKey = s.curKey
      /\ c.KMepoch = s.KMepoch /\ c.kmtp = s.kmtp /\ c.subMr = s.subMr /\ c.rekey = s.rekey
      /\ c.mbrList = s.mbrList /\ c.coll = s.coll /\ c.conf = s.conf
  BY SMT, <1>5, <1>8 DEF BarOut
<1>10. Fresh(c) /\ ~c.subGk BY <1>1, <1>9 DEF Fresh
<1>11. Won(c.el) => /\ Candidate(n) /\ c.el.priority = Pri[n] /\ \A m \in c.met : Beats(n, m)
                    /\ c.el.epoch = 1
  <2>1. SUFFICES ASSUME Won(el)
                 PROVE  /\ Candidate(n) /\ el.priority = Pri[n] /\ \A m \in s.met : Beats(n, m)
                        /\ el.epoch = 1
    BY <1>9
  <2>2. Won(s.el) BY <1>2, <2>1 DEF Won
  <2>3. /\ Candidate(n) /\ s.el.priority = Pri[n] /\ s.el.epoch = 0 /\ \A m \in s.met : Beats(n, m)
    BY <2>2 DEF NodeOK, ElectionOK
  <2>4. el.epoch = s.el.epoch + 1 /\ el.priority = s.el.priority BY <1>2, <2>1
  <2> QED BY SMT, <2>3, <2>4
<1>12. Won(el) \in BOOLEAN BY SMT DEF Won
<1>13. Acts(n, c, t) BY <1>7, <1>9, <1>10, <1>11, <1>12, EDoneActs
<1>14. Acts(n, s, t) BY SMT, <1>5, <1>7, <1>9, <1>13 DEF Acts, Asked
<1>15. Ready(n, s, c) BY <1>7, <1>9, <1>10, <1>11 DEF Ready
<1> QED BY <1>9, <1>11, <1>14, <1>15

\* The refresh timer
LEMMA RefreshActs ==
    ASSUME NEW n \in Node, NEW s, NodeOK(n, s), s.mrPending
    PROVE  Goes(n, s, PublishMembershipReq(n, s))
<1>1. s.subGk BY DEF NodeOK, KeyOK, Fresh
<1> QED BY <1>1, Requested

\* The delivery callback
LEMMA ConfirmGoes ==
    ASSUME NEW n \in Node, NEW s, NodeOK(n, s), s.conf # {}, scheme \in Schemes
    PROVE  Goes(n, s, InitDone(s))
<1> DEFINE t == [s EXCEPT !.init = FALSE, !.conf = {}]
<1>1. s \in State /\ s.subGk /\ scheme.kind # "GK" /\ s.curKey # NoKey BY DEF NodeOK, KeyOK, Fresh
<1>2. t \in State BY <1>1 DEF State
<1>3. /\ t.mrPending = s.mrPending /\ t.out = s.out /\ t.subGk = s.subGk /\ t.up = s.up /\ t.electing = s.electing
      /\ t.keyMaker = s.keyMaker /\ t.KMepoch = s.KMepoch /\ ~t.init
      /\ t.curKeyCT = s.curKeyCT /\ t.curKey = s.curKey /\ t.mbrList = s.mbrList
      /\ t.rekey = s.rekey /\ t.coll = s.coll /\ t.conf = {} /\ t.met = s.met /\ t.el = s.el
  BY <1>1 DEF State
<1>4. InitDone(s) = t BY DEF InitDone
<1> HIDE DEF t
<1>5. KeyOK(n, t) BY <1>1, <1>3 DEF NodeOK, KeyOK
<1>6. ElectionOK(n, t) BY <1>3 DEF NodeOK, ElectionOK
<1>7. PostsOK(n, t) BY <1>1, <1>3 DEF NodeOK, PostsOK, Asked
<1>8. NodeOK(n, t) BY <1>2, <1>3, <1>5, <1>6, <1>7 DEF NodeOK
<1> QED BY <1>3, <1>4, <1>8 DEF Goes, Asked
-------------------------------------------------------------------------------
\* There is at most one candidate.
Sole == \A a, b \in Node : Pri[a] > 0 /\ Pri[b] > 0 => a = b

\* A member knows the only key maker there is as soon as it has a key.
MemberOK(n, t) ==
    Pri[n] = 0 => /\ t.curKeyCT = t.curKey.ct
                  /\ t.KMepoch = 0 \/ (t.KMepoch = 1 /\ t.kmtp \in Node /\ Pri[t.kmtp] > 0)
                  /\ t.curKey # NoKey => t.KMepoch = 1 /\ Pri[t.curKey.km] > 0

\* What a handler may do to the key of a node when there is one candidate only: a member
\* takes newer keys of the one it knows.
Learns(n, s, t) ==
    /\ MemberOK(n, t)
    /\ Pri[n] = 0 => s.curKey.ct <= t.curKey.ct /\ t.curKey.ct <= clock
    /\ Pri[n] # 0 => t.curKey = s.curKey

\* A node as it is in the invariant, with key lists that are not from the future
Versed(n, s) ==
    /\ NodeOK(n, s) /\ MemberOK(n, s) /\ clock \in Nat /\ s.curKey.ct <= clock
    /\ \A p \in s.coll : p.type = "gk" => p.ct <= clock

\* A handler that leaves the key alone
LEMMA SameLearns ==
    ASSUME NEW n \in Node, NEW s, NEW t, Versed(n, s), t.curKey = s.curKey,
           t.curKeyCT = s.curKeyCT, t.KMepoch = s.KMepoch, t.kmtp = s.kmtp
    PROVE  Learns(n, s, t)
<1>1. s.curKey.ct \in Nat BY SMT DEF Versed, NodeOK, State, Key, NoKey
<1>2. MemberOK(n, t) BY DEF Versed, MemberOK
<1> QED BY SMT, <1>1, <1>2 DEF Versed, Learns

\* A key list that arrives at a member: it is from the key maker the member knows, if it
\* has a key, so that the creation time of that key counts.
LEMMA MemberTakes ==
    ASSUME Sole, NEW n \in Node, Pri[n] = 0, NEW s, Versed(n, s), NEW p \in KeyList, PostOK(p), p.ct <= clock
    PROVE  /\ Learns(n, s, TakeKey(n, s, p)) /\ Learns(n, s, TakePublicKey(n, s, p))
           /\ n \in p.tps /\ p.lo <= n /\ n <= p.hi => p.ct <= TakeKey(n, s, p).curKey.ct
<1> DEFINE k == Recognise(s, p)
           o == [k EXCEPT !.offered = IF n \in p.tps THEN @ \cup {p.key} ELSE @]
           t == InitDone([o EXCEPT !.curKeyCT = p.ct, !.curKey = p.key, !.mrPending = FALSE])
           u == InitDone([k EXCEPT !.curKeyCT = p.ct, !.curKey = p.key])
           c == s.curKey.ct
<1>1. /\ p.from \in Node /\ p.epoch = 1 /\ p.ct \in Nat \ {0} /\ p.key \in Key /\ p.lo \in Nat /\ p.hi \in Nat
      /\ n \in Nat /\ Pri[p.from] > 0 /\ p.key = [km |-> p.from, ct |-> p.ct] /\ p.type = "gk"
  BY NodeAssumption DEF KeyList, PostOK
<1>2. s \in State /\ MemberOK(n, s) /\ clock \in Nat /\ c <= clock BY DEF Versed, NodeOK
<1>3. c \in Nat /\ s.curKeyCT = c BY <1>2 DEF State, Key, NoKey, MemberOK
<1>4. /\ k \in State /\ k.curKey = s.curKey /\ k.curKeyCT = c /\ k.KMepoch = 1
      /\ k.kmtp \in Node /\ Pri[k.kmtp] > 0
  <2>1. CASE Known(s, p)
    <3>1. k = s BY <2>1, <1>1, <1>2, RecogniseFacts
    <3> QED BY SMT, <1>1, <1>2, <1>3, <2>1, <3>1 DEF Known, MemberOK
  <2>2. CASE ~Known(s, p)
    <3>1. s.KMepoch # 1
      <4>1. SUFFICES ASSUME s.KMepoch = 1 PROVE FALSE
        OBVIOUS
      <4>2. s.kmtp \in Node /\ Pri[s.kmtp] > 0 BY SMT, <1>2, <4>1 DEF MemberOK
      <4>3. s.kmtp = p.from BY <1>1, <4>2 DEF Sole
      <4>4. s.kmtp \in Nat BY <4>2, NodeAssumption
      <4> QED BY SMT, <1>1, <2>2, <4>1, <4>3, <4>4 DEF Known
    <3>2. s.curKey = NoKey /\ c = 0 BY SMT, <1>2, <3>1 DEF MemberOK, NoKey
    <3> DEFINE r == [s EXCEPT !.KMepoch = p.epoch, !.kmtp = p.from, !.curKeyCT = 0]
    <3>3. k = r BY <1>1, <1>2, <2>2, RecogniseFacts
    <3>4. r \in State
      <4>1. p.epoch \in Nat /\ p.from \in Node BY SMT, <1>1
      <4>2. s \in State BY <1>2
      <4> QED BY <4>1, <4>2 DEF State
    <3>5. r.curKey = s.curKey /\ r.curKeyCT = 0 /\ r.KMepoch = p.epoch /\ r.kmtp = p.from
      BY <1>2 DEF State
    <3> HIDE DEF r
    <3> QED BY <1>1, <3>2, <3>3, <3>4, <3>5
  <2> QED BY <2>1, <2>2
<1> HIDE DEF k
<1>5. Learns(n, s, k) BY SMT, <1>2, <1>3, <1>4 DEF Learns, MemberOK
<1>6. /\ o \in State /\ o.curKey = k.curKey /\ o.curKeyCT = k.curKeyCT /\ o.KMepoch = k.KMepoch /\ o.kmtp = k.kmtp
  BY SMT, <1>1, <1>4 DEF State
<1> HIDE DEF o
<1>7. Learns(n, s, o) /\ o.curKey.ct = c BY SMT, <1>2, <1>3, <1>4, <1>6 DEF Learns, MemberOK
<1>8. /\ t.curKey = p.key /\ t.curKeyCT = p.ct /\ t.KMepoch = 1 /\ t.kmtp \in Node /\ Pri[t.kmtp] > 0
      /\ u.curKey = p.key /\ u.curKeyCT = p.ct /\ u.KMepoch = 1 /\ u.kmtp \in Node /\ Pri[u.kmtp] > 0
  BY <1>4, <1>6 DEF State, InitDone
<1> HIDE DEF t, u
<1>9. p.key.ct = p.ct /\ Pri[p.key.km] > 0 BY SMT, <1>1
<1>10. p.ct > c => Learns(n, s, t) /\ Learns(n, s, u)
  <2>1. MemberOK(n, t) /\ MemberOK(n, u) BY <1>8, <1>9 DEF MemberOK
  <2> QED BY SMT, <1>1, <1>3, <1>8, <1>9, <2>1 DEF Learns
<1>11. TakeKey(n, s, p) = IF n < p.lo \/ n > p.hi THEN k
                          ELSE IF p.ct <= k.curKeyCT \/ n \notin p.tps THEN o ELSE t
  BY DEF TakeKey, k, o, t
<1>12. TakePublicKey(n, s, p) = IF p.ct <= k.curKeyCT THEN k ELSE u BY DEF TakePublicKey, k, u
<1>13. Learns(n, s, TakeKey(n, s, p)) BY SMT, <1>1, <1>3, <1>4, <1>5, <1>7, <1>10, <1>11
<1>14. Learns(n, s, TakePublicKey(n, s, p)) BY SMT, <1>1, <1>3, <1>4, <1>5, <1>10, <1>12
<1>15. n \in p.tps /\ p.lo <= n /\ n <= p.hi => p.ct <= TakeKey(n, s, p).curKey.ct
  BY SMT, <1>1, <1>3, <1>4, <1>7, <1>8, <1>9, <1>11
<1> QED BY <1>13, <1>14, <1>15

\* The deliveries: the candidate has no key lists to get.
LEMMA DeliverLearns ==
    ASSUME Sole, NEW n \in Node, NEW s, Versed(n, s), NEW p \in s.coll
    PROVE  /\ Learns(n, s, Deliver(n, s, p))
           /\ Pri[n] = 0 /\ p.type = "gk" /\ Asked(s) /\ IsSubr(n) /\ n \in p.tps /\ p.lo <= n /\ n <= p.hi
                 => p.ct <= Deliver(n, s, p).curKey.ct
<1> DEFINE d == Deliver(n, s, p)
<1>1. NodeOK(n, s) /\ PostOK(p) /\ p.from # n BY DEF Versed, NodeOK, PostsOK
<1>2. p \in Post /\ p.from \in Node /\ p.type \in {"gk", "mr", "cand", "elec"} /\ (p.type = "gk" => p \in KeyList)
  BY <1>1, PostKinds DEF PostOK
<1>3. s \in State /\ Pri[n] \in 0..9 BY <1>1, NodeAssumption DEF NodeOK
<1>4. CASE p.type \in {"cand", "elec"}
  <2>1. d.curKey = s.curKey /\ d.curKeyCT = s.curKeyCT /\ d.KMepoch = s.KMepoch /\ d.kmtp = s.kmtp
    BY <1>3, <1>4 DEF Deliver, State
  <2> QED BY <1>4, <2>1, SameLearns
<1>5. CASE p.type = "mr"
  <2>1. \A x \in State : /\ InitDone(x).curKey = x.curKey /\ InitDone(x).curKeyCT = x.curKeyCT
                         /\ InitDone(x).KMepoch = x.KMepoch /\ InitDone(x).kmtp = x.kmtp
    BY DEF InitDone, State
  <2>2. d \in {s, Join(n, s, p.from)} /\ (~s.keyMaker => d = s)
    BY <1>5 DEF Deliver, AddGroupMem, AddSGroupMem
  <2>3. CASE d = s BY <1>5, <2>3, SameLearns
  <2>4. CASE d # s
    <3>1. s.keyMaker /\ d = Join(n, s, p.from) BY <2>2, <2>4
    <3>2. Goes(n, s, d) BY <1>1, DeliverGoes
    <3>3. Candidate(n) BY <1>1, <3>1 DEF NodeOK, KeyOK
    <3>4. Pri[n] # 0 BY SMT, <1>3, <3>3 DEF Candidate
    <3>5. d.curKey = s.curKey
      <4> DEFINE t == [s EXCEPT !.mbrList = @ \cup {p.from}]
                 u == PublishKeyRange(n, t, p.from, p.from, {p.from})
      <4>1. t.curKey = s.curKey /\ u.curKey = t.curKey BY <1>3 DEF State, PublishKeyRange
      <4>2. InitDone(u).curKey = u.curKey BY <1>3 DEF InitDone, PublishKeyRange, State
      <4>3. d = IF s.curKeyCT = 0 THEN t ELSE InitDone(u) BY <3>1 DEF Join
      <4> HIDE DEF t, u, d
      <4> QED BY <4>1, <4>2, <4>3
    <3> QED BY <1>5, <3>4, <3>5 DEF Learns, MemberOK
  <2> QED BY <2>3, <2>4
<1>6. CASE p.type = "gk"
  <2>1. p \in KeyList /\ Pri[p.from] > 0 /\ p.ct <= clock BY <1>1, <1>2, <1>6 DEF PostOK, Versed
  <2>2. Pri[n] = 0 BY SMT, <1>1, <1>2, <1>3, <2>1 DEF Sole
  <2>3. ~s.keyMaker BY SMT, <1>1, <2>2 DEF NodeOK, KeyOK, Candidate
  <2>4. CASE ~s.subGk
    <3>1. d = s BY <1>6, <2>4 DEF Deliver
    <3> QED BY <2>4, <3>1, SameLearns DEF Asked
  <2>5. CASE s.subGk
    <3>0. Pri[p.from] # 0 BY SMT, <1>2, <2>1, NodeAssumption
    <3>1. /\ d \in {PublishMembershipReq(n, s), TakeKey(n, s, p), TakePublicKey(n, s, p)}
          /\ Asked(s) /\ IsSubr(n) => d = TakeKey(n, s, p)
      BY <1>6, <2>3, <2>5, <3>0 DEF Deliver, ReceiveGKeyList, ReceiveSGKeyRecords, Asked
    <3>2. /\ Learns(n, s, TakeKey(n, s, p)) /\ Learns(n, s, TakePublicKey(n, s, p))
          /\ n \in p.tps /\ p.lo <= n /\ n <= p.hi => p.ct <= TakeKey(n, s, p).curKey.ct
      BY <1>1, <2>1, <2>2, MemberTakes
    <3>3. Learns(n, s, PublishMembershipReq(n, s))
      <4> DEFINE t == PublishMembershipReq(n, s)
      <4>1. t.curKey = s.curKey /\ t.curKeyCT = s.curKeyCT /\ t.KMepoch = s.KMepoch /\ t.kmtp = s.kmtp
        BY <1>3 DEF PublishMembershipReq, State
      <4> HIDE DEF t
      <4>2. Learns(n, s, t) BY <4>1, SameLearns
      <4> QED BY <4>2 DEF t
    <3> QED BY <3>1, <3>2, <3>3
  <2> QED BY <2>4, <2>5
<1> QED BY <1>2, <1>4, <1>5, <1>6

\* A new subscription
LEMMA SubscribeLearns ==
    ASSUME Sole, NEW n \in Node, NEW s, Versed(n, s), NEW type, NEW t \in AfterSubscribe(n, s, type)
    PROVE  Learns(n, s, t)
<1> DEFINE P == {x \in State : Goes(n, s, x) /\ Learns(n, s, x) /\ Versed(n, x)}
<1>1. NodeOK(n, s) /\ s \in State BY DEF Versed, NodeOK
<1>2. IsFiniteSet(OfType(s, type)) /\ \A p \in OfType(s, type) : p \in s.coll
  BY <1>1, FS_Subset DEF OfType, NodeOK, PostsOK
<1>3. s \in P BY <1>1, GoesSelf, SameLearns
<1>4. ASSUME NEW x \in P, NEW p \in OfType(s, type) PROVE Deliver(n, x, p) \in P
  <2> DEFINE d == Deliver(n, x, p)
  <2>1. Goes(n, s, x) /\ Learns(n, s, x) /\ Versed(n, x) /\ x \in State OBVIOUS
  <2>2. p \in x.coll BY <1>2, <2>1 DEF Goes
  <2>3. Learns(n, x, d) BY <2>1, <2>2, DeliverLearns
  <2>4. Goes(n, x, d) BY <2>1, <2>2, DeliverGoes DEF Versed
  <2> HIDE DEF d
  <2>5. Goes(n, s, d) /\ d \in State
    <3>1. Goes(n, s, d) BY <2>1, <2>4, GoesOn
    <3> QED BY <3>1 DEF Goes, NodeOK
  <2>6. s.curKey.ct \in Nat /\ x.curKey.ct \in Nat /\ d.curKey.ct \in Nat
    BY SMT, <1>1, <2>1, <2>5 DEF State, Key, NoKey
  <2>7. Learns(n, s, d) BY SMT, <2>1, <2>3, <2>6 DEF Learns
  <2>8. d.curKey.ct <= clock
    <3>1. CASE Pri[n] = 0 BY <2>3, <3>1 DEF Learns
    <3>2. CASE Pri[n] # 0 BY <2>1, <2>3, <3>2 DEF Learns, Versed
    <3> QED BY <3>1, <3>2
  <2>9. Versed(n, d) BY <2>1, <2>4, <2>7, <2>8 DEF Versed, Goes, Learns
  <2> QED BY <2>5, <2>7, <2>9 DEF d
<1>5. AfterSubscribe(n, s, type) \subseteq P
  <2> HIDE DEF P
  <2> QED BY <1>2, <1>3, <1>4, AllDelivered
<1> QED BY <1>5

\* The end of an election, for the only candidate
LEMMA EDoneLearns ==
    ASSUME Sole, NEW n \in Node, Pri[n] # 0, NEW s \in State, s.up, Fresh(s), PostsOK(n, s), NEW elected \in BOOLEAN,
           Won(s.el) => Candidate(n) /\ s.el.priority = Pri[n] /\ \A m \in s.met : Beats(n, m),
           elected => s.el.epoch = 1 /\ Candidate(n), clock \in Nat, scheme \in Schemes,
           \A p \in s.coll : p.type = "gk" => p.ct <= clock,
           NEW t \in EDone(n, s, elected)
    PROVE  t.keyMaker \/ t.curKey = s.curKey
<1> DEFINE g == Listening(n, s, elected)
<1>1. NodeOK(n, g) BY ListeningOK
<1>2. g.subGk /\ g.coll = s.coll /\ g.curKey = s.curKey BY DEF Listening, State
<1>3. g.curKey.ct = 0 BY SMT, <1>2 DEF Fresh, NoKey
<1>4. ~elected => t \in AfterSubscribe(n, g, "gk") BY DEF EDone, Listening
<1>5. elected => \E v \in AfterSubscribe(n, g, "gk") :
         t \in {GkeyTimeout(n, u) : u \in AfterSubscribe(n, [v EXCEPT !.subMr = TRUE], "mr")}
  BY DEF EDone, Listening
<1> HIDE DEF g
<1>6. Versed(n, g) BY SMT, <1>1, <1>2, <1>3 DEF Versed, MemberOK
<1>7. CASE ~elected BY <1>2, <1>4, <1>6, <1>7, SubscribeLearns DEF Learns
<1>8. CASE elected
  <2>1. PICK v \in AfterSubscribe(n, g, "gk") :
           t \in {GkeyTimeout(n, u) : u \in AfterSubscribe(n, [v EXCEPT !.subMr = TRUE], "mr")}
    BY <1>5, <1>8
  <2> DEFINE w == [v EXCEPT !.subMr = TRUE]
  <2>2. PICK u \in AfterSubscribe(n, w, "mr") : t = GkeyTimeout(n, u) BY <2>1
  <2>3. Goes(n, g, v) /\ v.curKey = g.curKey
    BY <1>1, <1>6, SubscribeGoes, SubscribeLearns DEF Learns
  <2>4. NodeOK(n, v) /\ v.subGk /\ v.coll = g.coll /\ v \in State BY <1>2, <2>3 DEF Goes, NodeOK
  <2>5. Goes(n, v, w) /\ w.curKey = v.curKey
    <3>1. Goes(n, v, w) BY <2>4, SubMrGoes
    <3>2. w.curKey = v.curKey BY <2>4 DEF State
    <3> QED BY <3>1, <3>2
  <2> HIDE DEF w
  <2>6. NodeOK(n, w) /\ w.coll = g.coll /\ w.subGk BY <2>4, <2>5 DEF Goes
  <2>7. Versed(n, w) BY SMT, <1>2, <1>3, <2>3, <2>5, <2>6 DEF Versed, MemberOK
  <2>8. Goes(n, w, u) /\ u.curKey = w.curKey
    BY <2>6, <2>7, SubscribeGoes, SubscribeLearns DEF Learns
  <2>9. NodeOK(n, u) /\ u.subGk BY <2>6, <2>8 DEF Goes
  <2>10. Makes(n, u, t) BY <2>2, <2>9, TimeoutMakes
  <2> QED BY <1>2, <2>3, <2>5, <2>8, <2>10 DEF Makes
<1> QED BY <1>7, <1>8
================================================================================
