---------------------------- MODULE DistGKey_proofs ----------------------------
(***************************************************************************)
(* Proofs about DistGKey, for any nodes, priorities, kinds of distributor  *)
(* and sizes of the key lists.                                             *)
(*                                                                         *)
(* The inductive invariant Inv has what holds of each node (NodeOK) and    *)
(* Warned, that of two key makers the lower one has the list of the other  *)
(* on its way. SoleInv adds what holds of members and keys while only one  *)
(* node can be key maker. Every action is a handler's step on one node     *)
(* (Handled) or the expiry of a publication (Lapses).                      *)
(***************************************************************************)
EXTENDS DistGKey_node_proofs

\* Zenon proves the leaves that do not name another prover.
USE Zenon

\* Of two key makers the lower has a key list of the other to come; so has a node whose
\* election is not over, unless the list is in its collection.
Warned ==
    \A a, b \in Node : a < b /\ node[b].keyMaker /\ (node[a].keyMaker \/ ~node[a].subGk) =>
        \E p \in net[a] \cup node[a].coll :
            p.type = "gk" /\ p.from = b /\ (node[a].subGk => p \in net[a])

\* The inductive invariant
Inv ==
    /\ scheme \in Schemes /\ clock \in Nat
    /\ node \in [Node -> State] /\ net \in [Node -> SUBSET Post]
    /\ \A n \in Node : NodeOK(n, node[n]) /\ node[n].out = {}
    /\ \A n \in Node : IsFiniteSet(net[n]) /\ \A p \in net[n] : PostOK(p) /\ p.from # n
    /\ \A n \in Node : node[n].curKey.ct <= clock
    /\ Warned
-------------------------------------------------------------------------------
\* What one candidate alone can guarantee
SoleInv ==
    /\ \A n \in Node : MemberOK(n, node[n])
    /\ \A n \in Node : \A p \in net[n] \cup node[n].coll :
          /\ p.type = "gk" => p.ct <= clock
          /\ p.type = "mr" => Asked(node[p.from])
    /\ \A k \in Node : node[k].keyMaker =>
          /\ node[k].curKeyCT = clock /\ clock # 0
          /\ \A m \in node[k].mbrList :
                /\ Asked(node[m]) /\ IsSubr(m)
                /\ node[m].curKey = node[k].curKey
                   \/ \E p \in net[m] : Covers(p, m, node[k].curKey)
-------------------------------------------------------------------------------
\* What is left of a node's state when its handler is done
Settled(n, t) ==
    [t EXCEPT !.out = {}, !.coll = {p \in t.coll : Matters(n, t, p) /\ ~Delivered(t, p)}]

\* That is still a good state.
LEMMA SettledOK ==
    ASSUME NEW n \in Node, NEW t, NodeOK(n, t)
    PROVE  LET u == Settled(n, t)
           IN  /\ NodeOK(n, u) /\ u.out = {} /\ u.coll \subseteq t.coll
               /\ u.keyMaker = t.keyMaker /\ u.subGk = t.subGk /\ u.curKey = t.curKey
               /\ u.curKeyCT = t.curKeyCT /\ u.mbrList = t.mbrList /\ u.KMepoch = t.KMepoch
               /\ u.kmtp = t.kmtp /\ u.init = t.init /\ u.mrPending = t.mrPending
               /\ ~t.subGk => \A p \in t.coll : p.type = "gk" => p \in u.coll
<1> DEFINE C == {p \in t.coll : Matters(n, t, p) /\ ~Delivered(t, p)}
           u == Settled(n, t)
<1>1. t \in State BY DEF NodeOK
<1>2. C \subseteq t.coll /\ C \in SUBSET Post BY <1>1 DEF State
<1>3. ~t.subGk => \A p \in t.coll : p.type = "gk" => p \in C BY DEF Matters, Delivered
<1>4. u = [t EXCEPT !.out = {}, !.coll = C] BY DEF Settled
<1> HIDE DEF C, u
<1>5. u \in State BY <1>1, <1>2, <1>4 DEF State
<1>6. /\ u.mrPending = t.mrPending /\ u.out = {} /\ u.subGk = t.subGk /\ u.up = t.up /\ u.electing = t.electing
      /\ u.keyMaker = t.keyMaker /\ u.init = t.init /\ u.curKeyCT = t.curKeyCT /\ u.curKey = t.curKey
      /\ u.KMepoch = t.KMepoch /\ u.kmtp = t.kmtp /\ u.subMr = t.subMr /\ u.rekey = t.rekey
      /\ u.mbrList = t.mbrList /\ u.coll = C /\ u.conf = t.conf /\ u.met = t.met /\ u.el = t.el
  BY <1>1, <1>4 DEF State
<1>7. KeyOK(n, u) BY <1>6 DEF NodeOK, KeyOK, Fresh
<1>8. ElectionOK(n, u) BY <1>6 DEF NodeOK, ElectionOK
<1>9. IsFiniteSet(u.out) /\ IsFiniteSet(u.coll)
  BY <1>2, <1>6, FS_EmptySet, FS_Subset DEF NodeOK, PostsOK
<1>10. PostsOK(n, u) BY <1>2, <1>6, <1>9 DEF NodeOK, PostsOK
<1>11. NodeOK(n, u) BY <1>5, <1>6, <1>7, <1>8, <1>10 DEF NodeOK
<1> QED BY <1>2, <1>3, <1>6, <1>11 DEF u

\* What a handler is given: the state s of n, with what has just arrived, and in, what
\* is still to come
Given(n, s, in) ==
    /\ s.keyMaker = node[n].keyMaker /\ s.subGk = node[n].subGk
    /\ node[n].coll \subseteq s.coll /\ in \subseteq net[n] /\ net[n] \subseteq in \cup s.coll

\* A key maker that is still one has not been given a list of a larger thumbprint.
Unchallenged(n, s, t, in) ==
    s.keyMaker /\ t.keyMaker => \A p \in net[n] \ in : p.type = "gk" => ~(n < p.from)

\* What a handler leaves behind, of n's and of the others'
Leaves(n, t, in) ==
    /\ node'[n] = Settled(n, t) /\ \A m \in Node \ {n} : node'[m] = node[m]
    /\ node' \in [Node -> State] /\ net' \in [Node -> SUBSET Post]
    /\ net'[n] \subseteq in /\ \A p \in in : p.type = "gk" => p \in net'[n]
    /\ \A m \in Node \ {n} : /\ net[m] \subseteq net'[m] /\ net'[m] \subseteq net[m] \cup t.out
                             /\ \A p \in t.out : p.type = "gk" => p \in net'[m]
    /\ \A m \in Node : IsFiniteSet(net'[m])
    /\ clock' \in Nat /\ clock' >= clock /\ clock' >= t.curKey.ct /\ scheme' = scheme
    /\ clock' = clock \/ clock' = t.curKey.ct

\* Every handler's effect is of that kind.
LEMMA StepFacts ==
    ASSUME Inv, NEW n \in Node, NEW s, NEW t, NEW in, Given(n, s, in), Acts(n, s, t), Step(n, t, in)
    PROVE  Leaves(n, t, in)
<1>1. NodeOK(n, t) BY DEF Acts
<1>2. t \in State /\ t.out \subseteq Post /\ IsFiniteSet(t.out) /\ Settled(n, t) \in State
  BY <1>1, SettledOK DEF NodeOK, State, PostsOK
<1>3. node' = [node EXCEPT ![n] = Settled(n, t)] BY DEF Step, Settled
<1>4. node'[n] = Settled(n, t) /\ (\A m \in Node \ {n} : node'[m] = node[m]) /\ node' \in [Node -> State]
  BY <1>2, <1>3 DEF Inv
<1>5. net' = [m \in Node |-> IF m = n THEN {p \in in : Matters(n, t, p)}
                             ELSE net[m] \cup {p \in t.out : Matters(m, node[m], p)}]
  BY DEF Step
<1>6. in \subseteq net[n] /\ net \in [Node -> SUBSET Post] BY DEF Given, Inv
<1>7. net'[n] = {p \in in : Matters(n, t, p)} /\ net'[n] \subseteq in BY <1>5
<1>8. \A p \in in : p.type = "gk" => p \in net'[n] BY <1>7 DEF Matters
<1>9. ASSUME NEW m \in Node \ {n}
      PROVE  /\ net[m] \subseteq net'[m] /\ net'[m] \subseteq net[m] \cup t.out
             /\ \A p \in t.out : p.type = "gk" => p \in net'[m]
             /\ net'[m] \in SUBSET Post /\ IsFiniteSet(net'[m])
  <2> DEFINE O == {p \in t.out : Matters(m, node[m], p)}
  <2>1. net'[m] = net[m] \cup O BY <1>5
  <2>2. O \subseteq t.out /\ \A p \in t.out : p.type = "gk" => p \in O BY DEF Matters
  <2> HIDE DEF O
  <2>3. IsFiniteSet(O) BY <1>2, <2>2, FS_Subset
  <2>4. IsFiniteSet(net[m]) BY DEF Inv
  <2>5. IsFiniteSet(net[m] \cup O) BY <2>3, <2>4, FS_Union
  <2> QED BY <1>2, <1>6, <2>1, <2>2, <2>5
<1>10. IsFiniteSet(net'[n])
  <2>1. IsFiniteSet(net[n]) BY DEF Inv
  <2> QED BY <1>6, <1>7, <2>1, FS_Subset
<1>11. net' \in [Node -> SUBSET Post]
  <2>1. \A m \in Node : net'[m] \in SUBSET Post BY <1>6, <1>7, <1>9
  <2>2. DOMAIN net' = Node /\ net' = [m \in Node |-> net'[m]] BY <1>5
  <2> QED BY <2>1, <2>2
<1>12. t.curKey.ct \in Nat /\ clock \in Nat BY SMT, <1>2 DEF State, Key, NoKey, Inv
<1>13. /\ clock' \in Nat /\ clock' >= clock /\ clock' >= t.curKey.ct
       /\ clock' = clock \/ clock' = t.curKey.ct
  BY SMT, <1>12 DEF Step
<1> QED BY <1>4, <1>7, <1>8, <1>9, <1>10, <1>11, <1>13 DEF Step, Leaves

\* The invariant's part about two nodes
LEMMA StepWarned ==
    ASSUME Inv, NEW n \in Node, NEW s, NEW t, NEW in, Given(n, s, in), Acts(n, s, t),
           Unchallenged(n, s, t, in), Leaves(n, t, in)
    PROVE  Warned'
<1> DEFINE u == Settled(n, t)
<1>1. /\ NodeOK(n, t) /\ u.keyMaker = t.keyMaker /\ u.subGk = t.subGk
      /\ ~t.subGk => \A p \in t.coll : p.type = "gk" => p \in u.coll
  BY SettledOK DEF Acts
<1>2. \A m \in Node : NodeOK(m, node[m]) /\ m \in Nat BY NodeAssumption DEF Inv
<1>3. \A m \in Node : node[m].keyMaker => node[m].subGk BY <1>2 DEF NodeOK, KeyOK, Fresh
<1> DEFINE Wd(a, b) == \E p \in net[a] \cup node[a].coll :
                          p.type = "gk" /\ p.from = b /\ (node[a].subGk => p \in net[a])
<1>4. SUFFICES ASSUME NEW a \in Node, NEW b \in Node, a < b, node'[b].keyMaker,
                      node'[a].keyMaker \/ ~node'[a].subGk
               PROVE  \E p \in net'[a] \cup node'[a].coll :
                          p.type = "gk" /\ p.from = b /\ (node'[a].subGk => p \in net'[a])
  BY DEF Warned
<1>5. CASE a # n /\ b # n
  <2>1. node'[a] = node[a] /\ node'[b] = node[b] /\ net[a] \subseteq net'[a] BY <1>5 DEF Leaves
  <2>2. Wd(a, b) BY <1>4, <2>1 DEF Inv, Warned
  <2> QED BY <2>1, <2>2
<1>6. CASE b = n
  <2>0. a # n BY SMT, <1>2, <1>4, <1>6
  <2>1. /\ node'[a] = node[a] /\ net[a] \subseteq net'[a]
        /\ \A p \in t.out : p.type = "gk" => p \in net'[a]
        /\ t.keyMaker
    BY <1>1, <1>4, <1>6, <2>0 DEF Leaves
  <2>2. CASE s.keyMaker
    <3>1. node[b].keyMaker BY <1>6, <2>2 DEF Given
    <3>2. Wd(a, b) BY <1>4, <2>1, <3>1 DEF Inv, Warned
    <3> QED BY <2>1, <3>2
  <2>3. CASE ~s.keyMaker
    <3>1. \E p \in t.out : p.type = "gk" /\ p.from = n BY <2>1, <2>3 DEF Acts
    <3> QED BY <1>6, <2>1, <3>1
  <2> QED BY <2>2, <2>3
<1>7. CASE a = n
  <2>0. b # n BY SMT, <1>2, <1>4, <1>7
  <2>1. /\ node'[b] = node[b] /\ node'[n] = u /\ \A p \in in : p.type = "gk" => p \in net'[n]
    BY <2>0 DEF Leaves
  <2> HIDE DEF u
  <2>2. node[b].keyMaker /\ (t.keyMaker \/ ~t.subGk) BY <1>1, <1>4, <1>7, <2>1
  <2>3. s.coll = t.coll /\ (s.subGk => t.subGk) BY DEF Acts
  <2>4. CASE ~t.subGk
    <3>1. ~node[n].subGk BY <2>3, <2>4 DEF Given
    <3>2. PICK p \in net[n] \cup node[n].coll : p.type = "gk" /\ p.from = b
      BY SMT, <1>4, <1>7, <2>2, <3>1 DEF Inv, Warned
    <3>3. p \in in \/ p \in t.coll BY <2>3 DEF Given
    <3>4. p \in net'[n] \/ p \in u.coll BY <1>1, <2>1, <2>4, <3>2, <3>3
    <3> QED BY <1>1, <1>7, <2>1, <2>4, <3>2, <3>4
  <2>5. CASE t.keyMaker /\ s.keyMaker
    <3>1. node[n].keyMaker /\ node[n].subGk BY <1>3, <2>5 DEF Given
    <3>2. PICK p \in net[n] : p.type = "gk" /\ p.from = b
      BY SMT, <1>4, <1>7, <2>2, <3>1 DEF Inv, Warned
    <3>3. p \in in BY <1>4, <1>7, <2>5, <3>2 DEF Unchallenged
    <3> QED BY <1>7, <2>1, <3>2, <3>3
  <2>6. CASE t.keyMaker /\ ~s.keyMaker
    <3>1. ~s.subGk /\ \A q \in s.coll : q.type = "gk" => ~(n < q.from) BY <2>6 DEF Acts
    <3>2. ~node[n].subGk BY <3>1 DEF Given
    <3>3. PICK p \in net[n] \cup node[n].coll : p.type = "gk" /\ p.from = b
      BY SMT, <1>4, <1>7, <2>2, <3>2 DEF Inv, Warned
    <3>4. p \in in BY <1>4, <1>7, <3>1, <3>3 DEF Given
    <3> QED BY <1>7, <2>1, <3>3, <3>4
  <2> QED BY <2>2, <2>4, <2>5, <2>6
<1> QED BY <1>5, <1>6, <1>7

\* The scheme does not change.
LEMMA SameScheme ==
    ASSUME NEW m \in Node, scheme' = scheme, NodeOK(m, node'[m])
    PROVE  NodeOK(m, node[m])'
<1>1. KeyOK(m, node[m])' BY DEF NodeOK, KeyOK, Candidate, IsSubr
<1>2. ElectionOK(m, node[m])' BY DEF NodeOK, ElectionOK, Candidate, IsSubr
<1>3. \A p : PostOK(p) => PostOK(p)' BY DEF PostOK, IsSubr
<1>4. PostsOK(m, node[m])'
  <2>1. PostsOK(m, node'[m]) BY DEF NodeOK
  <2> QED BY <1>3, <2>1 DEF PostsOK
<1> QED BY <1>1, <1>2, <1>4 DEF NodeOK, Candidate, IsSubr

\* A handler preserves the invariant.
LEMMA StepInv ==
    ASSUME Inv, NEW n \in Node, NEW s, NEW t, NEW in, Given(n, s, in), Acts(n, s, t),
           Unchallenged(n, s, t, in), Step(n, t, in)
    PROVE  Inv'
<1>1. Leaves(n, t, in) BY StepFacts
<1>2. Warned' BY <1>1, StepWarned
<1>3. NodeOK(n, t) BY DEF Acts
<1>4. \A m \in Node : NodeOK(m, node'[m]) /\ node'[m].out = {}
  BY SMT, <1>1, <1>3, SettledOK DEF Leaves, Inv
<1>5. scheme' = scheme BY <1>1 DEF Leaves
<1>6. \A m \in Node : NodeOK(m, node[m])' /\ node'[m].out = {}
  BY <1>4, <1>5, SameScheme
<1>7. \A m \in Node : IsFiniteSet(net'[m]) BY <1>1 DEF Leaves
<1>8. ASSUME NEW m \in Node, NEW p \in net'[m] PROVE PostOK(p) /\ p.from # m
  <2>1. CASE p \in net[m] BY <2>1 DEF Inv
  <2>2. CASE p \notin net[m]
    <3>1. m # n /\ p \in t.out BY <1>1, <2>2 DEF Leaves, Given
    <3>2. PostOK(p) /\ p.from = n BY <1>3, <3>1 DEF NodeOK, PostsOK
    <3> QED BY <3>1, <3>2
  <2> QED BY <2>1, <2>2
<1>9. \A m \in Node : \A p \in net'[m] : PostOK(p)' /\ p.from # m BY <1>5, <1>8 DEF PostOK, IsSubr
<1>10. ASSUME NEW m \in Node PROVE node'[m].curKey.ct <= clock'
  <2>1. CASE m = n
    <3>1. node'[n].curKey = t.curKey BY SMT, <1>1, <1>3, SettledOK DEF Leaves
    <3>2. t.curKey.ct \in Nat BY SMT, <1>3 DEF NodeOK, State, Key, NoKey
    <3> QED BY <1>1, <2>1, <3>1, <3>2 DEF Leaves
  <2>2. CASE m # n
    <3>1. node'[m] = node[m] /\ node[m] \in State /\ clock \in Nat BY <1>1, <2>2 DEF Leaves, Inv
    <3>2. node[m].curKey.ct \in Nat BY SMT, <3>1 DEF State, Key, NoKey
    <3>3. node[m].curKey.ct <= clock /\ clock <= clock' /\ clock' \in Nat BY <1>1 DEF Inv, Leaves
    <3> QED BY SMT, <3>1, <3>2, <3>3
  <2> QED BY <2>1, <2>2
<1>11. scheme' \in Schemes /\ clock' \in Nat /\ node' \in [Node -> State] /\ net' \in [Node -> SUBSET Post]
  BY <1>1 DEF Leaves, Inv
<1> QED BY <1>2, <1>6, <1>7, <1>9, <1>10, <1>11 DEF Inv
-------------------------------------------------------------------------------
\* What every action but the expiry of a publication does
Handled(n, s, t, in) ==
    /\ Given(n, s, in) /\ Acts(n, s, t) /\ Unchallenged(n, s, t, in) /\ Step(n, t, in)
    /\ s.curKey = node[n].curKey /\ s.curKeyCT = node[n].curKeyCT /\ s.mbrList = node[n].mbrList
    /\ s.out = {} /\ Asked(s) = Asked(node[n]) /\ s.coll \subseteq net[n] \cup node[n].coll
    /\ Sole /\ SoleInv => (Pri[n] # 0 /\ t.keyMaker) \/ Learns(n, s, t)
    /\ Sole /\ SoleInv /\ Pri[n] = 0 /\ Asked(s) /\ IsSubr(n) =>
          \A p \in net[n] \ in : p.type = "gk" /\ n \in p.tps /\ p.lo <= n /\ n <= p.hi
                                    => p.ct <= t.curKey.ct

\* A handler that gets nothing new
LEMMA HandledSelf ==
    ASSUME Inv, NEW n \in Node, NEW t, Acts(n, node[n], t), Step(n, t, net[n]),
           Sole /\ SoleInv => (Pri[n] # 0 /\ t.keyMaker) \/ Learns(n, node[n], t)
    PROVE  Handled(n, node[n], t, net[n])
<1>1. Given(n, node[n], net[n]) BY DEF Given
<1>2. Unchallenged(n, node[n], t, net[n]) BY DEF Unchallenged
<1>3. node[n].out = {} BY DEF Inv
<1> QED BY <1>1, <1>2, <1>3 DEF Handled

\* The invariants say what Versed does.
LEMMA InvVersed ==
    ASSUME Inv, SoleInv, NEW n \in Node
    PROVE  Versed(n, node[n])
BY DEF Inv, SoleInv, Versed

\* Setup is a handler.
LEMMA SetupHandled ==
    ASSUME Inv, NEW n \in Node, Setup(n)
    PROVE  \E t : Handled(n, node[n], t, net[n])
<1> DEFINE s == node[n]
           d == [s EXCEPT !.up = TRUE]
           el == ElectionStart(n, OfType(d, "elec"), OfType(d, "cand"))
           c == [d EXCEPT !.el = el, !.met = {p.from : p \in OfType(d, "cand")}]
<1>1. NodeOK(n, s) /\ s \in State /\ ~s.up /\ clock \in Nat /\ scheme \in Schemes /\ s.subGk = FALSE
  BY DEF Inv, NodeOK, Setup
<1>2. Fresh(s) BY <1>1 DEF NodeOK, KeyOK
<1>3. \A type : OfType(d, type) = OfType(s, type) BY <1>1 DEF OfType, State
<1>4. Pri[n] \in 0..9 BY NodeAssumption
<1>5. \/ Candidate(n) /\ Won(el) /\ Step(n, PublishKM(n, [c EXCEPT !.electing = TRUE], "cand"), net[n])
      \/ Candidate(n) /\ ~Won(el) /\ \E t \in EDone(n, c, FALSE) : Step(n, t, net[n])
      \/ ~Candidate(n) /\ \E t \in AfterSubscribe(n, [d EXCEPT !.subGk = TRUE], "gk") : Step(n, t, net[n])
  BY DEF Setup
<1>6. ASSUME Candidate(n)
      PROVE  /\ Won(el) => Acts(n, s, PublishKM(n, [c EXCEPT !.electing = TRUE], "cand"))
             /\ ~Won(el) => \A t \in EDone(n, c, FALSE) : Acts(n, s, t)
             /\ ~Won(el) => Ready(n, s, c)
  <2>1. OfType(d, "elec") = OfType(s, "elec") /\ OfType(d, "cand") = OfType(s, "cand") BY <1>3
  <2>2. el = ElectionStart(n, OfType(s, "elec"), OfType(s, "cand")) BY <2>1
  <2>3. c = [[s EXCEPT !.up = TRUE] EXCEPT !.el = el, !.met = {p.from : p \in OfType(s, "cand")}]
    BY <2>1
  <2> HIDE DEF s, el, c, d
  <2> QED BY <1>1, <1>6, <2>2, <2>3, SetupCandidate
<1>7. CASE Candidate(n) /\ Won(el) /\ Step(n, PublishKM(n, [c EXCEPT !.electing = TRUE], "cand"), net[n])
  <2> DEFINE t == PublishKM(n, [c EXCEPT !.electing = TRUE], "cand")
  <2>1. Acts(n, s, t) /\ Step(n, t, net[n]) BY <1>6, <1>7
  <2>2. t.curKey = s.curKey /\ t.curKeyCT = s.curKeyCT /\ t.KMepoch = s.KMepoch /\ t.kmtp = s.kmtp
    <3> HIDE DEF s, el
    <3> QED BY <1>1 DEF PublishKM, State
  <2> HIDE DEF t
  <2>3. SoleInv => Learns(n, s, t) BY <2>2, InvVersed, SameLearns
  <2> QED BY <2>1, <2>3, HandledSelf
<1>8. CASE Candidate(n) /\ ~Won(el) /\ \E t \in EDone(n, c, FALSE) : Step(n, t, net[n])
  <2>1. PICK t \in EDone(n, c, FALSE) : Step(n, t, net[n]) BY <1>8
  <2>2. Acts(n, s, t) /\ Ready(n, s, c) BY <1>6, <1>8
  <2> HIDE DEF c, el
  <2>3. Pri[n] # 0 BY SMT, <1>4, <1>8 DEF Candidate
  <2>4. ASSUME Sole, SoleInv PROVE (Pri[n] # 0 /\ t.keyMaker) \/ Learns(n, s, t)
    <3>1. Versed(n, s) BY <2>4, InvVersed
    <3>2. \A p \in c.coll : p.type = "gk" => p.ct <= clock BY <2>2, <3>1 DEF Ready, Versed
    <3>3. t.keyMaker \/ t.curKey = c.curKey
      BY <1>1, <2>1, <2>2, <2>3, <2>4, <3>2, EDoneLearns DEF Ready
    <3> QED BY <2>2, <2>3, <3>3 DEF Learns, Ready, MemberOK
  <2> QED BY <2>1, <2>2, <2>4, HandledSelf
<1>9. CASE ~Candidate(n) /\ \E t \in AfterSubscribe(n, [d EXCEPT !.subGk = TRUE], "gk") : Step(n, t, net[n])
  <2> DEFINE g == [d EXCEPT !.subGk = TRUE]
  <2>1. PICK t \in AfterSubscribe(n, g, "gk") : Step(n, t, net[n]) BY <1>9
  <2>2. Acts(n, s, t) BY <1>1, <2>1, SetupMember
  <2>3. /\ g.curKey = s.curKey /\ g.curKeyCT = s.curKeyCT /\ g.KMepoch = s.KMepoch /\ g.kmtp = s.kmtp
        /\ g.coll = s.coll
    BY <1>1 DEF State
  <2>4. NodeOK(n, g) BY <1>1, SetupNode
  <2> HIDE DEF g
  <2>5. ASSUME Sole, SoleInv PROVE Learns(n, s, t)
    <3>1. Versed(n, s) BY <2>5, InvVersed
    <3>2. Versed(n, g) BY <2>3, <2>4, <3>1 DEF Versed, MemberOK
    <3>3. Learns(n, g, t) BY <2>1, <2>5, <3>2, SubscribeLearns
    <3> QED BY <2>3, <3>3 DEF Learns
  <2> QED BY <2>1, <2>2, <2>5, HandledSelf
<1> QED BY <1>5, <1>7, <1>8, <1>9

\* So is the end of an election.
LEMMA TimerHandled ==
    ASSUME Inv, NEW n \in Node, ElectionTimer(n)
    PROVE  \E t : Handled(n, node[n], t, net[n])
<1> DEFINE s == node[n]
           el == ElectionDone(s.el)
           u == [s EXCEPT !.el = el]
           c == IF Won(el) THEN PublishKM(n, u, "elec") ELSE u
<1>1. NodeOK(n, s) /\ s \in State /\ s.electing /\ clock \in Nat /\ scheme \in Schemes
  BY DEF Inv, NodeOK, ElectionTimer
<1>2. PICK t \in EDone(n, c, Won(el)) : Step(n, t, net[n]) BY DEF ElectionTimer
<1>3. Acts(n, s, t) /\ Ready(n, s, c) /\ (Won(el) => c.el.epoch = 1 /\ Candidate(n))
  <2> HIDE DEF s, c, el, u
  <2> QED BY <1>1, <1>2, TimerActs DEF c, el, u
<1>4. Won(el) \in BOOLEAN BY SMT DEF Won
<1> HIDE DEF c, el
<1>5. ASSUME Sole, SoleInv PROVE (Pri[n] # 0 /\ t.keyMaker) \/ Learns(n, s, t)
  <2>1. Versed(n, s) BY <1>5, InvVersed
  <2>2. CASE Pri[n] # 0
    <3>1. \A p \in c.coll : p.type = "gk" => p.ct <= clock BY <1>3, <2>1 DEF Ready, Versed
    <3>2. t.keyMaker \/ t.curKey = c.curKey
      BY <1>1, <1>2, <1>3, <1>4, <1>5, <2>2, <3>1, EDoneLearns DEF Ready
    <3> QED BY <1>3, <2>2, <3>2 DEF Learns, Ready, MemberOK
  <2>3. CASE Pri[n] = 0
    <3>1. Pri[n] > 0 BY <1>1 DEF NodeOK, Candidate
    <3> QED BY SMT, <2>3, <3>1
  <2> QED BY <2>2, <2>3
<1> QED BY <1>2, <1>3, <1>5, HandledSelf

\* So is the arrival of a publication.
LEMMA ArriveHandled ==
    ASSUME Inv, NEW n \in Node, NEW p \in net[n], Arrive(n, p)
    PROVE  \E s, t, in : Handled(n, s, t, in)
<1> DEFINE s0 == node[n]
           C == s0.coll \cup {p}
           s == [s0 EXCEPT !.coll = C]
           t == IF s.up THEN Deliver(n, s, p) ELSE s
           in == net[n] \ {p}
<1>1. NodeOK(n, s0) /\ s0 \in State /\ s0.out = {} BY DEF Inv, NodeOK
<1>2. PostOK(p) /\ p.from # n /\ p \in Post BY DEF Inv, PostOK
<1>3. Step(n, t, in) BY DEF Arrive
<1>4. C \in SUBSET Post BY <1>1, <1>2 DEF State
<1>5. IsFiniteSet(C) BY <1>1, FS_AddElement DEF NodeOK, PostsOK
<1>6. p \in C /\ s0.coll \subseteq C /\ \A q \in C : q \in s0.coll \/ q = p OBVIOUS
<1> HIDE DEF C, s0
<1>7. s \in State BY <1>1, <1>4 DEF State
<1>8. /\ s.up = s0.up /\ s.electing = s0.electing /\ s.subGk = s0.subGk /\ s.mrPending = s0.mrPending
      /\ s.keyMaker = s0.keyMaker /\ s.init = s0.init /\ s.curKeyCT = s0.curKeyCT /\ s.curKey = s0.curKey
      /\ s.KMepoch = s0.KMepoch /\ s.kmtp = s0.kmtp /\ s.subMr = s0.subMr /\ s.rekey = s0.rekey
      /\ s.mbrList = s0.mbrList /\ s.conf = s0.conf /\ s.el = s0.el /\ s.met = s0.met
      /\ s.out = s0.out /\ s.coll = C
  BY <1>1 DEF State
<1> HIDE DEF s
<1>9. KeyOK(n, s) BY <1>1, <1>8 DEF NodeOK, KeyOK, Fresh
<1>10. ElectionOK(n, s) BY <1>1, <1>8 DEF NodeOK, ElectionOK
<1>11. PostsOK(n, s) BY <1>1, <1>2, <1>5, <1>6, <1>8 DEF NodeOK, PostsOK, Asked
<1>12. NodeOK(n, s) BY <1>1, <1>7, <1>8, <1>9, <1>10, <1>11 DEF NodeOK
<1>13. /\ Goes(n, s, Deliver(n, s, p))
       /\ p.type = "gk" /\ s.subGk /\ n < p.from => ~Deliver(n, s, p).keyMaker
  BY <1>6, <1>8, <1>12, DeliverGoes
<1>14. Goes(n, s, s) BY <1>12, GoesSelf
<1>15. Acts(n, s, t)
  <2>1. Goes(n, s, t) BY <1>13, <1>14
  <2> HIDE DEF t
  <2> QED BY <2>1, GoesActs
<1>16. s.keyMaker => s.subGk /\ s.up BY <1>12 DEF NodeOK, KeyOK, Fresh
<1>17. Unchallenged(n, s, t, in) BY <1>13, <1>16 DEF Unchallenged
<1>18. Given(n, s, in) BY <1>6, <1>8 DEF Given, s0
<1>19. Asked(s) = Asked(s0) /\ s.coll \subseteq net[n] \cup s0.coll BY <1>6, <1>8 DEF Asked
<1>20. ASSUME Sole, SoleInv
       PROVE  /\ Learns(n, s, t)
              /\ Pri[n] = 0 /\ Asked(s) /\ IsSubr(n) => \A q \in net[n] \ in :
                    q.type = "gk" /\ n \in q.tps /\ q.lo <= n /\ n <= q.hi => q.ct <= t.curKey.ct
  <2>1. Versed(n, s0) BY <1>20, InvVersed DEF s0
  <2>2. p.type = "gk" => p.ct <= clock BY <1>20 DEF SoleInv
  <2>3. Versed(n, s) BY <1>6, <1>8, <1>12, <2>1, <2>2 DEF Versed, MemberOK
  <2>4. /\ Learns(n, s, Deliver(n, s, p))
        /\ Pri[n] = 0 /\ p.type = "gk" /\ Asked(s) /\ IsSubr(n) /\ n \in p.tps /\ p.lo <= n /\ n <= p.hi
              => p.ct <= Deliver(n, s, p).curKey.ct
    BY <1>6, <1>8, <1>20, <2>3, DeliverLearns
  <2>5. Learns(n, s, s) BY <2>3, SameLearns
  <2>6. Asked(s) => s.up BY <1>12 DEF Asked, NodeOK
  <2> QED BY <2>4, <2>5, <2>6
<1> HIDE DEF t, in
<1>21. Handled(n, s, t, in)
  BY <1>1, <1>3, <1>8, <1>15, <1>17, <1>18, <1>19, <1>20 DEF Handled, s0
<1> QED BY <1>21

\* So are the timers and the delivery callback.
LEMMA TimersHandled ==
    ASSUME Inv, NEW n \in Node, MrRefresh(n) \/ Rekey(n) \/ Confirm(n)
    PROVE  \E t : Handled(n, node[n], t, net[n])
<1> DEFINE s == node[n]
<1>1. NodeOK(n, s) /\ s \in State /\ clock \in Nat /\ scheme \in Schemes BY DEF Inv, NodeOK
<1>2. CASE MrRefresh(n)
  <2> DEFINE t == PublishMembershipReq(n, s)
  <2>1. s.mrPending /\ Step(n, t, net[n]) BY <1>2 DEF MrRefresh
  <2>2. t.curKey = s.curKey /\ t.curKeyCT = s.curKeyCT /\ t.KMepoch = s.KMepoch /\ t.kmtp = s.kmtp
    BY <1>1 DEF PublishMembershipReq, State
  <2>3. Acts(n, s, t) BY <1>1, <2>1, RefreshActs, GoesActs
  <2> HIDE DEF t
  <2>4. SoleInv => Learns(n, s, t) BY <2>2, InvVersed, SameLearns
  <2> QED BY <2>1, <2>3, <2>4, HandledSelf
<1>3. CASE Rekey(n)
  <2> DEFINE t == GkeyTimeout(n, s)
  <2>1. s.rekey /\ Step(n, t, net[n]) BY <1>3 DEF Rekey
  <2>2. s.subGk BY <1>1, <2>1 DEF NodeOK, KeyOK, Fresh
  <2>3. Makes(n, s, t) BY <1>1, <2>2, TimeoutMakes
  <2> HIDE DEF t
  <2>4. Acts(n, s, t) BY <2>3 DEF Makes, Acts
  <2>5. ASSUME SoleInv PROVE (Pri[n] # 0 /\ t.keyMaker) \/ Learns(n, s, t)
    <3>1. CASE t.keyMaker
      <4>1. Pri[n] > 0 BY <2>3, <3>1 DEF Makes, NodeOK, KeyOK, Candidate
      <4> QED BY SMT, <3>1, <4>1
    <3>2. CASE ~t.keyMaker BY <2>3, <2>5, <3>2, InvVersed, SameLearns DEF Makes
    <3> QED BY <3>1, <3>2
  <2> QED BY <2>1, <2>4, <2>5, HandledSelf
<1>4. CASE Confirm(n)
  <2> DEFINE t == InitDone(s)
  <2>1. s.conf # {} /\ Step(n, t, net[n]) BY <1>4 DEF Confirm
  <2>2. t.curKey = s.curKey /\ t.curKeyCT = s.curKeyCT /\ t.KMepoch = s.KMepoch /\ t.kmtp = s.kmtp
    BY <1>1 DEF InitDone, State
  <2>3. Acts(n, s, t) BY <1>1, <2>1, ConfirmGoes, GoesActs
  <2> HIDE DEF t
  <2>4. SoleInv => Learns(n, s, t) BY <2>2, InvVersed, SameLearns
  <2> QED BY <2>1, <2>3, <2>4, HandledSelf
<1> QED BY <1>2, <1>3, <1>4

\* A node that has lost a publication from its collection
Without(s, p) == [s EXCEPT !.coll = @ \ {p}]

\* It is still in a good state.
LEMMA WithoutOK ==
    ASSUME NEW n \in Node, NEW s, NodeOK(n, s), NEW p
    PROVE  LET u == Without(s, p)
           IN  /\ NodeOK(n, u) /\ u.out = s.out /\ u.coll = s.coll \ {p}
               /\ u.keyMaker = s.keyMaker /\ u.subGk = s.subGk /\ u.curKey = s.curKey
               /\ u.curKeyCT = s.curKeyCT /\ u.mbrList = s.mbrList /\ u.KMepoch = s.KMepoch
               /\ u.kmtp = s.kmtp /\ u.init = s.init /\ u.mrPending = s.mrPending
<1> DEFINE C == s.coll \ {p}
           u == Without(s, p)
<1>1. s \in State BY DEF NodeOK
<1>2. C \subseteq s.coll /\ C \in SUBSET Post BY <1>1 DEF State
<1>3. u = [s EXCEPT !.coll = C] BY DEF Without
<1> HIDE DEF C, u
<1>4. u \in State BY <1>1, <1>2, <1>3 DEF State
<1>5. /\ u.mrPending = s.mrPending /\ u.out = s.out /\ u.subGk = s.subGk /\ u.up = s.up /\ u.electing = s.electing
      /\ u.keyMaker = s.keyMaker /\ u.init = s.init /\ u.curKeyCT = s.curKeyCT /\ u.curKey = s.curKey
      /\ u.KMepoch = s.KMepoch /\ u.kmtp = s.kmtp /\ u.subMr = s.subMr /\ u.rekey = s.rekey
      /\ u.mbrList = s.mbrList /\ u.coll = C /\ u.conf = s.conf /\ u.met = s.met /\ u.el = s.el
  BY <1>1, <1>3 DEF State
<1>6. KeyOK(n, u) BY <1>5 DEF NodeOK, KeyOK, Fresh
<1>7. ElectionOK(n, u) BY <1>5 DEF NodeOK, ElectionOK
<1>8. IsFiniteSet(u.coll) BY <1>2, <1>5, FS_Subset DEF NodeOK, PostsOK
<1>9. PostsOK(n, u) BY <1>2, <1>5, <1>8 DEF NodeOK, PostsOK, Asked
<1>10. NodeOK(n, u) BY <1>4, <1>5, <1>6, <1>7, <1>9 DEF NodeOK
<1> QED BY <1>5, <1>10 DEF u, C

\* The expiry of a publication: no key lists are lost, and nothing else changes.
Lapses ==
    /\ scheme' = scheme /\ clock' = clock /\ node' \in [Node -> State] /\ net' \in [Node -> SUBSET Post]
    /\ \A m \in Node :
          /\ NodeOK(m, node'[m]) /\ node'[m].out = {}
          /\ node'[m].keyMaker = node[m].keyMaker /\ node'[m].subGk = node[m].subGk
          /\ node'[m].curKey = node[m].curKey /\ node'[m].curKeyCT = node[m].curKeyCT
          /\ node'[m].mbrList = node[m].mbrList /\ node'[m].KMepoch = node[m].KMepoch
          /\ node'[m].kmtp = node[m].kmtp /\ node'[m].init = node[m].init
          /\ node'[m].mrPending = node[m].mrPending
          /\ net'[m] \subseteq net[m] /\ node'[m].coll \subseteq node[m].coll
          /\ \A q \in net[m] : q.type = "gk" => q \in net'[m]
          /\ \A q \in node[m].coll : q.type = "gk" => q \in node'[m].coll

\* Expire and stuttering steps are of that kind.
LEMMA ExpireLapses ==
    ASSUME Inv, (\E n \in Node : \E p \in net[n] \cup node[n].coll : Expire(n, p)) \/ UNCHANGED vars
    PROVE  Lapses
<1>1. node \in [Node -> State] /\ net \in [Node -> SUBSET Post] /\ \A m \in Node : NodeOK(m, node[m]) /\ node[m].out = {}
  BY DEF Inv
<1>2. CASE UNCHANGED vars BY <1>1, <1>2 DEF vars, Lapses
<1>3. CASE \E n \in Node : \E p \in net[n] \cup node[n].coll : Expire(n, p)
  <2>0. PICK n \in Node : \E p \in net[n] \cup node[n].coll : Expire(n, p) BY <1>3
  <2>1. PICK p \in net[n] \cup node[n].coll : Expire(n, p) BY <2>0
  <2>2. p.type # "gk" /\ scheme' = scheme /\ clock' = clock BY <2>1 DEF Expire
  <2>3. CASE net' = [net EXCEPT ![n] = @ \ {p}] /\ UNCHANGED node
    <3>1. \A m \in Node : net'[m] \subseteq net[m] /\ \A q \in net[m] : q.type = "gk" => q \in net'[m]
      BY <1>1, <2>2, <2>3
    <3>2. net' \in [Node -> SUBSET Post] BY <1>1, <2>3
    <3> QED BY <1>1, <2>2, <2>3, <3>1, <3>2 DEF Lapses
  <2>4. CASE node' = [node EXCEPT ![n].coll = @ \ {p}] /\ UNCHANGED net
    <3> DEFINE u == Without(node[n], p)
    <3>1. node' = [node EXCEPT ![n] = u] BY <1>1, <2>4 DEF Without
    <3>2. /\ NodeOK(n, u) /\ u.out = {} /\ u.coll = node[n].coll \ {p}
          /\ u.keyMaker = node[n].keyMaker /\ u.subGk = node[n].subGk /\ u.curKey = node[n].curKey
          /\ u.curKeyCT = node[n].curKeyCT /\ u.mbrList = node[n].mbrList /\ u.KMepoch = node[n].KMepoch
          /\ u.kmtp = node[n].kmtp /\ u.init = node[n].init /\ u.mrPending = node[n].mrPending
      BY SMT, <1>1, WithoutOK
    <3> HIDE DEF u
    <3>3. u \in State BY <3>2 DEF NodeOK
    <3>4. node'[n] = u /\ (\A m \in Node : m # n => node'[m] = node[m]) /\ node' \in [Node -> State]
      BY <1>1, <3>1, <3>3
    <3>5. node'[n].coll \subseteq node[n].coll /\ \A q \in node[n].coll : q.type = "gk" => q \in node'[n].coll
      BY <2>2, <3>2, <3>4
    <3> QED BY <1>1, <2>2, <2>4, <3>2, <3>4, <3>5 DEF Lapses
  <2> QED BY <2>1, <2>3, <2>4 DEF Expire
<1> QED BY <1>2, <1>3

\* They preserve the invariant.
LEMMA LapsesInv ==
    ASSUME Inv, Lapses
    PROVE  Inv'
<1>1. scheme' = scheme /\ clock' = clock BY DEF Lapses
<1>2. \A m \in Node : NodeOK(m, node[m])' /\ node'[m].out = {} BY <1>1, SameScheme DEF Lapses
<1>3. \A m \in Node : IsFiniteSet(net'[m])
  <2>1. \A m \in Node : IsFiniteSet(net[m]) /\ net'[m] \subseteq net[m] BY DEF Inv, Lapses
  <2> QED BY <2>1, FS_Subset
<1>4. \A m \in Node : \A p \in net'[m] : PostOK(p) /\ p.from # m BY SMT DEF Inv, Lapses
<1>5. \A m \in Node : \A p \in net'[m] : PostOK(p)' /\ p.from # m BY <1>1, <1>4 DEF PostOK, IsSubr
<1>6. \A m \in Node : node'[m].curKey.ct <= clock' BY SMT, <1>1 DEF Inv, Lapses
<1>7. Warned'
  <2>1. SUFFICES ASSUME NEW a \in Node, NEW b \in Node, a < b, node'[b].keyMaker,
                        node'[a].keyMaker \/ ~node'[a].subGk
                 PROVE  \E p \in net'[a] \cup node'[a].coll :
                            p.type = "gk" /\ p.from = b /\ (node'[a].subGk => p \in net'[a])
    BY DEF Warned
  <2>2. node[b].keyMaker /\ (node[a].keyMaker \/ ~node[a].subGk) /\ node'[a].subGk = node[a].subGk
    BY <2>1 DEF Lapses
  <2>3. PICK p \in net[a] \cup node[a].coll :
           p.type = "gk" /\ p.from = b /\ (node[a].subGk => p \in net[a])
    BY SMT, <2>1, <2>2 DEF Inv, Warned
  <2>4. (p \in net[a] => p \in net'[a]) /\ (p \in node[a].coll => p \in node'[a].coll)
    BY <2>3 DEF Lapses
  <2> QED BY <2>2, <2>3, <2>4
<1> QED BY SMT, <1>1, <1>2, <1>3, <1>5, <1>6, <1>7 DEF Inv, Lapses

\* A step is a handler's, or an expiry or nothing.
LEMMA Steps ==
    ASSUME Inv, [Next]_vars
    PROVE  (\E n \in Node : \E s, t, in : Handled(n, s, t, in)) \/ Lapses
<1>1. CASE UNCHANGED vars BY <1>1, ExpireLapses
<1>2. ASSUME NEW n \in Node, Setup(n) PROVE \E s, t, in : Handled(n, s, t, in)
  BY <1>2, SetupHandled
<1>3. ASSUME NEW n \in Node, ElectionTimer(n) PROVE \E s, t, in : Handled(n, s, t, in)
  BY <1>3, TimerHandled
<1>4. ASSUME NEW n \in Node, MrRefresh(n) \/ Rekey(n) \/ Confirm(n) PROVE \E s, t, in : Handled(n, s, t, in)
  BY <1>4, TimersHandled
<1>5. ASSUME NEW n \in Node, NEW p \in net[n], Arrive(n, p) PROVE \E s, t, in : Handled(n, s, t, in)
  BY <1>5, ArriveHandled
<1>6. CASE \E n \in Node : \E p \in net[n] \cup node[n].coll : Expire(n, p) BY <1>6, ExpireLapses
<1> QED BY <1>1, <1>2, <1>3, <1>4, <1>5, <1>6 DEF Next

\* The invariant holds at the start.
LEMMA InitInv ==
    ASSUME Init
    PROVE  Inv
<1>1. scheme \in Schemes /\ clock = 0 /\ clock \in Nat BY DEF Init
<1>2. \A n \in Node : node[n] = InitNode(n) /\ net[n] = {} BY DEF Init
<1>3. net \in [Node -> SUBSET Post] BY DEF Init
<1>4. \A n \in Node : InitNode(n) \in State BY SMT DEF InitNode, State
<1>5. node \in [Node -> State] BY <1>4 DEF Init
<1>6. ASSUME NEW n \in Node PROVE NodeOK(n, node[n]) /\ node[n].out = {} /\ node[n].curKey.ct = 0 /\ ~node[n].keyMaker
  <2> DEFINE t == node[n]
  <2>1. t = InitNode(n) /\ t \in State BY <1>2, <1>4
  <2>2. /\ t.init /\ ~t.keyMaker /\ ~t.subMr /\ ~t.mrPending /\ ~t.rekey
        /\ t.curKeyCT = 0 /\ t.curKey = NoKey /\ t.KMepoch = 0 /\ t.kmtp = 0
        /\ t.conf = {} /\ t.mbrList = {} /\ t.coll = {} /\ t.out = {} /\ t.up = FALSE /\ t.electing = FALSE
        /\ t.subGk = FALSE
        /\ t.el = [priority |-> 0, epoch |-> 0]
    BY SMT, <2>1 DEF InitNode
  <2> HIDE DEF t
  <2>3. ~Won(t.el) BY SMT, <2>2 DEF Won
  <2>4. KeyOK(n, t) BY <2>2, FS_EmptySet DEF KeyOK, Fresh
  <2>5. ElectionOK(n, t) BY <2>3 DEF ElectionOK
  <2>6. PostsOK(n, t) BY <2>2, FS_EmptySet DEF PostsOK
  <2>7. NodeOK(n, t) BY <2>1, <2>2, <2>4, <2>5, <2>6 DEF NodeOK
  <2>8. NoKey.ct = 0 BY DEF NoKey
  <2> QED BY <2>2, <2>7, <2>8 DEF t
<1>7. \A n \in Node : IsFiniteSet(net[n]) BY <1>2, FS_EmptySet
<1>8. Warned BY <1>6 DEF Warned
<1>9. \A n \in Node : node[n].curKey.ct <= clock
  <2>1. \A n \in Node : node[n].curKey.ct = 0 BY <1>6
  <2>2. 0 <= clock BY SMT, <1>1
  <2> QED BY <2>1, <2>2
<1> QED BY <1>1, <1>2, <1>3, <1>5, <1>6, <1>7, <1>8, <1>9 DEF Inv

\* Every step preserves it.
LEMMA NextInv ==
    ASSUME Inv, [Next]_vars
    PROVE  Inv'
<1>1. CASE \E n \in Node : \E s, t, in : Handled(n, s, t, in)
  <2>1. PICK n \in Node : \E s, t, in : Handled(n, s, t, in) BY <1>1
  <2>2. PICK s, t, in : Handled(n, s, t, in) BY <2>1
  <2> QED BY <2>2, StepInv DEF Handled
<1>2. CASE Lapses BY <1>2, LapsesInv
<1> QED BY <1>1, <1>2, Steps

\* The inductive invariant of the distributors, for any number of candidates
THEOREM Invariance == Spec => []Inv
<1>1. Init => Inv BY InitInv
<1>2. Inv /\ [Next]_vars => Inv' BY NextInv
<1> QED BY <1>1, <1>2, PTL DEF Spec

\* The winner of an election (KMElection's electionDone) is better than every candidate it
\* heard of before, whatever the number of candidates, their priorities and the order in
\* which candidacies and claims arrive or expire (handleKMcand, handleKMelec).
THEOREM BestWins == Spec => []WinnerIsBest
<1>1. Inv => WinnerIsBest BY DEF Inv, NodeOK, ElectionOK, WinnerIsBest, Elected
<1> QED BY <1>1, Invariance, PTL

\* A distributor reports that it is connected (initDone) only when it has a group key; a
\* maker of symmetric keys also has a member then (makeGKey, addGroupMem).
THEOREM KeyedWhenConnected == Spec => []ConnectedHasKey
<1>1. Inv => ConnectedHasKey BY DEF Inv, NodeOK, KeyOK, ConnectedHasKey
<1> QED BY <1>1, Invariance, PTL

\* Once the key lists have arrived, at most one key maker is left (receiveGKeyList): of two
\* the one with the lower thumbprint has a list of the other to come.
THEOREM OneMakerLeft == Spec => []OneKeyMaker
<1>1. ASSUME Inv PROVE OneKeyMaker
  <2>1. SUFFICES ASSUME \A n \in Node, p \in UNION {net[m] : m \in Node} : p \in net[n] => p.type # "gk"
                 PROVE  Cardinality(KeyMakers) <= 1
    BY DEF OneKeyMaker
  <2>2. \A n \in Node : \A p \in net[n] : p.type # "gk" BY <2>1
  <2>3. \A n \in Node : node[n].keyMaker => node[n].subGk BY <1>1 DEF Inv, NodeOK, KeyOK, Fresh
  <2>4. ASSUME NEW a \in KeyMakers, NEW b \in KeyMakers, a < b PROVE FALSE
    <3>1. a \in Node /\ b \in Node /\ node[a].keyMaker /\ node[b].keyMaker BY DEF KeyMakers
    <3>2. \E p \in net[a] : p.type = "gk" BY <1>1, <2>3, <2>4, <3>1 DEF Inv, Warned
    <3> QED BY <2>2, <3>1, <3>2
  <2>5. KeyMakers \subseteq Nat BY NodeAssumption DEF KeyMakers
  <2>6. \A a, b \in KeyMakers : a = b BY SMT, <2>4, <2>5
  <2>7. CASE KeyMakers = {} BY SMT, <2>7, FS_EmptySet
  <2>8. CASE KeyMakers # {}
    <3>1. PICK a : KeyMakers = {a} BY SMT, <2>6, <2>8
    <3>2. Cardinality({a}) = 1 BY FS_Singleton
    <3> QED BY SMT, <3>1, <3>2
  <2> QED BY <2>7, <2>8
<1> QED BY <1>1, Invariance, PTL
-------------------------------------------------------------------------------
(***************************************************************************)
(* A single candidate for key maker: SoleInv is inductive together with    *)
(* Inv, and gives what is promised to the members.                         *)
(*                                                                         *)
(* A step of the key maker itself (HandledMaker) publishes what it owes    *)
(* the members of its list. A step of another node (HandledOther) takes a  *)
(* list off the network only by taking the key in it.                      *)
(***************************************************************************)
\* What a step of a node leaves as it was, with one candidate
LEMMA HandledFacts ==
    ASSUME Sole, Inv, SoleInv, NEW n \in Node, NEW s, NEW t, NEW in, Handled(n, s, t, in)
    PROVE  /\ Leaves(n, t, in) /\ Given(n, s, in) /\ Acts(n, s, t)
           /\ NodeOK(n, t) /\ t \in State /\ t.curKey.ct \in Nat
           /\ clock \in Nat /\ clock' \in Nat /\ clock' >= clock /\ scheme' = scheme
           /\ node'[n].coll \subseteq t.coll /\ (node'[n].keyMaker <=> t.keyMaker) /\ node'[n].curKey = t.curKey
           /\ node'[n].curKeyCT = t.curKeyCT /\ node'[n].mbrList = t.mbrList /\ (Asked(node'[n]) <=> Asked(t))
           /\ \A m \in Node \ {n} : node'[m] = node[m]
           /\ ((Pri[n] # 0 /\ t.keyMaker) \/ Learns(n, s, t))
           /\ MemberOK(n, t)
           /\ \A m \in Node : Asked(node[m]) => Asked(node'[m])
           /\ s.curKey.ct \in Nat /\ s.curKey.ct <= clock /\ (t.keyMaker => t.curKey.ct = t.curKeyCT \/ t.curKeyCT = 0)
<1> DEFINE u == Settled(n, t)
<1>1. Leaves(n, t, in) /\ Given(n, s, in) /\ Acts(n, s, t) BY StepFacts DEF Handled
<1>2. /\ NodeOK(n, t) /\ t \in State /\ t.curKey.ct \in Nat
      /\ clock \in Nat /\ clock' \in Nat /\ clock' >= clock /\ scheme' = scheme
  <2>1. t \in State BY <1>1 DEF Acts, NodeOK
  <2>2. t.curKey.ct \in Nat BY SMT, <2>1 DEF State, Key, NoKey
  <2> QED BY <1>1, <2>1, <2>2 DEF Acts, Inv, Leaves
<1>3. node'[n] = u /\ \A m \in Node \ {n} : node'[m] = node[m] BY <1>1 DEF Leaves
<1>4. /\ u.coll \subseteq t.coll /\ (u.keyMaker <=> t.keyMaker) /\ u.curKey = t.curKey
      /\ u.curKeyCT = t.curKeyCT /\ u.mbrList = t.mbrList /\ (Asked(u) <=> Asked(t))
  <2>1. /\ u.coll \subseteq t.coll /\ u.keyMaker = t.keyMaker /\ u.curKey = t.curKey
        /\ u.curKeyCT = t.curKeyCT /\ u.mbrList = t.mbrList
        /\ u.subGk = t.subGk /\ u.init = t.init /\ u.mrPending = t.mrPending
    BY SMT, <1>2, SettledOK
  <2> HIDE DEF u
  <2> QED BY <2>1 DEF Asked
<1> HIDE DEF u
<1>5. (Pri[n] # 0 /\ t.keyMaker) \/ Learns(n, s, t) BY DEF Handled
<1>6. MemberOK(n, t) BY <1>5 DEF Learns, MemberOK
<1>7. \A m \in Node : Asked(node[m]) => Asked(node'[m])
  <2>1. Asked(node[n]) => Asked(t) BY <1>1 DEF Handled, Acts
  <2> QED BY <1>3, <1>4, <2>1
<1>8. s.curKey.ct \in Nat /\ s.curKey.ct <= clock /\ (t.keyMaker => t.curKey.ct = t.curKeyCT \/ t.curKeyCT = 0)
  <2>1. s.curKey = node[n].curKey /\ node[n] \in State BY DEF Handled, Inv
  <2>2. s.curKey.ct \in Nat BY SMT, <2>1 DEF State, Key, NoKey
  <2>3. s.curKey.ct <= clock BY <2>1 DEF Inv
  <2>4. t.keyMaker => t.curKey.ct = t.curKeyCT \/ t.curKeyCT = 0 BY SMT, <1>2 DEF NodeOK, KeyOK
  <2> QED BY <2>2, <2>3, <2>4
<1> QED BY <1>1, <1>2, <1>3, <1>4, <1>5, <1>6, <1>7, <1>8

\* A key maker that takes a step: what it owes the members of its list is on the way.
LEMMA HandledMaker ==
    ASSUME Sole, Inv, SoleInv, NEW n \in Node, NEW s, NEW t, NEW in, Handled(n, s, t, in),
           node'[n].keyMaker
    PROVE  /\ node'[n].curKeyCT = clock' /\ clock' # 0
           /\ \A m \in node'[n].mbrList :
                 /\ Asked(node'[m]) /\ m \in scheme'.subr
                 /\ node'[m].curKey = node'[n].curKey
                    \/ \E p \in net'[m] : Covers(p, m, node'[n].curKey)
<1>1. Leaves(n, t, in) /\ Given(n, s, in) /\ Acts(n, s, t) BY HandledFacts
<1>2. /\ NodeOK(n, t) /\ t \in State /\ t.curKey.ct \in Nat
      /\ clock \in Nat /\ clock' \in Nat /\ clock' >= clock /\ scheme' = scheme
  BY HandledFacts
<1>3. /\ node'[n].coll \subseteq t.coll /\ (node'[n].keyMaker <=> t.keyMaker) /\ node'[n].curKey = t.curKey
      /\ node'[n].curKeyCT = t.curKeyCT /\ node'[n].mbrList = t.mbrList
  BY SMT, HandledFacts
<1>4. \A m \in Node \ {n} : node'[m] = node[m] BY HandledFacts
<1>5. \A m \in Node : Asked(node[m]) => Asked(node'[m]) BY HandledFacts
<1>6. s.curKey.ct \in Nat /\ s.curKey.ct <= clock /\ (t.keyMaker => t.curKey.ct = t.curKeyCT \/ t.curKeyCT = 0)
  BY SMT, HandledFacts
<1>7. t.keyMaker /\ Pri[n] > 0 BY <1>2, <1>3 DEF NodeOK, KeyOK, Candidate
<1>8. n \notin t.mbrList /\ t.mbrList \in SUBSET Node BY <1>2 DEF NodeOK, KeyOK, State
<1>9. ASSUME NEW m \in t.mbrList PROVE Asked(node[m]) /\ IsSubr(m)
  <2>1. CASE m \in s.mbrList
    <3>1. s.keyMaker
      <4>1. CASE ~s.subGk
        <5>1. Fresh(node[n]) BY <1>1, <4>1 DEF Given, Inv, NodeOK, KeyOK
        <5> QED BY <2>1, <5>1 DEF Fresh, Handled
      <4>2. CASE s.subGk BY <1>1, <1>7, <4>2 DEF Acts
      <4> QED BY <4>1, <4>2
    <3> QED BY <1>1, <2>1, <3>1 DEF Handled, Given, SoleInv
  <2>2. CASE m \notin s.mbrList
    <3>1. PICK q \in s.coll : q.type = "mr" /\ q.from = m BY <1>1, <2>2 DEF Acts
    <3>2. q \in net[n] \cup node[n].coll BY <3>1 DEF Handled
    <3>3. PostOK(q) BY <3>2 DEF Inv, NodeOK, PostsOK
    <3> QED BY <3>1, <3>2, <3>3 DEF SoleInv, PostOK
  <2> QED BY <2>1, <2>2
<1>10. \A m \in t.mbrList : m \in Node \ {n} /\ \A p \in t.out : p.type = "gk" => p \in net'[m]
  BY <1>1, <1>8 DEF Leaves
<1>11. CASE /\ t.curKeyCT = clock + 1
            /\ \A m \in t.mbrList : \E p \in t.out : Covers(p, m, t.curKey)
  <2>1. t.curKeyCT # 0 /\ t.curKey.ct = clock + 1 /\ t.curKey.ct > clock
    BY SMT, <1>2, <1>6, <1>7, <1>11
  <2>2. clock' = t.curKeyCT /\ clock' # 0 BY SMT, <1>1, <1>2, <1>11, <2>1 DEF Leaves
  <2>3. \A m \in t.mbrList : \E p \in net'[m] : Covers(p, m, t.curKey) BY <1>10, <1>11 DEF Covers
  <2> QED BY <1>2, <1>3, <1>4, <1>5, <1>8, <1>9, <2>2, <2>3 DEF IsSubr
<1>12. CASE /\ s.keyMaker /\ t.curKey = s.curKey /\ t.curKeyCT = s.curKeyCT
            /\ t.curKeyCT # 0 =>
                  \A m \in t.mbrList \ s.mbrList : \E p \in t.out : Covers(p, m, t.curKey)
  <2>1. /\ node[n].keyMaker /\ node[n].curKey = t.curKey /\ node[n].curKeyCT = t.curKeyCT
        /\ node[n].mbrList = s.mbrList
    BY <1>1, <1>12 DEF Handled, Given
  <2>2. t.curKeyCT = clock /\ clock # 0 BY <2>1 DEF SoleInv
  <2>3. t.curKey.ct = clock BY <1>6, <1>7, <2>2
  <2>4. clock' = clock BY <1>1, <2>3 DEF Leaves
  <2>5. ASSUME NEW m \in t.mbrList
        PROVE  node'[m].curKey = t.curKey \/ \E p \in net'[m] : Covers(p, m, t.curKey)
    <3>1. CASE m \in s.mbrList
      <4>1. node[m].curKey = t.curKey \/ \E p \in net[m] : Covers(p, m, t.curKey)
        BY <2>1, <3>1 DEF SoleInv
      <4>2. node'[m] = node[m] /\ net[m] \subseteq net'[m] BY <1>1, <1>10 DEF Leaves
      <4> QED BY <4>1, <4>2
    <3>2. CASE m \notin s.mbrList
      <4>1. PICK p \in t.out : Covers(p, m, t.curKey) BY <1>12, <2>2, <3>2
      <4> QED BY <1>10, <4>1 DEF Covers
    <3> QED BY <3>1, <3>2
  <2> QED BY <1>2, <1>3, <1>4, <1>5, <1>8, <1>9, <2>2, <2>4, <2>5 DEF IsSubr
<1> QED BY <1>1, <1>7, <1>11, <1>12 DEF Acts

\* A key maker while another node takes a step
LEMMA HandledOther ==
    ASSUME Sole, Inv, SoleInv, NEW n \in Node, NEW s, NEW t, NEW in, Handled(n, s, t, in),
           NEW k \in Node, k # n, node'[k].keyMaker
    PROVE  /\ node'[k].curKeyCT = clock' /\ clock' # 0
           /\ \A m \in node'[k].mbrList :
                 /\ Asked(node'[m]) /\ m \in scheme'.subr
                 /\ node'[m].curKey = node'[k].curKey
                    \/ \E p \in net'[m] : Covers(p, m, node'[k].curKey)
<1>1. Leaves(n, t, in) /\ Given(n, s, in) /\ Acts(n, s, t) BY HandledFacts
<1>2. /\ NodeOK(n, t) /\ t \in State /\ t.curKey.ct \in Nat
      /\ clock \in Nat /\ clock' \in Nat /\ clock' >= clock /\ scheme' = scheme
  BY HandledFacts
<1>3. /\ node'[n].coll \subseteq t.coll /\ (node'[n].keyMaker <=> t.keyMaker) /\ node'[n].curKey = t.curKey
      /\ node'[n].curKeyCT = t.curKeyCT /\ node'[n].mbrList = t.mbrList /\ (Asked(node'[n]) <=> Asked(t))
  BY SMT, HandledFacts
<1>4. \A m \in Node \ {n} : node'[m] = node[m] BY HandledFacts
<1>5. \A m \in Node : Pri[m] \in 0..9 /\ m \in Nat BY NodeAssumption
<1>6. (Pri[n] # 0 /\ t.keyMaker) \/ Learns(n, s, t) BY HandledFacts
<1>7. MemberOK(n, t) BY HandledFacts
<1>8. \A m \in Node : Asked(node[m]) => Asked(node'[m]) BY HandledFacts
<1>9. node'[k] = node[k] /\ node[k].keyMaker BY <1>4
<1>10. /\ node[k].curKeyCT = clock /\ clock # 0 /\ Pri[k] > 0 /\ node[k].KMepoch = 1
       /\ node[k].curKey = [km |-> k, ct |-> clock]
  BY <1>9 DEF SoleInv, Inv, NodeOK, KeyOK, Candidate
<1>11. Pri[n] = 0 BY SMT, <1>5, <1>10 DEF Sole
<1>12. Learns(n, s, t) BY <1>6, <1>11
<1>13. t.curKey.ct <= clock /\ s.curKey.ct <= t.curKey.ct BY <1>11, <1>12 DEF Learns
<1>14. clock' = clock BY SMT, <1>1, <1>2, <1>13 DEF Leaves
<1>15. ASSUME NEW m \in node[k].mbrList
       PROVE  /\ Asked(node'[m]) /\ IsSubr(m)
              /\ node'[m].curKey = node[k].curKey \/ \E p \in net'[m] : Covers(p, m, node[k].curKey)
  <2>0. node[k].mbrList \in SUBSET Node BY DEF Inv, State
  <2>1. /\ Asked(node[m]) /\ IsSubr(m)
        /\ node[m].curKey = node[k].curKey \/ \E p \in net[m] : Covers(p, m, node[k].curKey)
    BY <1>9 DEF SoleInv
  <2>2. Asked(node'[m]) BY <1>8, <2>0, <2>1
  <2>3. CASE m # n
    <3>1. node'[m] = node[m] /\ net[m] \subseteq net'[m] BY <1>1, <2>0, <2>3 DEF Leaves
    <3> QED BY <2>1, <2>2, <3>1
  <2>4. CASE m = n
    <3>1. ASSUME t.curKey.ct = clock PROVE node'[n].curKey = node[k].curKey
      <4>1. t.curKey # NoKey BY SMT, <1>10, <3>1 DEF NoKey
      <4>2. t.curKey \in Key BY <1>2, <4>1 DEF State
      <4>3. Pri[t.curKey.km] > 0 BY <1>7, <1>11, <4>1 DEF MemberOK
      <4>4. t.curKey.km \in Node BY <4>2 DEF Key
      <4>5. t.curKey.km = k BY <1>10, <4>3, <4>4 DEF Sole
      <4>6. t.curKey = [km |-> k, ct |-> clock] BY <3>1, <4>2, <4>5 DEF Key
      <4> QED BY <1>3, <1>4, <1>10, <4>6
    <3>2. CASE node[n].curKey = node[k].curKey
      <4>1. s.curKey.ct = clock BY SMT, <1>10, <3>2 DEF Handled
      <4>2. t.curKey.ct = clock BY SMT, <1>2, <1>13, <4>1
      <4> QED BY <2>1, <2>2, <2>4, <3>1, <4>2
    <3>3. CASE \E p \in net[n] : Covers(p, n, node[k].curKey)
      <4>1. PICK p \in net[n] : Covers(p, n, node[k].curKey) BY <3>3
      <4>2. CASE p \in in
        <5>1. p \in net'[n] BY <1>1, <4>1, <4>2 DEF Leaves, Covers
        <5> QED BY <2>1, <2>2, <2>4, <4>1, <5>1
      <4>3. CASE p \notin in
        <5>1. Asked(s) BY <2>1, <2>4 DEF Handled
        <5>2. p.type = "gk" /\ n \in p.tps /\ p.lo <= n /\ n <= p.hi /\ p.key = node[k].curKey
          BY <4>1 DEF Covers
        <5>3. p.ct <= t.curKey.ct BY <1>11, <2>1, <2>4, <4>3, <5>1, <5>2 DEF Handled
        <5>4. PostOK(p) BY DEF Inv
        <5>5. p.key = [km |-> p.from, ct |-> p.ct] BY <5>2, <5>4 DEF PostOK
        <5>6. p.ct = clock BY SMT, <1>10, <5>2, <5>5
        <5>7. t.curKey.ct = clock BY SMT, <1>2, <1>13, <5>3, <5>6
        <5> QED BY <2>1, <2>2, <2>4, <3>1, <5>7
      <4> QED BY <4>2, <4>3
    <3> QED BY <2>1, <2>4, <3>2, <3>3
  <2> QED BY <2>3, <2>4
<1> QED BY <1>2, <1>9, <1>10, <1>14, <1>15 DEF IsSubr

\* With one candidate: every step of a node is good for the members.
LEMMA HandledSole ==
    ASSUME Sole, Inv, SoleInv, NEW n \in Node, NEW s, NEW t, NEW in, Handled(n, s, t, in)
    PROVE  SoleInv'
<1>1. Leaves(n, t, in) /\ Given(n, s, in) /\ Acts(n, s, t) BY HandledFacts
<1>2. /\ NodeOK(n, t) /\ t \in State /\ t.curKey.ct \in Nat
      /\ clock \in Nat /\ clock' \in Nat /\ clock' >= clock /\ scheme' = scheme
  BY HandledFacts
<1>3. /\ node'[n].coll \subseteq t.coll /\ (node'[n].keyMaker <=> t.keyMaker) /\ node'[n].curKey = t.curKey
      /\ node'[n].curKeyCT = t.curKeyCT /\ node'[n].mbrList = t.mbrList /\ (Asked(node'[n]) <=> Asked(t))
  BY SMT, HandledFacts
<1>4. \A m \in Node \ {n} : node'[m] = node[m] BY HandledFacts
<1>5. MemberOK(n, t) BY HandledFacts
<1>6. \A m \in Node : Asked(node[m]) => Asked(node'[m]) BY HandledFacts
<1>7. s.curKey.ct \in Nat /\ s.curKey.ct <= clock /\ (t.keyMaker => t.curKey.ct = t.curKeyCT \/ t.curKeyCT = 0)
  BY HandledFacts
<1>8. \A m \in Node : MemberOK(m, node'[m])
  <2>1. MemberOK(n, node'[n])
    <3>1. node'[n].KMepoch = t.KMepoch /\ node'[n].kmtp = t.kmtp BY SMT, <1>1, <1>2, SettledOK DEF Leaves
    <3> QED BY <1>3, <1>5, <3>1 DEF MemberOK
  <2> QED BY <1>4, <2>1 DEF SoleInv
<1>9. ASSUME NEW m \in Node, NEW p \in net'[m] \cup node'[m].coll
       PROVE  p \in net[m] \cup node[m].coll \/ (m # n /\ p \in t.out)
  <2>1. CASE m = n
    <3>1. net'[n] \subseteq net[n] BY <1>1 DEF Leaves, Given
    <3>2. node'[n].coll \subseteq s.coll BY <1>1, <1>3 DEF Acts
    <3>3. s.coll \subseteq net[n] \cup node[n].coll BY DEF Handled
    <3> QED BY <2>1, <3>1, <3>2, <3>3
  <2>2. CASE m # n BY <1>1, <1>4, <2>2 DEF Leaves
  <2> QED BY <2>1, <2>2
<1>10. ASSUME NEW m \in Node, NEW p \in net'[m] \cup node'[m].coll
       PROVE  (p.type = "gk" => p.ct <= clock') /\ (p.type = "mr" => Asked(node'[p.from]))
  <2>1. CASE p \in net[m] \cup node[m].coll
    <3>1. (p.type = "gk" => p.ct <= clock) /\ (p.type = "mr" => Asked(node[p.from]))
      BY <2>1 DEF SoleInv
    <3>2. PostOK(p) BY <2>1 DEF Inv, NodeOK, PostsOK
    <3>3. p \in Post /\ p.from \in Node /\ (p.type = "gk" => p \in KeyList)
      BY <3>2, PostKinds DEF PostOK
    <3>4. p.type = "gk" => p.ct \in Nat BY <3>3 DEF KeyList
    <3> QED BY SMT, <1>2, <1>6, <3>1, <3>3, <3>4
  <2>2. CASE p \in t.out
    <3>1. PostOK(p) /\ p.from = n /\ (p.type = "mr" => Asked(t)) BY <1>2, <2>2 DEF NodeOK, PostsOK
    <3>2. Asked(t) => Asked(node'[n]) BY <1>3
    <3>3. p.type = "gk" => p.ct = p.key.ct BY SMT, <3>1 DEF PostOK
    <3>4. p.type = "gk" => p.key \in {s.curKey, t.curKey} BY <1>1, <2>2 DEF Acts, Handled
    <3>5. s.curKey.ct <= clock' /\ t.curKey.ct <= clock' BY SMT, <1>1, <1>2, <1>7 DEF Leaves
    <3> QED BY <3>1, <3>2, <3>3, <3>4, <3>5
  <2> QED BY <1>9, <2>1, <2>2
<1>11. ASSUME NEW k \in Node, node'[k].keyMaker
       PROVE  /\ node'[k].curKeyCT = clock' /\ clock' # 0
              /\ \A m \in node'[k].mbrList :
                    /\ Asked(node'[m]) /\ m \in scheme'.subr
                    /\ node'[m].curKey = node'[k].curKey
                       \/ \E p \in net'[m] : Covers(p, m, node'[k].curKey)
  <2>1. CASE k = n BY <1>11, <2>1, HandledMaker
  <2>2. CASE k # n BY <1>11, <2>2, HandledOther
  <2> QED BY <2>1, <2>2
<1> QED BY <1>8, <1>10, <1>11 DEF SoleInv, MemberOK, Asked, IsSubr, Covers

\* An expiry loses no key list, and a request that is gone asks for nothing.
LEMMA LapsesSole ==
    ASSUME Inv, SoleInv, Lapses
    PROVE  SoleInv'
<1>1. scheme' = scheme /\ clock' = clock BY DEF Lapses
<1>2. \A m \in Node : MemberOK(m, node'[m]) BY SMT DEF Lapses, SoleInv, MemberOK
<1>3. \A m \in Node : Asked(node'[m]) = Asked(node[m]) BY DEF Lapses, Asked
<1>4. ASSUME NEW m \in Node, NEW p \in net'[m] \cup node'[m].coll
      PROVE  (p.type = "gk" => p.ct <= clock') /\ (p.type = "mr" => Asked(node'[p.from]))
  <2>1. p \in net[m] \cup node[m].coll BY DEF Lapses
  <2>2. PostOK(p) BY <2>1 DEF Inv, NodeOK, PostsOK
  <2>3. p.from \in Node BY <2>2, PostKinds DEF PostOK
  <2> QED BY <1>1, <1>3, <2>1, <2>3 DEF SoleInv
<1>5. ASSUME NEW k \in Node, node'[k].keyMaker
      PROVE  /\ node'[k].curKeyCT = clock' /\ clock' # 0
             /\ \A m \in node'[k].mbrList :
                   /\ Asked(node'[m]) /\ m \in scheme'.subr
                   /\ node'[m].curKey = node'[k].curKey
                      \/ \E p \in net'[m] : Covers(p, m, node'[k].curKey)
  <2>1. /\ node[k].keyMaker /\ node'[k].curKeyCT = node[k].curKeyCT /\ node'[k].curKey = node[k].curKey
        /\ node'[k].mbrList = node[k].mbrList
    BY <1>5 DEF Lapses
  <2>2. node[k].curKeyCT = clock /\ clock # 0 BY <2>1 DEF SoleInv
  <2>3. ASSUME NEW m \in node[k].mbrList
        PROVE  /\ Asked(node'[m]) /\ m \in scheme'.subr
               /\ node'[m].curKey = node[k].curKey \/ \E p \in net'[m] : Covers(p, m, node[k].curKey)
    <3>1. m \in Node BY DEF Inv, State
    <3>2. /\ Asked(node[m]) /\ IsSubr(m)
          /\ node[m].curKey = node[k].curKey \/ \E p \in net[m] : Covers(p, m, node[k].curKey)
      BY <2>1 DEF SoleInv
    <3>3. node'[m].curKey = node[m].curKey /\ \A p \in net[m] : p.type = "gk" => p \in net'[m]
      BY <3>1 DEF Lapses
    <3> QED BY <1>1, <1>3, <3>1, <3>2, <3>3 DEF Covers, IsSubr
  <2> QED BY <1>1, <2>1, <2>2, <2>3
<1> QED BY <1>2, <1>4, <1>5 DEF SoleInv, MemberOK, Asked, IsSubr, Covers

\* It holds at the start.
LEMMA InitSole ==
    ASSUME Init
    PROVE  SoleInv
<1>1. \A n \in Node : /\ node[n] = InitNode(n) /\ net[n] = {} BY DEF Init
<1>2. \A n \in Node : /\ ~node[n].keyMaker /\ node[n].coll = {} /\ node[n].curKeyCT = 0
                      /\ node[n].KMepoch = 0 /\ node[n].curKey = NoKey
  <2> SUFFICES ASSUME NEW n \in Node, NEW t, t = InitNode(n)
               PROVE  /\ ~t.keyMaker /\ t.coll = {} /\ t.curKeyCT = 0 /\ t.KMepoch = 0 /\ t.curKey = NoKey
    BY <1>1
  <2> QED BY DEF InitNode
<1>3. NoKey.ct = 0 BY DEF NoKey
<1> QED BY <1>1, <1>2, <1>3 DEF SoleInv, MemberOK

\* Every step preserves it.
LEMMA NextSole ==
    ASSUME Sole, Inv, SoleInv, [Next]_vars
    PROVE  SoleInv'
<1>1. CASE \E n \in Node : \E s, t, in : Handled(n, s, t, in)
  <2>1. PICK n \in Node : \E s, t, in : Handled(n, s, t, in) BY <1>1
  <2>2. PICK s, t, in : Handled(n, s, t, in) BY <2>1
  <2> QED BY <2>2, HandledSole
<1>2. CASE Lapses BY <1>2, LapsesSole
<1> QED BY <1>1, <1>2, Steps

\* The inductive invariant for a single candidate
LEMMA SoleInvariance ==
    ASSUME Sole
    PROVE  Spec => [](Inv /\ SoleInv)
<1>1. Init => Inv /\ SoleInv BY InitInv, InitSole
<1>2. Inv /\ SoleInv /\ [Next]_vars => (Inv /\ SoleInv)' BY NextInv, NextSole
<1> QED BY <1>1, <1>2, PTL DEF Spec

\* With a single candidate, once the key lists have arrived every member on the key maker's
\* list has the key maker's current key: however many lists there are (makeGKey), whenever
\* the member joined (addGroupMem), whatever requests expired and in whatever order the
\* lists came (receiveGKeyList).
THEOREM MembersKeyed == Sole => (Spec => []MembersHaveKey)
<1> SUFFICES ASSUME Sole PROVE Spec => []MembersHaveKey
  OBVIOUS
<1>1. SoleInv => MembersHaveKey BY DEF SoleInv, MembersHaveKey, KeyMakers, Covers
<1> QED BY <1>1, SoleInvariance, PTL

\* What one step of a node does to its key
LEMMA Newer ==
    ASSUME Sole, Inv, SoleInv, [Next]_vars, NEW n \in Node
    PROVE  node'[n].curKey.ct >= node[n].curKey.ct
<1>0. node[n].curKey.ct \in Nat BY SMT DEF Inv, State, Key, NoKey
<1>1. CASE \E m \in Node : \E s, t, in : Handled(m, s, t, in)
  <2>1. PICK m \in Node : \E s, t, in : Handled(m, s, t, in) BY <1>1
  <2>2. PICK s, t, in : Handled(m, s, t, in) BY <2>1
  <2>3. Leaves(m, t, in) /\ Acts(m, s, t) BY <2>2, StepFacts DEF Handled
  <2>4. CASE m # n BY SMT, <1>0, <2>3, <2>4 DEF Leaves
  <2>5. CASE m = n
    <3>1. node'[n].curKey = t.curKey /\ s.curKey = node[n].curKey
      <4>1. node'[n] = Settled(n, t) /\ NodeOK(n, t) BY <2>3, <2>5 DEF Leaves, Acts
      <4>2. Settled(n, t).curKey = t.curKey BY SMT, <4>1, SettledOK
      <4>3. s.curKey = node[n].curKey BY <2>2, <2>5 DEF Handled
      <4> QED BY <4>1, <4>2, <4>3
    <3>2. t \in State BY <2>3 DEF Acts, NodeOK
    <3>3. t.curKey.ct \in Nat BY SMT, <3>2 DEF State, Key, NoKey
    <3>4. CASE Learns(n, s, t) BY SMT, <1>0, <3>1, <3>3, <3>4 DEF Learns
    <3>5. CASE t.keyMaker
      <4>1. CASE t.curKeyCT = clock + 1
        <5>1. clock \in Nat /\ node[n].curKey.ct <= clock BY DEF Inv
        <5>2. t.curKeyCT # 0 BY SMT, <4>1, <5>1
        <5>3. KeyOK(n, t) BY <2>3, <2>5 DEF Acts, NodeOK
        <5>4. t.curKey.ct = t.curKeyCT BY SMT, <3>5, <5>2, <5>3 DEF KeyOK
        <5> QED BY SMT, <1>0, <3>1, <4>1, <5>1, <5>4
      <4>2. CASE t.curKey = s.curKey BY SMT, <1>0, <3>1, <4>2
      <4> QED BY <2>3, <2>5, <3>5, <4>1, <4>2 DEF Acts
    <3> QED BY <2>2, <2>5, <3>4, <3>5 DEF Handled
  <2> QED BY <2>4, <2>5
<1>2. CASE Lapses BY SMT, <1>0, <1>2 DEF Lapses
<1> QED BY <1>1, <1>2, Steps

\* With a single candidate no node ever goes back to an older key, in whatever order the
\* key lists arrive (the creation times in receiveGKeyList and receiveSGKeyRecords).
THEOREM KeysOnlyNewer == Sole => (Spec => NoOlderKey)
<1> SUFFICES ASSUME Sole PROVE Spec => NoOlderKey
  OBVIOUS
<1>1. Inv /\ SoleInv /\ [Next]_vars =>
         [\A n \in Node : node'[n].curKey.km = node[n].curKey.km =>
                             node'[n].curKey.ct >= node[n].curKey.ct]_vars
  BY Newer
<1> QED BY <1>1, SoleInvariance, PTL DEF Spec, NoOlderKey
================================================================================
