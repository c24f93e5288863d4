---------------------------- MODULE DCTModel_proofs ----------------------------
(***************************************************************************)
(* The invariants of DCTModel, for any number of DeftTs, certs and pairs   *)
(* and any schemas.                                                        *)
(*                                                                         *)
(* First, what chains of key locators are like: FoundedAssumption gives an *)
(* induction up the chain, with which the recursive function ChainOf is    *)
(* shown to satisfy its definition and the signers of a cert to be a       *)
(* linear order. Then what each operation of the store and of the start up *)
(* does to the fields of a DeftT's state (lemmas ...Effect), what it keeps *)
(* (lemmas ...Good), and the inductive invariant IInv.                     *)
(***************************************************************************)
EXTENDS DCTModel, FiniteSetTheorems, TLAPS

\* Zenon proves the leaves that do not name another prover.
USE Zenon

\* The body of ChainOf
Step(f, c) == IF SelfSigned(c) THEN <<c>> ELSE <<c>> \o f[SignedBy[c]]

\* Induction over signing chains: what holds of a cert whenever it holds of the
\* cert's signer (its key locator) holds of all certs.
LEMMA FoundedInduction ==
    ASSUME NEW S \in SUBSET Cert,
           \A c \in Cert : (~SelfSigned(c) => SignedBy[c] \in S) => c \in S
    PROVE  S = Cert
<1>1. ASSUME Cert \ S # {} PROVE FALSE
  <2>1. PICK c \in Cert \ S : SignedBy[c] \notin (Cert \ S) \ {c}
    BY <1>1, FoundedAssumption
  <2> QED BY <2>1, SignedByAssumption DEF SelfSigned
<1> QED BY <1>1

\* T has the signers of its certs
Closed(T) == \A c \in T : SignedBy[c] \in T

\* Key locators being well founded, there is a function as ChainOf asks for:
\* following them (chainIter) ends. A largest set of certs on which there is one,
\* closed under signers, is all of Cert.
LEMMA ChainOfDef == ChainOf = [c \in Cert |-> Step(ChainOf, c)]
<1> DEFINE F == {U \in SUBSET Cert : Closed(Cert \ U) /\ \E g : g = [c \in Cert \ U |-> Step(g, c)]}
<1>1. Cert \in F
  <2>1. Cert \ Cert = {} OBVIOUS
  <2>2. \E g : g = [c \in {} |-> Step(g, c)]
    <3> DEFINE g0 == [c \in {} |-> <<>>]
    <3>1. g0 = [c \in {} |-> Step(g0, c)] OBVIOUS
    <3> QED BY <3>1
  <2> QED BY <2>1, <2>2 DEF Closed
<1>2. F \subseteq FiniteSubsetsOf(Cert)
  BY FoundedAssumption, FS_Subset DEF FiniteSubsetsOf
<1>3. PICK U \in F : \A V \in F : <<V, U>> \notin StrictSubsetOrdering(Cert)
  <2> HIDE DEF F
  <2>1. IsWellFoundedOn(StrictSubsetOrdering(Cert), FiniteSubsetsOf(Cert))
    BY FS_StrictSubsetOrderingWellFounded
  <2> QED BY <2>1, <1>1, <1>2, WFMin
<1>4. ASSUME U # {} PROVE FALSE
  <2>1. PICK c \in U : SignedBy[c] \notin U \ {c}
    BY <1>4, FoundedAssumption
  <2>2. PICK g : g = [d \in Cert \ U |-> Step(g, d)]
    BY <1>3
  <2> DEFINE V == U \ {c}
             h == [d \in Cert \ V |-> IF d = c THEN Step(g, c) ELSE g[d]]
  <2>3. Closed(Cert \ V)
    BY <1>3, <2>1, SignedByAssumption DEF Closed
  <2>4. h = [d \in Cert \ V |-> Step(h, d)]
    <3>1. ASSUME NEW d \in Cert \ V PROVE h[d] = Step(h, d)
      <4>1. CASE d = c
        <5>1. CASE SelfSigned(c)
          BY <4>1, <5>1 DEF Step
        <5>2. CASE ~SelfSigned(c)
          <6>1. SignedBy[c] \in Cert \ U /\ SignedBy[c] # c
            BY <5>2, <2>1, SignedByAssumption DEF SelfSigned
          <6>2. h[SignedBy[c]] = g[SignedBy[c]]
            BY <6>1
          <6> QED BY <4>1, <5>2, <6>2 DEF Step
        <5> QED BY <5>1, <5>2
      <4>2. CASE d # c
        <5>1. d \in Cert \ U /\ h[d] = g[d] /\ g[d] = Step(g, d)
          BY <4>2, <2>2
        <5>2. SignedBy[d] \in Cert \ U
          BY <5>1, <1>3 DEF Closed
        <5>3. h[SignedBy[d]] = g[SignedBy[d]]
          BY <5>2, <2>1
        <5> QED BY <5>1, <5>3 DEF Step
      <4> QED BY <4>1, <4>2
    <3> HIDE DEF V
    <3> QED BY <3>1
  <2>5. V \in F
    <3>1. V \in SUBSET Cert BY <1>3
    <3> HIDE DEF h, V
    <3> QED BY <2>3, <2>4, <3>1
  <2>6. <<V, U>> \in StrictSubsetOrdering(Cert)
    BY <2>1, <1>3 DEF StrictSubsetOrdering
  <2> QED BY <1>3, <2>5, <2>6
<1>5. PICK g : g = [c \in Cert |-> Step(g, c)]
  <2>1. Cert \ {} = Cert OBVIOUS
  <2> QED BY <1>3, <1>4, <2>1
<1> QED BY <1>5 DEF ChainOf, Step

\* What chainIter visits: c first, then the chain of c's signer.
LEMMA ChainType ==
    ASSUME NEW c \in Cert
    PROVE  /\ ChainOf[c] \in Seq(Cert) /\ Len(ChainOf[c]) > 0 /\ ChainOf[c][1] = c
           /\ SelfSigned(c) => ChainOf[c] = <<c>>
           /\ ~SelfSigned(c) => /\ ChainOf[c] = <<c>> \o ChainOf[SignedBy[c]]
                                /\ ChainOf[SignedBy[c]] \in Seq(Cert)
                                /\ Len(ChainOf[SignedBy[c]]) > 0
<1> DEFINE S == {d \in Cert : ChainOf[d] \in Seq(Cert) /\ Len(ChainOf[d]) > 0 /\ ChainOf[d][1] = d}
<1>1. ASSUME NEW d \in Cert
      PROVE  ChainOf[d] = IF SelfSigned(d) THEN <<d>> ELSE <<d>> \o ChainOf[SignedBy[d]]
  BY ChainOfDef DEF Step
<1>2. ASSUME NEW d \in Cert, ~SelfSigned(d) => SignedBy[d] \in S PROVE d \in S
  <2>1. CASE SelfSigned(d)
    <3>1. ChainOf[d] = <<d>> BY <1>1, <2>1
    <3>2. <<d>> \in Seq(Cert) /\ Len(<<d>>) > 0 /\ <<d>>[1] = d BY SMT
    <3> QED BY <3>1, <3>2
  <2>2. CASE ~SelfSigned(d)
    <3> DEFINE t == ChainOf[SignedBy[d]]
    <3>1. ChainOf[d] = <<d>> \o t /\ t \in Seq(Cert)
      BY <1>1, <1>2, <2>2
    <3> HIDE DEF t
    <3>2. ChainOf[d] \in Seq(Cert) /\ Len(ChainOf[d]) = 1 + Len(t) /\ ChainOf[d][1] = d
      BY SMT, <3>1
    <3>3. Len(ChainOf[d]) > 0 BY SMT, <3>1, <3>2
    <3> QED BY <3>2, <3>3
  <2> QED BY <2>1, <2>2
<1>3. S = Cert
  <2> HIDE DEF S
  <2>1. S \in SUBSET Cert BY DEF S
  <2> QED BY <1>2, <2>1, FoundedInduction
<1> QED BY <1>1, <1>3, SignedByAssumption

\* The certs of c's chain
InChain(c) == {ChainOf[c][i] : i \in DOMAIN ChainOf[c]}

\* A chain has c and its signers, one after the other (chainIter).
LEMMA RangeStep ==
    ASSUME NEW c \in Cert
    PROVE  /\ InChain(c) \subseteq Cert
           /\ InChain(c) = {c} \cup Signers[c] /\ c \notin Signers[c]
           /\ SelfSigned(c) => InChain(c) = {c}
           /\ ~SelfSigned(c) => InChain(c) = {c} \cup InChain(SignedBy[c])
<1>1. InChain(c) \subseteq Cert /\ c \in InChain(c)
  <2>1. ChainOf[c] \in Seq(Cert) /\ Len(ChainOf[c]) > 0 /\ ChainOf[c][1] = c
    BY ChainType
  <2>2. DOMAIN ChainOf[c] = 1..Len(ChainOf[c]) /\ 1 \in DOMAIN ChainOf[c]
    BY SMT, <2>1
  <2>3. \A i \in DOMAIN ChainOf[c] : ChainOf[c][i] \in Cert
    BY SMT, <2>1
  <2> QED BY <2>1, <2>2, <2>3 DEF InChain
<1>2. Signers[c] = InChain(c) \ {c}
  BY <1>1 DEF Signers, InChain
<1>3. ASSUME SelfSigned(c) PROVE InChain(c) = {c}
  <2>1. ChainOf[c] = <<c>> BY <1>3, ChainType
  <2>2. \A i \in DOMAIN ChainOf[c] : ChainOf[c][i] = c BY SMT, <2>1
  <2> QED BY <1>1, <2>2 DEF InChain
<1>4. ASSUME ~SelfSigned(c) PROVE InChain(c) = {c} \cup InChain(SignedBy[c])
  <2> DEFINE t == ChainOf[SignedBy[c]]
  <2>1. ChainOf[c] = <<c>> \o t /\ t \in Seq(Cert)
    BY <1>4, ChainType
  <2> HIDE DEF t
  <2>2. ASSUME NEW i \in DOMAIN ChainOf[c] PROVE ChainOf[c][i] = c \/ \E j \in DOMAIN t : ChainOf[c][i] = t[j]
    <3>1. CASE i = 1 BY SMT, <3>1, <2>1
    <3>2. CASE i # 1
      <4>1. i - 1 \in DOMAIN t /\ ChainOf[c][i] = t[i - 1]
        BY SMT, <2>1, <3>2
      <4> QED BY <4>1
    <3> QED BY <3>1, <3>2
  <2>3. ASSUME NEW j \in DOMAIN t PROVE j + 1 \in DOMAIN ChainOf[c] /\ ChainOf[c][j + 1] = t[j]
    BY SMT, <2>1
  <2> QED BY SMT, <1>1, <2>2, <2>3 DEF InChain, t
<1> QED BY <1>1, <1>2, <1>3, <1>4

\* A signer's chain is shorter (chainIter).
LEMMA SignersShorter ==
    ASSUME NEW c \in Cert, NEW d \in Signers[c]
    PROVE  d \in Cert /\ Len(ChainOf[d]) < Len(ChainOf[c])
<1> DEFINE S == {e \in Cert : \A x \in Signers[e] : x \in Cert /\ Len(ChainOf[x]) < Len(ChainOf[e])}
<1>1. ASSUME NEW e \in Cert, ~SelfSigned(e) => SignedBy[e] \in S PROVE e \in S
  <2>1. ASSUME NEW x \in Signers[e] PROVE x \in Cert /\ Len(ChainOf[x]) < Len(ChainOf[e])
    <3>1. x \in Cert /\ ~SelfSigned(e) /\ x \in InChain(SignedBy[e])
      BY RangeStep
    <3>2. Len(ChainOf[e]) = 1 + Len(ChainOf[SignedBy[e]]) /\ Len(ChainOf[SignedBy[e]]) \in Nat
      <4> DEFINE t == ChainOf[SignedBy[e]]
      <4>1. ChainOf[e] = <<e>> \o t /\ t \in Seq(Cert) BY <3>1, ChainType
      <4> HIDE DEF t
      <4>2. Len(ChainOf[e]) = 1 + Len(t) /\ Len(t) \in Nat BY SMT, <4>1
      <4> QED BY <4>2 DEF t
    <3>3. SignedBy[e] \in S /\ (x = SignedBy[e] \/ x \in Signers[SignedBy[e]])
      BY SMT, <1>1, <3>1, RangeStep, SignedByAssumption
    <3>4. Len(ChainOf[x]) \in Nat BY SMT, <3>1, ChainType
    <3> QED BY SMT, <3>1, <3>2, <3>3, <3>4
  <2> QED BY <2>1
<1>2. S = Cert
  <2> HIDE DEF S
  <2>1. S \in SUBSET Cert BY DEF S
  <2> QED BY <1>1, <2>1, FoundedInduction
<1> QED BY SMT, <1>2

\* The signers of c are the cert its key locator names and the signers of that;
\* no cert is among its own signers' signers (chainIter).
LEMMA SignersStep ==
    ASSUME NEW c \in Cert
    PROVE  /\ Signers[c] \subseteq Cert /\ c \notin Signers[c]
           /\ SelfSigned(c) => Signers[c] = {}
           /\ ~SelfSigned(c) => Signers[c] = {SignedBy[c]} \cup Signers[SignedBy[c]]
           /\ \A d \in Signers[c] : c \notin Signers[d]
<1>1. ASSUME NEW d \in Signers[c] PROVE c \notin Signers[d]
  <2>1. d \in Cert /\ Len(ChainOf[d]) < Len(ChainOf[c]) BY SignersShorter
  <2>2. Len(ChainOf[c]) \in Nat /\ Len(ChainOf[d]) \in Nat BY SMT, <2>1, ChainType
  <2>3. c \in Signers[d] => Len(ChainOf[c]) < Len(ChainOf[d]) BY <2>1, SignersShorter
  <2> QED BY SMT, <2>1, <2>2, <2>3
<1>2. ASSUME ~SelfSigned(c) PROVE Signers[c] = {SignedBy[c]} \cup Signers[SignedBy[c]]
  <2> DEFINE s == SignedBy[c]
  <2>1. s \in Cert /\ s # c BY <1>2, SignedByAssumption DEF SelfSigned
  <2>2. Signers[c] = InChain(s) \ {c} BY <1>2, RangeStep
  <2>3. s \in Signers[c] /\ InChain(s) = {s} \cup Signers[s] BY <2>1, <2>2, RangeStep
  <2> QED BY <2>1, <2>2, <2>3, <1>1
<1> QED BY SMT, <1>1, <1>2, RangeStep

\* A store that has the signer of each of its certs has all of their chains, so that
\* chainIter never misses one.
LEMMA SignersClosed ==
    ASSUME NEW T \in SUBSET Cert, \A c \in T : SignedBy[c] \in T, NEW c \in T
    PROVE  Signers[c] \subseteq T
<1> DEFINE S == {e \in Cert : e \in T => Signers[e] \subseteq T}
<1>1. ASSUME NEW e \in Cert, ~SelfSigned(e) => SignedBy[e] \in S PROVE e \in S
  BY SMT, <1>1, SignersStep
<1>2. S = Cert
  <2> HIDE DEF S
  <2>1. S \in SUBSET Cert BY DEF S
  <2> QED BY <1>1, <2>1, FoundedInduction
<1> QED BY <1>2

\* The signers of a signer are signers (chainIter).
LEMMA SignersTransitive ==
    ASSUME NEW c \in Cert, NEW d \in Signers[c]
    PROVE  Signers[d] \subseteq Signers[c]
<1> DEFINE S == {e \in Cert : \A x \in Signers[e] : Signers[x] \subseteq Signers[e]}
<1>1. ASSUME NEW e \in Cert, ~SelfSigned(e) => SignedBy[e] \in S PROVE e \in S
  BY SMT, <1>1, SignersStep
<1>2. S = Cert
  <2> HIDE DEF S
  <2>1. S \in SUBSET Cert BY DEF S
  <2> QED BY <1>1, <2>1, FoundedInduction
<1> QED BY <1>2

\* Of two signers of a cert one has signed the other, directly or not: chains do not
\* branch (chainIter).
LEMMA SignersLinear ==
    ASSUME NEW c \in Cert, NEW d \in Signers[c], NEW e \in Signers[c]
    PROVE  d = e \/ d \in Signers[e] \/ e \in Signers[d]
<1> DEFINE S == {x \in Cert : \A y, z \in Signers[x] : y = z \/ y \in Signers[z] \/ z \in Signers[y]}
<1>1. ASSUME NEW x \in Cert, ~SelfSigned(x) => SignedBy[x] \in S PROVE x \in S
  BY SMT, <1>1, SignersStep
<1>2. S = Cert
  <2> HIDE DEF S
  <2>1. S \in SUBSET Cert BY DEF S
  <2> QED BY <1>1, <2>1, FoundedInduction
<1> QED BY <1>2

\* A cert whose chain validateChain accepts has the name of a signing cert, and unless
\* it is self-signed it is a cert of the schema: chains are in ascending order
\* (readChain), so a chain of several certs does not start at the trust anchor.
LEMMA AllowedSigns ==
    ASSUME NEW b \in Schema, NEW c \in ChainAllowed[b]
    PROVE  c \in IsSigningCert[b] /\ (SelfSigned(c) \/ c \in MatchesAny[b])
<1>1. c \in Cert /\ MatchesChain(b, c) # {}
  BY DEF ChainAllowed
<1>2. PICK i \in DOMAIN ChainT[b] : MatchesAll(b, ChainNames(c), ChainT[b][i])
  BY <1>1 DEF MatchesChain
<1> DEFINE t == ChainT[b][i]
<1>3. t \in Seq(1..Len(CertT[b])) /\ Len(CertT[b]) \in Nat
      /\ \A j, k \in DOMAIN t : j < k => t[j] < t[k]
  BY SchemaAssumption
<1>4. ChainOf[c] \in Seq(Cert) /\ Len(ChainOf[c]) > 0 /\ ChainOf[c][1] = c
  BY <1>1, ChainType
<1>5. Len(ChainNames(c)) = Len(ChainOf[c]) /\ ChainNames(c)[1] = CertName[c]
  <2> DEFINE m == Len(ChainOf[c])
  <2>1. m \in Nat /\ DOMAIN ChainOf[c] = 1..m /\ 1 \in 1..m BY SMT, <1>4
  <2>2. ChainNames(c) = [k \in 1..m |-> CertName[ChainOf[c][k]]] BY <2>1 DEF ChainNames
  <2> HIDE DEF m
  <2>3. Len(ChainNames(c)) = m /\ ChainNames(c)[1] = CertName[ChainOf[c][1]] BY SMT, <2>1, <2>2
  <2> QED BY <2>3, <1>4 DEF m
<1>6. Len(t) = Len(ChainOf[c]) /\ 1 \in DOMAIN t /\ Matches(CertName[c], CertT[b][t[1]])
  <2>1. Len(ChainNames(c)) = Len(t) /\ \A k \in DOMAIN t : Matches(ChainNames(c)[k], CertT[b][t[k]])
    BY <1>2 DEF MatchesAll
  <2>2. Len(t) > 0 /\ 1 \in DOMAIN t BY SMT, <1>3, <1>4, <1>5, <2>1
  <2> QED BY <1>5, <2>1, <2>2
<1>7. c \in IsSigningCert[b]
  <2>1. t # <<>> BY SMT, <1>3, <1>6
  <2> QED BY <1>1, <1>6, <2>1 DEF IsSigningCert
<1>8. ASSUME ~SelfSigned(c) PROVE c \in MatchesAny[b]
  <2>1. Len(ChainOf[c]) > 1
    <3> DEFINE r == ChainOf[SignedBy[c]]
    <3>1. ChainOf[c] = <<c>> \o r /\ r \in Seq(Cert) /\ Len(r) > 0 BY <1>1, <1>8, ChainType
    <3> HIDE DEF r
    <3> QED BY SMT, <3>1
  <2>2. 2 \in DOMAIN t /\ t[1] < t[2] /\ t[1] \in 1..Len(CertT[b]) /\ t[2] \in 1..Len(CertT[b])
    BY SMT, <1>3, <1>6, <2>1
  <2>3. t[1] \in 1..Len(CertT[b]) - 1 BY SMT, <1>3, <2>2
  <2> QED BY <1>1, <1>6, <2>3 DEF MatchesAny
<1> QED BY <1>7, <1>8
-------------------------------------------------------------------------------
\* The type of a DeftT's state
State ==
    [life : {"off", "up", "dead"}, bs : Schema \cup {NoCert}, certs : SUBSET Cert,
     keys : SUBSET Cert, chains : Seq(Cert), pending : SUBSET Cert, pv : SUBSET Cert,
     initialPubs : SUBSET Cert, havePeer : BOOLEAN, initDone : BOOLEAN, coll : SUBSET Cert,
     signer : Cert \cup {NoCert}, rekeyAt : Int, next : Cert \cup {NoCert},
     used : SUBSET Cert, waiting : Nat, starts : Nat]

\* What the start up never touches
SameStore(s, t) ==
    /\ t.life = s.life /\ t.bs = s.bs /\ t.certs = s.certs /\ t.keys = s.keys
    /\ t.chains = s.chains /\ t.pending = s.pending /\ t.pv = s.pv /\ t.next = s.next

\* The start up, of which ConnectedOnce is a part: m_sync is only started after initDone
StartOK(s) ==
    /\ s.starts <= 1 /\ (s.starts = 1 => s.initDone)
    /\ s.initDone => s.initialPubs = {} /\ s.havePeer

\* The initial publications stay, and initDone once it is set
StartKept(s, t) == t.initialPubs = s.initialPubs /\ (s.initDone => t.initDone)

\* One phase of start is done: only waiting and starts change.
LEMMA StartNextEffect ==
    ASSUME NEW s \in State
    PROVE  LET t == StartNext(s)
           IN  /\ t \in State /\ SameStore(s, t) /\ t.coll = s.coll
               /\ t.initialPubs = s.initialPubs /\ t.havePeer = s.havePeer
               /\ t.initDone = s.initDone /\ t.starts <= s.starts + 1
<1>1. s.waiting \in Nat /\ s.starts \in Nat BY DEF State
<1>2. CASE s.waiting = 0
  <2>1. StartNext(s) = [s EXCEPT !.starts = s.starts + 1] BY <1>2 DEF StartNext
  <2> QED BY SMT, <1>1, <2>1 DEF State, SameStore
<1>3. CASE s.waiting # 0
  <2>1. StartNext(s) = [s EXCEPT !.waiting = s.waiting - 1] BY <1>3 DEF StartNext
  <2>2. s.waiting - 1 \in Nat BY SMT, <1>1, <1>3
  <2> QED BY SMT, <1>1, <2>1, <2>2 DEF State, SameStore
<1> QED BY <1>2, <1>3

\* initDone changes the start up alone.
LEMMA InitDoneEffect ==
    ASSUME NEW s \in State
    PROVE  LET t == InitDone(s)
           IN  /\ t \in State /\ SameStore(s, t) /\ t.coll = s.coll
               /\ t.initialPubs = s.initialPubs /\ t.havePeer = s.havePeer
               /\ t.initDone /\ t.starts <= s.starts + 1
<1> DEFINE u == [s EXCEPT !.initDone = TRUE]
<1>1. u \in State /\ SameStore(s, u) /\ u.coll = s.coll /\ u.initialPubs = s.initialPubs
      /\ u.havePeer = s.havePeer /\ u.initDone /\ u.starts = s.starts
  BY DEF State, SameStore
<1> HIDE DEF u
<1> QED BY <1>1, StartNextEffect DEF InitDone, SameStore, u

\* publishCert adds c to the collection, and runs initDone only where it is due.
LEMMA PublishCertEffect ==
    ASSUME NEW s \in State, NEW c \in Cert
    PROVE  LET t == PublishCert(s, c)
           IN  /\ t \in State /\ SameStore(s, t) /\ t.coll = s.coll \cup {c}
               /\ (StartOK(s) => StartOK(t)) /\ StartKept(s, t)
<1> DEFINE u == [s EXCEPT !.havePeer = TRUE, !.coll = @ \cup {c}]
<1>1. u \in State /\ SameStore(s, u) /\ u.coll = s.coll \cup {c} /\ u.initialPubs = s.initialPubs
      /\ u.havePeer /\ u.initDone = s.initDone /\ u.starts = s.starts
  BY DEF State, SameStore
<1>2. u.starts \in Nat /\ s.starts \in Nat /\ InitDone(u).starts \in Nat BY <1>1, InitDoneEffect DEF State
<1> HIDE DEF u
<1>3. CASE ~s.initDone /\ s.initialPubs = {}
  <2>1. PublishCert(s, c) = InitDone(u) BY <1>3 DEF PublishCert, u
  <2> QED BY SMT, <1>1, <1>2, <1>3, <2>1, InitDoneEffect DEF SameStore, StartOK, StartKept
<1>4. CASE ~(~s.initDone /\ s.initialPubs = {})
  <2>1. PublishCert(s, c) = u BY <1>4 DEF PublishCert, u
  <2> QED BY <1>1, <1>2, <1>4, <2>1 DEF SameStore, StartOK, StartKept
<1> QED BY <1>3, <1>4

\* A confirmation of initial certs runs initDone only where it is due (initialPub).
LEMMA InitialConfirmedEffect ==
    ASSUME NEW s \in State, NEW S \in SUBSET s.initialPubs, S # {}
    PROVE  LET t == InitialConfirmed(s, S)
           IN  /\ t \in State /\ SameStore(s, t) /\ t.coll = s.coll
               /\ (StartOK(s) => StartOK(t))
               /\ t.initialPubs = s.initialPubs \ S /\ (s.initDone => t.initDone)
<1> DEFINE u == [s EXCEPT !.initialPubs = @ \ S]
<1>1. u \in State /\ SameStore(s, u) /\ u.coll = s.coll /\ u.initialPubs = s.initialPubs \ S
      /\ u.havePeer = s.havePeer /\ u.initDone = s.initDone /\ u.starts = s.starts
  BY DEF State, SameStore
<1>2. u.starts \in Nat /\ s.starts \in Nat /\ InitDone(u).starts \in Nat BY <1>1, InitDoneEffect DEF State
<1>3. s.initialPubs # {} OBVIOUS
<1> HIDE DEF u
<1>4. CASE u.havePeer /\ u.initialPubs = {}
  <2>1. InitialConfirmed(s, S) = InitDone(u) BY <1>4 DEF InitialConfirmed, u
  <2> QED BY SMT, <1>1, <1>2, <1>3, <1>4, <2>1, InitDoneEffect DEF SameStore, StartOK
<1>5. CASE ~(u.havePeer /\ u.initialPubs = {})
  <2>1. InitialConfirmed(s, S) = u BY <1>5 DEF InitialConfirmed, u
  <2> QED BY <1>1, <1>2, <1>3, <1>5, <2>1 DEF SameStore, StartOK
<1> QED BY <1>4, <1>5

\* certStore::add of a new, valid cert.
LEMMA AddEffect ==
    ASSUME NEW s \in State, NEW c \in Cert, Valid(c), c \notin s.certs
    PROVE  LET t == Add(s, c)
           IN  /\ t \in State /\ t.life = s.life /\ t.bs = s.bs /\ t.certs = s.certs \cup {c}
               /\ t.keys = s.keys /\ t.chains = s.chains /\ t.pending = s.pending /\ t.pv = s.pv
               /\ t.coll = s.coll \cup {c} /\ (StartOK(s) => StartOK(t)) /\ StartKept(s, t)
<1> DEFINE u == [s EXCEPT !.certs = @ \cup {c}]
<1>1. u \in State /\ u.life = s.life /\ u.bs = s.bs /\ u.certs = s.certs \cup {c}
      /\ u.keys = s.keys /\ u.chains = s.chains /\ u.pending = s.pending /\ u.pv = s.pv
      /\ u.coll = s.coll /\ (StartOK(s) => StartOK(u)) /\ StartKept(s, u)
  BY DEF State, StartOK, StartKept
<1> HIDE DEF u
<1>2. Add(s, c) = PublishCert(u, c) BY DEF Add, u
<1> QED BY SMT, <1>1, <1>2, PublishCertEffect DEF SameStore, StartKept

\* The certs that checkPendingCerts adds
Taken(s, c) ==
    {p \in Reached(s, c) \ s.certs :
        /\ WellFormed(s.bs, p)
        /\ p \in IsSigningCert[s.bs] => ValidateChain(s.bs, s.certs \cup Reached(s, c), p)}

\* checkPendingCerts, field by field.
LEMMA CheckPendingEffect ==
    ASSUME NEW s \in State, NEW c \in Cert
    PROVE  LET t == CheckPendingCerts(s, c)
           IN  /\ t \in State /\ t.life = s.life /\ t.bs = s.bs
               /\ t.certs = s.certs \cup Taken(s, c) /\ t.coll = s.coll \cup Taken(s, c)
               /\ t.keys = s.keys /\ t.chains = s.chains
               /\ t.pending = s.pending \ Reached(s, c)
               /\ t.pv = s.pv \cup (Taken(s, c) \cap IsSigningCert[s.bs])
               /\ (StartOK(s) => StartOK(t)) /\ StartKept(s, t)
<1> DEFINE R == Reached(s, c)
           K == Taken(s, c)
           G == K \cap IsSigningCert[s.bs]
<1>1. K \subseteq Cert /\ G \subseteq Cert BY DEF Taken, Reached, State
<1>2. CheckPendingCerts(s, c) =
        [s EXCEPT !.pending = s.pending \ R, !.certs = s.certs \cup K, !.coll = s.coll \cup K,
                  !.pv = s.pv \cup G]
  BY DEF CheckPendingCerts, Taken
<1> HIDE DEF R, K, G
<1> DEFINE t == CheckPendingCerts(s, c)
<1>3. t \in State
  <2> DEFINE a == s.pending \ R
             b == s.certs \cup K
             d == s.coll \cup K
             e == s.pv \cup G
  <2>1. a \in SUBSET Cert /\ b \in SUBSET Cert /\ d \in SUBSET Cert /\ e \in SUBSET Cert
    BY <1>1 DEF State
  <2>2. t = [s EXCEPT !.pending = a, !.certs = b, !.coll = d, !.pv = e] BY <1>2
  <2> HIDE DEF a, b, d, e, t
  <2> QED BY <2>1, <2>2 DEF State
<1>4. /\ t.life = s.life /\ t.bs = s.bs /\ t.certs = s.certs \cup K /\ t.coll = s.coll \cup K
      /\ t.keys = s.keys /\ t.chains = s.chains /\ t.pending = s.pending \ R /\ t.pv = s.pv \cup G
      /\ t.starts = s.starts /\ t.initDone = s.initDone /\ t.initialPubs = s.initialPubs
      /\ t.havePeer = s.havePeer
  BY SMT, <1>2 DEF State
<1> QED BY <1>3, <1>4 DEF R, K, G, StartOK, StartKept

\* certStore::add of a new, valid cert with its key.
LEMMA AddPairEffect ==
    ASSUME NEW s \in State, NEW c \in Cert, Valid(c), c \notin s.certs
    PROVE  LET t == AddPair(s, c)
           IN  /\ t \in State /\ t.life = s.life /\ t.bs = s.bs /\ t.certs = s.certs \cup {c}
               /\ t.keys = s.keys \cup {c} /\ t.chains = s.chains /\ t.pending = s.pending
               /\ t.pv = s.pv /\ t.coll = s.coll \cup {c} /\ (StartOK(s) => StartOK(t)) /\ StartKept(s, t)
<1> DEFINE u == Add(s, c)
<1>1. /\ u \in State /\ u.life = s.life /\ u.bs = s.bs /\ u.certs = s.certs \cup {c}
      /\ u.keys = s.keys /\ u.chains = s.chains /\ u.pending = s.pending /\ u.pv = s.pv
      /\ u.coll = s.coll \cup {c} /\ (StartOK(s) => StartOK(u)) /\ StartKept(s, u)
  BY AddEffect
<1>2. AddPair(s, c) = [u EXCEPT !.keys = @ \cup {c}] BY DEF AddPair
<1> HIDE DEF u
<1> QED BY SMT, <1>1, <1>2 DEF State, StartOK, StartKept

\* insertChain, and the signature managers' new key (addKP).
LEMMA InsertChainEffect ==
    ASSUME NEW s \in State, NEW c \in Cert, s.chains # <<>>
    PROVE  LET t == [InsertChain(s, c) EXCEPT !.signer = c]
           IN  /\ t \in State /\ t.life = s.life /\ t.bs = s.bs /\ t.certs = s.certs
               /\ t.keys = s.keys /\ t.chains # <<>> /\ t.pending = s.pending
               /\ t.pv = s.pv /\ t.coll = s.coll /\ (StartOK(s) => StartOK(t)) /\ StartKept(s, t)
<1> DEFINE ch == SubSeq(<<c>> \o s.chains, 1, 2)
<1>1. s.chains \in Seq(Cert) /\ Len(s.chains) > 0 BY SMT DEF State
<1>2. ch \in Seq(Cert) /\ ch # <<>>
  <2>1. <<c>> \o s.chains \in Seq(Cert) /\ Len(<<c>> \o s.chains) >= 2 BY SMT, <1>1
  <2>2. ch \in Seq(Cert) /\ Len(ch) = 2 BY SMT, <2>1
  <2> QED BY SMT, <2>2
<1>3. [InsertChain(s, c) EXCEPT !.signer = c] = [s EXCEPT !.chains = ch, !.signer = c]
  BY DEF InsertChain, State
<1> HIDE DEF ch
<1> QED BY <1>2, <1>3 DEF State, StartOK, StartKept
-------------------------------------------------------------------------------
\* The store of a running DeftT: ChainsComplete, with the schema's signer and the rest
\* of the bootstrap certs
StoreOK(n, s) ==
    s.life = "up" =>
        /\ s.bs = SchemaOf[n] /\ s.chains # <<>> /\ s.keys \subseteq s.certs
        /\ Bootstrap[n] \ {SchemaOf[n]} \subseteq s.certs /\ SignedBy[SchemaOf[n]] \in s.certs
        /\ \A c \in s.certs :
              /\ SignedBy[c] \in s.certs
              /\ SelfSigned(c) => c \in Bootstrap[n] \cup s.keys
              /\ SelfSigned(c) \/ c \in Schema \/ c \in MatchesAny[SchemaOf[n]]

\* ValidatorsExact, of one DeftT
PvOK(n, s) ==
    /\ s.pv = {c \in s.certs \ (s.keys \cup Bootstrap[n]) : c \in IsSigningCert[SchemaOf[n]]}
    /\ \A c \in s.pv : ValidateChain(SchemaOf[n], s.certs, c)

\* What is in the store is published, and nobody publishes a cert before its validity
\* period
CollOK(s) == s.certs \subseteq s.coll /\ \A c \in s.coll : From[c] <= now

\* The certs that n is to admit when it has their signers
Expected(n, p) ==
    /\ p \in Lasting /\ p \in MatchesAny[SchemaOf[n]] /\ ~SelfSigned(p) /\ p \notin Schema
    /\ p \in IsSigningCert[SchemaOf[n]] => p \in ChainAllowed[SchemaOf[n]]
    /\ SignedBy[p] \notin IsSigningCert[SchemaOf[n]]

\* Such a cert is in the store, or is pending and its signer is missing; G: certs of a
\* chain that is being relayed, X: certs not looked at yet
PendOK(n, s, G, X) ==
    s.life = "up" =>
        \A p \in (s.coll \cup G) \ (s.certs \cup X) :
            Expected(n, p) => p \in s.pending /\ SignedBy[p] \notin s.certs

\* A cert that addCert is to admit passes the tests on cert and clock.
LEMMA ExpectedValid ==
    ASSUME NEW n \in Deft, NEW p \in Cert, Expected(n, p), From[p] <= now, now \in 0..MaxTime
    PROVE  WellFormed(SchemaOf[n], p)
<1>1. Until[p] > MaxTime /\ Until[p] \in Nat /\ MaxTime \in Nat
  BY SMT, TimeAssumption DEF Expected, Lasting
<1>2. Valid(p) BY SMT, <1>1 DEF Valid
<1> QED BY <1>2 DEF WellFormed, Expected

\* From c to a cert that checkPendingCerts reaches from it, every cert in between
\* is taken from pending_ and added.
LEMMA ReachedChain ==
    ASSUME NEW s \in State, NEW c \in s.certs, \A d \in s.certs : SignedBy[d] \in s.certs,
           NEW p \in Reached(s, c)
    PROVE  /\ p \in Cert /\ c \in Signers[p] /\ p \in s.pending
           /\ Signers[p] \subseteq s.certs \cup Taken(s, c)
           /\ \A q \in Signers[p] : c \in Signers[q] =>
                 q \in Taken(s, c) /\ q \in s.pending \ s.certs
                 /\ WellFormed(s.bs, q) /\ q \notin IsSigningCert[s.bs]
<1>1. p \in Cert /\ c \in Cert /\ s.certs \in SUBSET Cert /\ p \in s.pending /\ c \in Signers[p] BY DEF Reached, State
<1>2. ASSUME NEW q \in Signers[p], c \in Signers[q] 
      PROVE q \in Taken(s, c) /\ q \in s.pending \ s.certs
            /\ WellFormed(s.bs, q) /\ q \notin IsSigningCert[s.bs]
  <2>1. q \in s.pending \ s.certs /\ WellFormed(s.bs, q) /\ q \notin IsSigningCert[s.bs]
    BY <1>2 DEF Reached
  <2>2. Signers[q] \subseteq Signers[p] BY <1>1, SignersTransitive
  <2>3. q \in Reached(s, c) BY <1>2, <2>1, <2>2 DEF Reached
  <2> QED BY <2>1, <2>3 DEF Taken
<1>3. ASSUME NEW q \in Signers[p], c \notin Signers[q] PROVE q \in s.certs
  <2>1. q = c \/ q \in Signers[c] BY <1>1, <1>3, SignersLinear
  <2>2. Signers[c] \subseteq s.certs BY <1>1, SignersClosed
  <2> QED BY <2>1, <2>2
<1> QED BY <1>1, <1>2, <1>3

\* Conversely, a pending cert is reached when its signer is c, or is itself taken and
\* not a signing cert (checkPendingCerts).
LEMMA SignerReached ==
    ASSUME NEW s \in State, NEW c \in Cert, NEW p \in s.pending, ~SelfSigned(p),
           SignedBy[p] = c \/ (/\ SignedBy[p] \in Taken(s, c) 
                              /\ SignedBy[p] \notin IsSigningCert[s.bs])
    PROVE  p \in Reached(s, c)
<1>1. p \in Cert BY DEF State
<1>2. Signers[p] = {SignedBy[p]} \cup Signers[SignedBy[p]] BY <1>1, SignersStep
<1>3. CASE SignedBy[p] = c
  BY <1>2, <1>3, SignersStep DEF Reached
<1>4. CASE SignedBy[p] \in Taken(s, c) /\ SignedBy[p] \notin IsSigningCert[s.bs]
  <2> DEFINE q == SignedBy[p]
  <2>1. q \in s.pending \ s.certs /\ WellFormed(s.bs, q) /\ q \in Reached(s, c)
    BY <1>4 DEF Taken, Reached
  <2> QED BY <1>2, <1>4, <2>1 DEF Reached
<1> QED BY <1>3, <1>4

\* What holds of a store whatever chain a new pair of its own has
Base(n, s) ==
    s.bs = SchemaOf[n] /\ s.keys \subseteq s.certs /\ Bootstrap[n] \ {SchemaOf[n]} \subseteq s.certs

\* All that is kept for a DeftT n in state s, its process having thrown or not
Sound(n, s) == Base(n, s) /\ PvOK(n, s) /\ CollOK(s) /\ StartOK(s)

\* All that is kept for a DeftT n in state s, while addCert looks at the certs in X
Good(n, s, G, X) == StoreOK(n, s) /\ PvOK(n, s) /\ CollOK(s) /\ PendOK(n, s, G, X) /\ StartOK(s)

\* Nothing leaves a store or a collection
Grown(s, t) ==
    /\ t.bs = s.bs /\ s.certs \subseteq t.certs /\ s.keys \subseteq t.keys
    /\ s.coll \subseteq t.coll /\ (s.initDone => t.initDone)

\* Certs are added to a store without a key
Added(s, t) ==
    /\ Grown(s, t) /\ t.life = s.life /\ t.keys = s.keys /\ t.chains = s.chains
    /\ t.initialPubs = s.initialPubs

\* checkPendingCerts sets up validators for what it adds.
LEMMA CheckPendingSound ==
    ASSUME NEW n \in Deft, NEW s \in State, NEW c \in Cert, Sound(n, s)
    PROVE  LET t == CheckPendingCerts(s, c) IN t \in State /\ Sound(n, t) /\ Added(s, t)
<1> DEFINE t == CheckPendingCerts(s, c)
           K == Taken(s, c)
           R == Reached(s, c)
<1>1. /\ t \in State /\ t.life = s.life /\ t.bs = s.bs
      /\ t.certs = s.certs \cup K /\ t.coll = s.coll \cup K
      /\ t.keys = s.keys /\ t.chains = s.chains
      /\ t.pending = s.pending \ R
      /\ t.pv = s.pv \cup (K \cap IsSigningCert[s.bs])
      /\ StartOK(t) /\ StartKept(s, t)
  BY CheckPendingEffect DEF Sound
<1>2. ASSUME NEW p \in K
      PROVE  /\ p \in R \ s.certs /\ WellFormed(s.bs, p)
             /\ p \in IsSigningCert[s.bs] => ValidateChain(s.bs, s.certs \cup R, p)
  BY DEF Taken
<1>3. ASSUME NEW p \in R, NEW q \in Signers[p], q \in R PROVE q \in K
  BY <1>3 DEF Taken, Reached
<1> HIDE DEF t, K, R
<1>4. PvOK(n, t)
  <2>1. ASSUME NEW p \in K PROVE p \notin s.keys \cup Bootstrap[n] /\ p \notin s.certs
    <3>1. p \notin Schema BY <1>2 DEF WellFormed
    <3> QED BY <1>2, <3>1, TrustAssumption DEF Sound, Base
  <2>2. ASSUME NEW p \in K, p \in IsSigningCert[s.bs] PROVE ValidateChain(SchemaOf[n], t.certs, p)
    BY <1>1, <1>2, <1>3, <2>2 DEF ValidateChain, Sound, Base
  <2>3. \A p \in s.pv : ValidateChain(SchemaOf[n], t.certs, p)
    BY <1>1 DEF Sound, PvOK, ValidateChain
  <2>4. t.pv = {p \in t.certs \ (t.keys \cup Bootstrap[n]) : p \in IsSigningCert[SchemaOf[n]]}
    BY <1>1, <2>1 DEF Sound, Base, PvOK
  <2> QED BY <1>1, <2>2, <2>3, <2>4 DEF PvOK
<1>5. CollOK(t)
  BY <1>1, <1>2 DEF Sound, CollOK, WellFormed, Valid
<1>6. Base(n, t) /\ Added(s, t) BY <1>1 DEF Sound, Base, Added, Grown, StartKept
<1> QED BY <1>1, <1>4, <1>5, <1>6 DEF Sound, t

\* addCert keeps validators and signing certs in step, even in a store whose own new
\* chain is broken.
LEMMA AddCertSound ==
    ASSUME NEW n \in Deft, NEW s \in State, NEW c \in Cert, Sound(n, s)
    PROVE  LET t == AddCert(s, c) IN t \in State /\ Sound(n, t) /\ Added(s, t)
<1> DEFINE t == AddCert(s, c)
           u == Add(s, c)
<1>0. StartOK(s) BY DEF Sound
<1>1. CASE t = s
  BY <1>1 DEF Added, Grown
<1>2. CASE t = [s EXCEPT !.pending = @ \cup {c}]
  <2>1. /\ t \in State /\ t.life = s.life /\ t.bs = s.bs /\ t.certs = s.certs
        /\ t.keys = s.keys /\ t.chains = s.chains /\ t.pv = s.pv
        /\ t.coll = s.coll /\ StartOK(t) /\ StartKept(s, t)
    <3>1. s.pending \cup {c} \in SUBSET Cert BY DEF State
    <3> HIDE DEF t
    <3> QED BY <1>0, <1>2, <3>1 DEF State, StartOK, StartKept
  <2> HIDE DEF t
  <2>2. Base(n, t) /\ PvOK(n, t) /\ CollOK(t) BY <2>1 DEF Sound, Base, PvOK, CollOK
  <2>3. Added(s, t) BY <2>1 DEF Added, Grown, StartKept
  <2> QED BY <2>1, <2>2, <2>3 DEF Sound, t
<1>3. CASE c \notin s.certs /\ WellFormed(s.bs, c) /\ SignedBy[c] \in s.certs /\ t # s
  <2>0. Valid(c) /\ c \notin Schema BY <1>3 DEF WellFormed
  <2>1. /\ u \in State /\ u.life = s.life /\ u.bs = s.bs /\ u.certs = s.certs \cup {c}
        /\ u.keys = s.keys /\ u.chains = s.chains /\ u.pending = s.pending /\ u.pv = s.pv
        /\ u.coll = s.coll \cup {c} /\ StartOK(u) /\ StartKept(s, u)
    BY <1>0, <1>3, <2>0, AddEffect
  <2>2. c \notin s.keys \cup Bootstrap[n] BY <1>3, <2>0, TrustAssumption DEF Sound, Base
  <2>3. CASE c \notin IsSigningCert[s.bs]
    <3>1. t = CheckPendingCerts(u, c) BY <1>3, <2>3 DEF AddCert
    <3> HIDE DEF t, u
    <3>2. Base(n, u) /\ CollOK(u) /\ Added(s, u)
      BY <2>0, <2>1 DEF Sound, Base, CollOK, Valid, Added, Grown, StartKept
    <3>3. \A p \in s.pv : ValidateChain(SchemaOf[n], u.certs, p)
      BY <2>1 DEF Sound, PvOK, ValidateChain
    <3>4. PvOK(n, u) BY <2>1, <2>3, <3>3 DEF Sound, Base, PvOK
    <3>5. t \in State /\ Sound(n, t) /\ Added(u, t)
      BY <2>1, <3>1, <3>2, <3>4, CheckPendingSound DEF Sound
    <3>6. Added(s, t) BY <3>2, <3>5 DEF Added, Grown
    <3> QED BY <3>5, <3>6 DEF t
  <2>4. CASE c \in IsSigningCert[s.bs]
    <3>1. t = [u EXCEPT !.pv = @ \cup {c}] /\ ValidateChain(s.bs, s.certs, c)
      BY <1>3, <2>4 DEF AddCert
    <3> HIDE DEF t, u
    <3>2. /\ t \in State /\ t.life = s.life /\ t.bs = s.bs /\ t.certs = s.certs \cup {c}
          /\ t.keys = s.keys /\ t.chains = s.chains /\ t.pv = s.pv \cup {c}
          /\ t.coll = s.coll \cup {c} /\ StartOK(t) /\ StartKept(s, t)
      BY <2>1, <3>1 DEF State, StartOK, StartKept
    <3>3. Base(n, t) /\ CollOK(t) /\ Added(s, t)
      BY <2>0, <3>2 DEF Sound, Base, CollOK, Valid, Added, Grown, StartKept
    <3>4. t.pv = {p \in t.certs \ (t.keys \cup Bootstrap[n]) : p \in IsSigningCert[SchemaOf[n]]}
      BY <2>2, <2>4, <3>2 DEF Sound, Base, PvOK
    <3>5. ValidateChain(SchemaOf[n], t.certs, c) BY <3>1, <3>2 DEF Sound, Base, ValidateChain
    <3>6. \A p \in s.pv : ValidateChain(SchemaOf[n], t.certs, p)
      BY <3>2 DEF Sound, PvOK, ValidateChain
    <3>7. PvOK(n, t) BY <3>2, <3>4, <3>5, <3>6 DEF PvOK
    <3> QED BY <3>2, <3>3, <3>7 DEF Sound, t
  <2> QED BY <2>3, <2>4
<1> QED BY <1>1, <1>2, <1>3 DEF AddCert

\* A running DeftT is sound.
LEMMA GoodSound ==
    ASSUME NEW n, NEW s, NEW G, NEW X, Good(n, s, G, X), s.life = "up"
    PROVE  Sound(n, s)
BY DEF Good, Sound, Base, StoreOK

\* checkPendingCerts, once c is in the store, leaves everything in order.
LEMMA CheckPendingGood ==
    ASSUME NEW n \in Deft, NEW s \in State, NEW c \in s.certs, s.life = "up", now \in 0..MaxTime,
           StoreOK(n, s), PvOK(n, s), CollOK(s), StartOK(s),
           NEW G \in SUBSET Cert, \A d \in G : From[d] <= now,
           \A p \in (s.coll \cup G) \ s.certs : Expected(n, p) =>
               p \in s.pending /\ (SignedBy[p] \notin s.certs \/ SignedBy[p] = c)
    PROVE  CheckPendingCerts(s, c) \in State /\ Good(n, CheckPendingCerts(s, c), G, {})
<1> DEFINE t == CheckPendingCerts(s, c)
           K == Taken(s, c)
           R == Reached(s, c)
<1>0. c \in Cert /\ s.certs \in SUBSET Cert /\ s.coll \in SUBSET Cert /\ s.pending \in SUBSET Cert BY DEF State
<1>1. /\ t \in State /\ t.life = s.life /\ t.bs = s.bs
      /\ t.certs = s.certs \cup K /\ t.coll = s.coll \cup K
      /\ t.keys = s.keys /\ t.chains = s.chains
      /\ t.pending = s.pending \ R
      /\ t.pv = s.pv \cup (K \cap IsSigningCert[s.bs])
      /\ StartOK(t)
  BY <1>0, CheckPendingEffect
<1>2. /\ s.bs = SchemaOf[n] /\ s.chains # <<>> /\ s.keys \subseteq s.certs
      /\ Bootstrap[n] \ {SchemaOf[n]} \subseteq s.certs
      /\ \A d \in s.certs : SignedBy[d] \in s.certs
  BY DEF StoreOK
<1>3. ASSUME NEW p \in R
      PROVE  /\ p \in Cert /\ c \in Signers[p] /\ Signers[p] \subseteq s.certs \cup K
             /\ \A q \in Signers[p] : c \in Signers[q] => q \in K
  BY <1>2, ReachedChain
<1>4. ASSUME NEW p \in K
      PROVE  /\ p \in R \ s.certs /\ WellFormed(s.bs, p)
             /\ p \in IsSigningCert[s.bs] => ValidateChain(s.bs, s.certs \cup R, p)
  BY DEF Taken
<1> HIDE DEF t, K
<1>5. StoreOK(n, t)
  <2>1. ASSUME NEW p \in K
        PROVE  ~SelfSigned(p) /\ SignedBy[p] \in s.certs \cup K /\ p \in MatchesAny[SchemaOf[n]]
    <3>1. ~SelfSigned(p) /\ p \in MatchesAny[SchemaOf[n]] BY <1>2, <1>4 DEF WellFormed
    <3>2. SignedBy[p] \in Signers[p] BY SMT, <1>3, <1>4, <3>1, SignersStep
    <3> QED BY <1>3, <1>4, <3>1, <3>2
  <2> QED BY <1>1, <1>2, <2>1 DEF StoreOK
<1>6. PvOK(n, t) /\ CollOK(t)
  <2>1. Sound(n, s) BY <1>2 DEF Sound, Base
  <2> QED BY <1>0, <2>1, CheckPendingSound DEF Sound, t
<1>8. PendOK(n, t, G, {})
  <2> SUFFICES ASSUME NEW p \in (t.coll \cup G) \ t.certs, Expected(n, p)
               PROVE  p \in t.pending /\ SignedBy[p] \notin t.certs
    BY DEF PendOK
  <2>1. p \in (s.coll \cup G) \ s.certs /\ p \notin K /\ p \in Cert BY <1>0, <1>1
  <2>2. p \in s.pending /\ (SignedBy[p] \notin s.certs \/ SignedBy[p] = c) BY <2>1
  <2>3. WellFormed(s.bs, p) BY <1>2, <2>1, ExpectedValid DEF CollOK
  <2>4. p \notin R
    <3>1. ASSUME p \in R PROVE FALSE
      <4>1. K \subseteq R BY DEF K, Taken
      <4>2. p \in IsSigningCert[s.bs] => ValidateChain(s.bs, s.certs \cup R, p)
        BY <1>2, <1>3, <3>1, <4>1 DEF Expected, ValidateChain
      <4> QED BY <2>1, <2>3, <3>1, <4>2 DEF K, Taken
    <3> QED BY <3>1
  <2>5. ~SelfSigned(p) /\ SignedBy[p] \notin IsSigningCert[s.bs] BY <1>2 DEF Expected
  <2>6. SignedBy[p] # c /\ SignedBy[p] \notin K BY <1>0, <2>2, <2>4, <2>5, SignerReached DEF K
  <2> QED BY <1>1, <2>2, <2>4, <2>6
<1> QED BY <1>1, <1>5, <1>6, <1>8 DEF Good, t

\* addCert keeps everything in order, whichever way it ends.
LEMMA AddCertGood ==
    ASSUME NEW n \in Deft, NEW s \in State, s.life = "up", now \in 0..MaxTime,
           NEW G \in SUBSET Cert, \A d \in G : From[d] <= now, NEW c \in s.coll \cup G,
           Good(n, s, G, {c})
    PROVE  AddCert(s, c) \in State /\ Good(n, AddCert(s, c), G, {})
<1> DEFINE t == AddCert(s, c)
<1>0. c \in Cert /\ s.certs \in SUBSET Cert /\ s.coll \in SUBSET Cert /\ s.pending \in SUBSET Cert BY DEF State
<1>1. /\ s.bs = SchemaOf[n] /\ s.chains # <<>> /\ s.keys \subseteq s.certs
      /\ Bootstrap[n] \ {SchemaOf[n]} \subseteq s.certs
      /\ \A d \in s.certs : SignedBy[d] \in s.certs
      /\ SchemaOf[n] \in Schema
  BY TrustAssumption DEF Good, StoreOK
<1>2. \A p \in (s.coll \cup G) \ s.certs :
         p # c => (Expected(n, p) => p \in s.pending /\ SignedBy[p] \notin s.certs)
  BY DEF Good, PendOK
<1>3. From[c] <= now BY DEF Good, CollOK
<1>s. Sound(n, t) /\ t \in State
  BY <1>0, GoodSound, AddCertSound
<1>4. CASE c \in s.certs \/ ~WellFormed(s.bs, c)
  <2>1. t = s BY <1>4 DEF AddCert
  <2>2. c \in s.certs \/ ~Expected(n, c) BY <1>0, <1>1, <1>3, <1>4, ExpectedValid
  <2>3. PendOK(n, s, G, {}) BY <1>2, <2>2 DEF PendOK
  <2> QED BY <2>1, <2>3 DEF Good
<1>5. CASE c \notin s.certs /\ WellFormed(s.bs, c) /\ SignedBy[c] \notin s.certs
  <2>1. t = [s EXCEPT !.pending = @ \cup {c}] BY <1>5 DEF AddCert
  <2>2. /\ t.life = s.life /\ t.bs = s.bs /\ t.certs = s.certs
        /\ t.keys = s.keys /\ t.chains = s.chains /\ t.pending = s.pending \cup {c} /\ t.coll = s.coll
    <3> HIDE DEF t
    <3> QED BY <2>1 DEF State
  <2> HIDE DEF t
  <2>3. PendOK(n, t, G, {}) BY <1>2, <1>5, <2>2 DEF PendOK
  <2>4. StoreOK(n, t) BY <2>2 DEF Good, StoreOK
  <2> QED BY <1>s, <2>3, <2>4 DEF Good, Sound, t
<1>6. CASE c \notin s.certs /\ WellFormed(s.bs, c) /\ SignedBy[c] \in s.certs
  <2> DEFINE u == Add(s, c)
  <2>0. Valid(c) /\ ~SelfSigned(c) /\ c \in MatchesAny[s.bs] /\ c \notin Schema BY <1>6 DEF WellFormed
  <2>1. /\ u \in State /\ u.life = s.life /\ u.bs = s.bs /\ u.certs = s.certs \cup {c}
        /\ u.keys = s.keys /\ u.chains = s.chains /\ u.pending = s.pending /\ u.pv = s.pv
        /\ u.coll = s.coll \cup {c} /\ StartOK(u)
    BY <1>0, <1>6, <2>0, AddEffect DEF Good
  <2> HIDE DEF u
  <2>2. StoreOK(n, u) BY <1>1, <1>6, <2>0, <2>1 DEF Good, StoreOK
  <2>3. CollOK(u) BY <2>1 DEF Good, CollOK
  <2>4. c \notin s.keys \cup Bootstrap[n] BY <1>1, <1>6, <2>0
  <2>5. \A p \in s.pv : ValidateChain(SchemaOf[n], u.certs, p)
    BY <2>1 DEF Good, PvOK, ValidateChain
  <2>6. Signers[c] \subseteq s.certs
    <3>1. Signers[c] = {SignedBy[c]} \cup Signers[SignedBy[c]] BY <1>0, <2>0, SignersStep
    <3>2. Signers[SignedBy[c]] \subseteq s.certs BY SMT, <1>0, <1>1, <1>6, SignersClosed
    <3> QED BY <1>6, <3>1, <3>2
  <2>7. CASE c \notin IsSigningCert[s.bs]
    <3>1. t = CheckPendingCerts(u, c) BY <1>6, <2>7 DEF AddCert, u
    <3>2. PvOK(n, u) BY <1>1, <2>1, <2>5, <2>7 DEF Good, PvOK
    <3>3. \A p \in (u.coll \cup G) \ u.certs : Expected(n, p) =>
             p \in u.pending /\ (SignedBy[p] \notin u.certs \/ SignedBy[p] = c)
      BY <1>2, <2>1
    <3> HIDE DEF t
    <3> QED BY SMT, <2>1, <2>2, <2>3, <3>1, <3>2, <3>3, CheckPendingGood DEF t
  <2>8. CASE c \in IsSigningCert[s.bs] /\ ValidateChain(s.bs, s.certs, c)
    <3>1. t = [u EXCEPT !.pv = @ \cup {c}] BY <1>6, <2>8 DEF AddCert, u
    <3> HIDE DEF t
    <3>2. /\ t.life = u.life /\ t.bs = u.bs /\ t.certs = u.certs /\ t.keys = u.keys
          /\ t.chains = u.chains /\ t.pending = u.pending /\ t.coll = u.coll
      BY <2>1, <3>1 DEF State
    <3>3. StoreOK(n, t) BY <2>2, <3>2 DEF StoreOK
    <3>7. PendOK(n, t, G, {})
      BY SMT, <1>1, <1>2, <2>1, <2>8, <3>2 DEF PendOK, Expected
    <3> QED BY <1>s, <3>3, <3>7 DEF Good, Sound, t
  <2>9. CASE c \in IsSigningCert[s.bs] /\ ~ValidateChain(s.bs, s.certs, c)
    <3>1. t = s BY <1>6, <2>9 DEF AddCert
    <3>2. ~Expected(n, c) BY <1>1, <2>6, <2>9 DEF Expected, ValidateChain
    <3>3. PendOK(n, s, G, {}) BY <1>2, <3>2 DEF PendOK
    <3> QED BY <3>1, <3>3 DEF Good
  <2> QED BY <2>7, <2>8, <2>9
<1> QED BY <1>4, <1>5, <1>6

\* When a whole chain of the schema has been looked at it is in the store. A first missing
\* cert of it, counted from the trust anchor, would be pending with its signer in the
\* store (addCert, checkPendingCerts).
LEMMA ChainAdmitted ==
    ASSUME NEW n \in Deft, NEW s \in State, s.life = "up", NEW G, NEW c \in Cert,
           StoreOK(n, s), PendOK(n, s, G, {}),
           Signers[c] \cup {c} \subseteq s.coll \cup G, Admissible(n, c)
    PROVE  c \in s.certs
<1> SUFFICES ASSUME c \notin s.certs PROVE FALSE
  OBVIOUS
<1> DEFINE S == (Signers[c] \cup {c}) \ s.certs
<1>1. S \subseteq Cert BY SignersStep
<1>2. PICK d \in S : SignedBy[d] \notin S \ {d} BY <1>1, FoundedAssumption
<1>3. d \in Cert /\ d \in (s.coll \cup G) \ s.certs /\ d \in Signers[c] \cup {c} BY <1>1, <1>2
<1>4. CASE SelfSigned(d)
  <2>1. d \in Bootstrap[n] BY <1>3, <1>4 DEF Admissible
  <2> QED BY <1>3, <1>4, <2>1 DEF StoreOK, SelfSigned
<1>5. CASE ~SelfSigned(d)
  <2>1. WellFormed(SchemaOf[n], d) BY <1>3, <1>5 DEF Admissible
  <2>2. SignedBy[d] \in Signers[c]
    <3>1. SignedBy[d] \in Signers[d] BY <1>3, <1>5, SignersStep
    <3> QED BY <1>3, <3>1, SignersTransitive
  <2>3. SignedBy[d] \in s.certs BY <1>2, <1>5, <2>2 DEF SelfSigned
  <2>4. d \in Lasting /\ SignedBy[d] \notin IsSigningCert[SchemaOf[n]]
        /\ (d \in IsSigningCert[SchemaOf[n]] => d \in ChainAllowed[SchemaOf[n]])
    BY <1>3, <2>2 DEF Admissible
  <2>5. Expected(n, d) BY <2>1, <2>4 DEF Expected, WellFormed
  <2> QED BY <1>3, <2>3, <2>5 DEF PendOK
<1> QED BY <1>4, <1>5

\* An event takes n from s to t, which is in order; C: a new pair, S: certs confirmed
Goes(n, s, t, C, S) ==
    /\ t \in State /\ t.life \in {"up", "dead"} /\ Grown(s, t)
    /\ t.keys \subseteq s.keys \cup C /\ t.initialPubs = s.initialPubs \ S
    /\ Good(n, t, {}, {}) /\ Sound(n, t)

\* addKP keeps everything in order, or ends the process.
LEMMA AddKPGood ==
    ASSUME NEW n \in Deft, NEW s \in State, NEW c \in Cert, s.life = "up", now \in 0..MaxTime,
           Good(n, s, {}, {})
    PROVE  Goes(n, s, AddKP(s, c), {c}, {})
<1> DEFINE u == AddPair(s, c)
           t == AddKP(s, c)
<1>0. s.certs \in SUBSET Cert /\ s.coll \in SUBSET Cert /\ SchemaOf[n] \in Schema
      /\ s.bs = SchemaOf[n] /\ s.keys \subseteq s.certs /\ s.chains # <<>>
  BY TrustAssumption DEF State, Good, StoreOK
<1>s. Sound(n, s) BY GoodSound
<1>1. /\ u \in State /\ u.life = s.life /\ u.bs = s.bs /\ u.chains = s.chains
      /\ StartOK(u) /\ CollOK(u) /\ PvOK(n, u) /\ Base(n, u) /\ Grown(s, u)
      /\ u.keys \subseteq s.keys \cup {c} /\ u.initialPubs = s.initialPubs
      /\ ValidateChain(u.bs, u.certs, c) => StoreOK(n, u) /\ PendOK(n, u, {}, {})
  <2>1. CASE ~Valid(c) \/ c \in s.certs
    <3>1. u = s BY <2>1 DEF AddPair
    <3> QED BY <1>0, <1>s, <3>1 DEF Good, Sound, Grown
  <2>2. CASE Valid(c) /\ c \notin s.certs
    <3>1. /\ u \in State /\ u.life = s.life /\ u.bs = s.bs /\ u.certs = s.certs \cup {c}
          /\ u.keys = s.keys \cup {c} /\ u.chains = s.chains /\ u.pending = s.pending
          /\ u.pv = s.pv /\ u.coll = s.coll \cup {c} /\ StartOK(u)
          /\ StartKept(s, u)
      BY <2>2, AddPairEffect DEF Good
    <3> HIDE DEF u
    <3>2. CollOK(u) BY <2>2, <3>1 DEF Good, CollOK, Valid
    <3>3. \A p \in s.pv : ValidateChain(SchemaOf[n], u.certs, p)
      BY <3>1 DEF Good, PvOK, ValidateChain
    <3>4. PvOK(n, u) BY <1>0, <2>2, <3>1, <3>3 DEF Good, PvOK
    <3>5. ASSUME ValidateChain(u.bs, u.certs, c) PROVE StoreOK(n, u) /\ PendOK(n, u, {}, {})
      <4>1. c \in ChainAllowed[SchemaOf[n]] /\ Signers[c] \subseteq u.certs
        BY <1>0, <3>1, <3>5 DEF ValidateChain
      <4>2. c \in IsSigningCert[SchemaOf[n]] /\ (SelfSigned(c) \/ c \in MatchesAny[SchemaOf[n]])
        BY <1>0, <4>1, AllowedSigns
      <4>3. SignedBy[c] \in u.certs
        <5>1. CASE SelfSigned(c) BY <3>1, <5>1 DEF SelfSigned
        <5>2. CASE ~SelfSigned(c) BY <4>1, <5>2, SignersStep
        <5> QED BY <5>1, <5>2
      <4>4. StoreOK(n, u) BY <3>1, <4>2, <4>3 DEF Good, StoreOK
      <4>5. PendOK(n, u, {}, {}) BY <3>1, <4>2 DEF Good, PendOK, Expected
      <4> QED BY <4>4, <4>5
    <3>6. Base(n, u) /\ Grown(s, u) /\ u.initialPubs = s.initialPubs
      BY <1>s, <3>1 DEF Sound, Base, Grown, StartKept
    <3> QED BY <1>0, <3>1, <3>2, <3>4, <3>5, <3>6
  <2> QED BY <2>1, <2>2
<1> HIDE DEF u
<1>2. CASE ValidateChain(u.bs, u.certs, c)
  <2>1. t = [InsertChain(u, c) EXCEPT !.signer = c] BY <1>2 DEF AddKP, u
  <2>2. /\ t \in State /\ t.life = u.life /\ t.bs = u.bs /\ t.certs = u.certs
        /\ t.keys = u.keys /\ t.chains # <<>> /\ t.pending = u.pending
        /\ t.pv = u.pv /\ t.coll = u.coll /\ StartOK(t) /\ StartKept(u, t)
    BY SMT, <1>0, <1>1, <2>1, InsertChainEffect
  <2> HIDE DEF t
  <2>3. StoreOK(n, t) /\ PvOK(n, t) /\ CollOK(t) /\ PendOK(n, t, {}, {})
    BY <1>1, <1>2, <2>2 DEF StoreOK, PvOK, CollOK, PendOK
  <2>4. /\ Base(n, t) /\ Grown(s, t) /\ t.keys \subseteq s.keys \cup {c}
        /\ t.initialPubs = s.initialPubs \ {}
    BY <1>1, <2>2 DEF Base, Grown, StartKept
  <2> QED BY <1>1, <2>2, <2>3, <2>4 DEF Goes, Good, Sound, t
<1>3. CASE ~ValidateChain(u.bs, u.certs, c)
  <2>1. t = [u EXCEPT !.life = "dead"] BY <1>3 DEF AddKP, u
  <2>2. /\ t \in State /\ t.life = "dead" /\ t.bs = u.bs /\ t.certs = u.certs
        /\ t.keys = u.keys /\ t.pv = u.pv /\ t.coll = u.coll /\ StartOK(t) /\ StartKept(u, t)
    <3>1. u \in State /\ StartOK(u) BY <1>1
    <3> HIDE DEF t
    <3> QED BY <2>1, <3>1 DEF State, StartOK, StartKept
  <2> HIDE DEF t
  <2>3. StoreOK(n, t) /\ PvOK(n, t) /\ CollOK(t) /\ PendOK(n, t, {}, {})
    BY <1>1, <2>2 DEF StoreOK, PvOK, CollOK, PendOK
  <2>4. /\ Base(n, t) /\ Grown(s, t) /\ t.keys \subseteq s.keys \cup {c}
        /\ t.initialPubs = s.initialPubs \ {}
    BY <1>1, <2>2 DEF Base, Grown, StartKept
  <2> QED BY <1>1, <2>2, <2>3, <2>4 DEF Goes, Good, Sound, t
<1> QED BY <1>2, <1>3

\* The constructor leaves everything in order, or ends the process.
LEMMA BootedGood ==
    ASSUME NEW n \in Deft, now \in 0..MaxTime
    PROVE  Booted(n) \in State /\ Good(n, Booted(n), {}, {})
<1> DEFINE c == FirstPair[n]
           b == BootStore(n)
           t == Booted(n)
<1>0. /\ SchemaOf[n] \in Schema /\ Schema \subseteq Cert /\ c \in Cert \ Bootstrap[n]
      /\ b \in SUBSET Cert /\ b \subseteq Bootstrap[n] \cup {c} /\ \A d \in b : From[d] <= now
  BY SignedByAssumption, TrustAssumption DEF BootStore, Valid
<1>1. CASE ValidateBootstrap(n)
  <2>1. t = [life |-> "up", bs |-> SchemaOf[n], certs |-> b, keys |-> {c}, chains |-> <<c>>,
             pending |-> {}, pv |-> {}, initialPubs |-> b, havePeer |-> FALSE, initDone |-> FALSE,
             coll |-> b, signer |-> c, rekeyAt |-> Until[c] - 1, next |-> NoCert, used |-> {},
             waiting |-> KeyDists[n], starts |-> 0]
    BY <1>1 DEF Booted, Off
  <2>2. Until[c] - 1 \in Int /\ KeyDists[n] \in Nat /\ <<c>> \in Seq(Cert) /\ <<c>> # <<>>
    BY SMT, <1>0, TimeAssumption
  <2> HIDE DEF b, t
  <2>3. t \in State BY <1>0, <2>1, <2>2 DEF State
  <2>4. StartOK(t) /\ CollOK(t) /\ PendOK(n, t, {}, {}) BY SMT, <1>0, <2>1 DEF StartOK, CollOK, PendOK
  <2>5. PvOK(n, t) BY <1>0, <2>1 DEF PvOK
  <2>6. /\ Bootstrap[n] = Signers[c] \cup {SchemaOf[n]} /\ Signers[c] \cup {c} \subseteq b
        /\ SignedBy[SchemaOf[n]] \in Signers[c]
        /\ \A d \in Bootstrap[n] \cup {c} :
              SelfSigned(d) \/ d = SchemaOf[n] \/ d \in MatchesAny[SchemaOf[n]]
    BY <1>1 DEF ValidateBootstrap, b
  <2>7. ASSUME NEW d \in b PROVE SignedBy[d] \in b
    <3>1. CASE SelfSigned(d) BY <3>1 DEF SelfSigned
    <3>2. CASE ~SelfSigned(d) /\ d \in Signers[c] \cup {c}
      <4>1. SignedBy[d] \in Signers[d] BY SMT, <1>0, <3>2, SignersStep
      <4>2. Signers[d] \subseteq Signers[c] BY <1>0, <3>2, SignersTransitive
      <4> QED BY <2>6, <4>1, <4>2
    <3>3. CASE d = SchemaOf[n] BY <2>6, <3>3
    <3> QED BY <1>0, <2>6, <3>1, <3>2, <3>3
  <2>8. StoreOK(n, t) BY <1>0, <2>1, <2>2, <2>6, <2>7 DEF StoreOK
  <2> QED BY <2>3, <2>4, <2>5, <2>8 DEF Good, t
<1>2. CASE ~ValidateBootstrap(n)
  <2>1. t = [Off EXCEPT !.life = "dead"] BY <1>2 DEF Booted
  <2> HIDE DEF t
  <2>2. t \in State
    <3>1. Off \in State BY SMT DEF Off, State
    <3> QED BY <2>1, <3>1 DEF State
  <2>3. t.life = "dead" /\ t.certs = {} /\ t.pv = {} /\ t.coll = {} /\ StartOK(t)
    BY SMT, <2>1 DEF Off, StartOK
  <2> QED BY <2>2, <2>3 DEF Good, StoreOK, PvOK, CollOK, PendOK, t
<1> QED BY <1>1, <1>2
-------------------------------------------------------------------------------
\* The inductive invariant
IInv == /\ now \in 0..MaxTime
        /\ deft \in [Deft -> State]
        /\ \A n \in Deft : Good(n, deft[n], {}, {})

\* What a DeftT is like before it is constructed (DCTmodel).
LEMMA OffState ==
    /\ Off \in State /\ Off.life = "off" /\ Off.certs = {} /\ Off.pv = {} /\ Off.coll = {}
    /\ StartOK(Off)
<1>1. Off \in State BY SMT DEF Off, State
<1>2. Off.life = "off" /\ Off.certs = {} /\ Off.pv = {} /\ Off.coll = {} BY DEF Off
<1>3. StartOK(Off) BY SMT DEF Off, StartOK
<1> QED BY <1>1, <1>2, <1>3

\* An event, in which no time passes, keeps the invariant when it leaves all DeftTs good
\* (the event loop runs one handler at a time).
LEMMA StepIInv ==
    ASSUME now \in 0..MaxTime, now' = now, deft' \in [Deft -> State],
           \A n \in Deft : Good(n, deft'[n], {}, {})
    PROVE  IInv'
<1>1. \A n \in Deft : Good(n, deft[n], {}, {})'
  BY DEF Good, StoreOK, PvOK, CollOK, PendOK, StartOK, Expected, Lasting, ValidateChain
<1> QED BY <1>1 DEF IInv

\* What happens elsewhere than in the DeftTs keeps the invariant (publish of an application).
LEMMA SameIInv ==
    ASSUME IInv, now' = now, deft' = deft
    PROVE  IInv'
<1>1. /\ now \in 0..MaxTime /\ deft' \in [Deft -> State]
      /\ \A n \in Deft : Good(n, deft'[n], {}, {})
  BY DEF IInv
<1> QED BY <1>1, StepIInv

\* Before any DeftT is constructed the invariant holds.
LEMMA InitIInv == Init => IInv
<1> SUFFICES ASSUME Init PROVE IInv
  OBVIOUS
<1>1. Off \in State /\ Off.life = "off" /\ Off.certs = {} /\ Off.pv = {} /\ Off.coll = {} /\ StartOK(Off)
  BY OffState
<1>2. ASSUME NEW n \in Deft PROVE Good(n, Off, {}, {})
  BY <1>1 DEF Good, StoreOK, PvOK, CollOK, PendOK
<1> QED BY SMT, <1>1, <1>2, TimeAssumption DEF Init, IInv

\* A state of n that differs in nothing that Good speaks of
LEMMA SameGood ==
    ASSUME NEW n \in Deft, NEW s \in State, NEW t \in State, SameStore(s, t), t.coll = s.coll,
           StartOK(t), Good(n, s, {}, {})
    PROVE  Good(n, t, {}, {})
BY DEF SameStore, Good, StoreOK, PvOK, CollOK, PendOK

\* A phase of start, or a confirmation, leaves everything in order.
LEMMA SameGoes ==
    ASSUME NEW n \in Deft, NEW s \in State, NEW t \in State, SameStore(s, t), t.coll = s.coll,
           StartOK(t), Good(n, s, {}, {}), s.life = "up", s.initDone => t.initDone,
           NEW S, t.initialPubs = s.initialPubs \ S
    PROVE  Goes(n, s, t, {}, S)
<1>1. Good(n, t, {}, {}) BY SameGood
<1>2. t.life = "up" /\ Grown(s, t) /\ t.keys \subseteq s.keys \cup {} BY DEF SameStore, Grown
<1> QED BY <1>1, <1>2, GoodSound DEF Goes

\* A group key distributor's start leaves everything in order (start).
LEMMA KeyDistGoes ==
    ASSUME NEW n \in Deft, deft[n] \in State, Good(n, deft[n], {}, {}), KeyDistStarted(n)
    PROVE  Goes(n, deft[n], StartNext(deft[n]), {}, {})
<1> DEFINE s == deft[n]
           t == StartNext(s)
<1>1. s \in State /\ s.initDone /\ s.starts = 0 /\ s.life = "up" /\ Good(n, s, {}, {})
  BY DEF KeyDistStarted, Up
<1>2. /\ t \in State /\ SameStore(s, t) /\ t.coll = s.coll
      /\ t.initialPubs = s.initialPubs /\ t.havePeer = s.havePeer
      /\ t.initDone = s.initDone /\ t.starts <= 0 + 1
  BY <1>1, StartNextEffect
<1>3. StartOK(s) BY <1>1 DEF Good
<1> HIDE DEF s, t
<1>4. StartOK(t) BY SMT, <1>1, <1>2, <1>3 DEF StartOK
<1>5. t.initialPubs = s.initialPubs \ {} BY <1>2
<1> QED BY <1>1, <1>2, <1>4, <1>5, SameGoes DEF s, t

\* Confirmations leave everything in order (initialPub).
LEMMA ConfirmGoes ==
    ASSUME NEW n \in Deft, deft[n] \in State, Good(n, deft[n], {}, {}), Up(n),
           NEW m, Arrived(n, m) # {}
    PROVE  Goes(n, deft[n], InitialConfirmed(deft[n], Arrived(n, m)), {}, Arrived(n, m))
<1> DEFINE s == deft[n]
           S == Arrived(n, m)
           t == InitialConfirmed(s, S)
<1>1. s \in State /\ s.life = "up" /\ Good(n, s, {}, {}) /\ S \in SUBSET s.initialPubs /\ S # {}
  BY DEF Arrived, Up
<1>2. StartOK(s) BY <1>1 DEF Good
<1> HIDE DEF s, S
<1>3. /\ t \in State /\ SameStore(s, t) /\ t.coll = s.coll /\ StartOK(t)
      /\ t.initialPubs = s.initialPubs \ S /\ (s.initDone => t.initDone)
  BY <1>1, <1>2, InitialConfirmedEffect
<1> HIDE DEF t
<1> QED BY <1>1, <1>3, SameGoes DEF s, t, S

\* A cert's arrival leaves everything in order (addCert).
LEMMA ReceivedGoes ==
    ASSUME NEW n \in Deft, deft[n] \in State, Good(n, deft[n], {}, {}), Up(n), now \in 0..MaxTime,
           NEW c \in Cert, From[c] <= now
    PROVE  Goes(n, deft[n], Received(n, c), {}, {})
<1> DEFINE s == deft[n]
           u == [s EXCEPT !.coll = @ \cup {c}]
           t == AddCert(u, c)
<1>1. s \in State /\ Good(n, s, {}, {}) /\ s.life = "up" BY DEF Up
<1>2. Received(n, c) = t BY DEF Received
<1> HIDE DEF s
<1>3. StoreOK(n, s) /\ PvOK(n, s) /\ CollOK(s) /\ PendOK(n, s, {}, {}) /\ StartOK(s) BY <1>1 DEF Good
<1>4. u \in State /\ SameStore(s, u) /\ u.coll = s.coll \cup {c} /\ StartOK(u) /\ StartKept(s, u)
  BY <1>1, <1>3 DEF State, SameStore, StartOK, StartKept
<1> HIDE DEF u
<1>5. Good(n, u, {}, {c})
  BY <1>1, <1>3, <1>4 DEF SameStore, Good, StoreOK, PvOK, CollOK, PendOK
<1>6. u.life = "up" /\ c \in u.coll BY <1>1, <1>4 DEF SameStore
<1>7. t \in State /\ Good(n, t, {}, {}) BY <1>4, <1>5, <1>6, AddCertGood
<1>8. Sound(n, t) /\ Added(u, t) BY <1>4, <1>5, <1>6, GoodSound, AddCertSound
<1>9. /\ t.life = "up" /\ Grown(s, t) /\ t.keys \subseteq s.keys \cup {}
      /\ t.initialPubs = s.initialPubs \ {}
  BY <1>4, <1>6, <1>8 DEF Added, Grown, SameStore, StartKept
<1> QED BY <1>2, <1>7, <1>8, <1>9 DEF Goes, s

\* A new pair leaves everything in order, or ends the process (getNewSP).
LEMMA NewSPGoes ==
    ASSUME NEW n \in Deft, deft[n] \in State, Good(n, deft[n], {}, {}), Up(n), now \in 0..MaxTime,
           NEW c \in Cert
    PROVE  Goes(n, deft[n], NewSP(n, c), {c}, {})
<1> DEFINE s == deft[n]
           u == [s EXCEPT !.rekeyAt = Until[c] - 1, !.used = @ \cup {c}]
           t == NewSP(n, c)
<1>1. s \in State /\ Good(n, s, {}, {}) /\ s.life = "up" BY DEF Up
<1>2. Until[c] - 1 \in Int BY SMT, TimeAssumption
<1>3. StartOK(s) BY <1>1 DEF Good
<1>4. t = IF From[c] > now THEN [u EXCEPT !.next = c] ELSE AddKP(u, c) BY DEF NewSP
<1> HIDE DEF s, t
<1>5. u \in State /\ SameStore(s, u) /\ u.coll = s.coll /\ StartOK(u) /\ StartKept(s, u)
  BY <1>1, <1>2, <1>3 DEF State, SameStore, StartOK, StartKept
<1> HIDE DEF u
<1>6. Good(n, u, {}, {}) /\ u.life = "up" BY <1>1, <1>5, SameGood DEF SameStore
<1>7. CASE From[c] > now
  <2>1. t = [u EXCEPT !.next = c] BY <1>4, <1>7
  <2>2. t \in State /\ t.coll = u.coll /\ StartOK(t) /\ t.life = u.life /\ t.bs = u.bs
        /\ t.certs = u.certs /\ t.keys = u.keys /\ t.chains = u.chains /\ t.pending = u.pending
        /\ t.pv = u.pv /\ StartKept(u, t)
    BY <1>5, <2>1 DEF State, StartOK, StartKept
  <2>3. Good(n, t, {}, {}) BY <1>6, <2>2 DEF Good, StoreOK, PvOK, CollOK, PendOK
  <2>4. /\ t.life = "up" /\ Grown(s, t) /\ t.keys \subseteq s.keys \cup {c}
        /\ t.initialPubs = s.initialPubs \ {}
    BY <1>5, <1>6, <2>2 DEF Grown, SameStore, StartKept
  <2> QED BY <2>2, <2>3, <2>4, GoodSound DEF Goes, s, t
<1>8. CASE ~(From[c] > now)
  <2>1. t = AddKP(u, c) BY <1>4, <1>8
  <2>2. Goes(n, u, t, {c}, {}) BY <1>5, <1>6, <2>1, AddKPGood
  <2>3. Grown(s, t) /\ t.keys \subseteq s.keys \cup {c} /\ t.initialPubs = s.initialPubs \ {}
    BY <1>5, <2>2 DEF Goes, Grown, SameStore, StartKept
  <2> QED BY <2>2, <2>3 DEF Goes, s, t
<1> QED BY <1>7, <1>8

\* Every event of a DeftT, and the clock, keep the invariant.
LEMMA NextIInv == IInv /\ [Next]_dctVars => IInv'
<1> SUFFICES ASSUME IInv, [Next]_dctVars PROVE IInv'
  OBVIOUS
<1>1. ASSUME NEW n \in Deft, NEW t \in State, Good(n, t, {}, {}), Become(n, t) PROVE IInv'
  <2>1. now' = now /\ deft' = [deft EXCEPT ![n] = t] BY <1>1 DEF Become
  <2>2. deft' \in [Deft -> State] BY <1>1, <2>1 DEF IInv
  <2>3. \A m \in Deft : Good(m, deft'[m], {}, {}) BY <1>1, <2>1 DEF IInv
  <2>4. now \in 0..MaxTime BY DEF IInv
  <2> QED BY <2>1, <2>2, <2>3, <2>4, StepIInv
<1>2. ASSUME NEW n \in Deft PROVE deft[n] \in State /\ Good(n, deft[n], {}, {})
  BY DEF IInv
<1>3. now \in 0..MaxTime BY DEF IInv
<1>4. CASE Tick
  <2>1. deft' = deft /\ now' = now + 1 /\ now' \in 0..MaxTime BY SMT, <1>3, <1>4, TimeAssumption DEF Tick
  <2>2. ASSUME NEW n \in Deft PROVE CollOK(deft[n])'
    <3>1. /\ deft[n].certs \subseteq deft[n].coll
          /\ \A c \in deft[n].coll : c \in Cert /\ From[c] <= now
      BY <1>2 DEF Good, CollOK, State
    <3>2. \A c \in Cert : From[c] \in Nat BY SMT, TimeAssumption
    <3> QED BY SMT, <1>3, <2>1, <3>1, <3>2 DEF CollOK
  <2>3. \A n \in Deft : Good(n, deft[n], {}, {})'
    BY <1>2, <2>1, <2>2 DEF Good, StoreOK, PvOK, PendOK, StartOK, Expected, Lasting, ValidateChain
  <2> QED BY <2>1, <2>3 DEF IInv
<1>5. ASSUME NEW n \in Deft, Boot(n) PROVE IInv'
  BY <1>1, <1>3, <1>5, BootedGood DEF Boot
<1>6. ASSUME NEW n \in Deft, KeyDistDone(n) PROVE IInv'
  BY <1>1, <1>2, <1>6, KeyDistGoes DEF KeyDistDone, Goes
<1>7. ASSUME NEW n \in Deft, NEW m \in Peers(n), Confirm(n, m) PROVE IInv'
  BY <1>1, <1>2, <1>7, ConfirmGoes DEF Confirm, Goes
<1>8. ASSUME NEW n \in Deft, NEW m \in Peers(n), NEW c \in deft[m].coll, Deliver(n, m, c) PROVE IInv'
  <2>1. c \in Cert /\ From[c] <= now
    <3>1. m \in Deft BY DEF Peers
    <3> QED BY <1>2, <3>1 DEF Good, CollOK, State
  <2> QED BY <1>1, <1>2, <1>3, <1>8, <2>1, ReceivedGoes DEF Deliver, Arrives, Goes
<1>9. ASSUME NEW n \in Deft, NEW c \in NewPairs[n], GetNewSP(n, c) PROVE IInv'
  <2>1. c \in Cert BY TrustAssumption
  <2> QED BY <1>1, <1>2, <1>3, <1>9, <2>1, NewSPGoes DEF GetNewSP, Due, Goes
<1>10. ASSUME NEW n \in Deft, AddKPTimer(n) PROVE IInv'
  <2> DEFINE s == deft[n]
             c == s.next
             u == [s EXCEPT !.next = NoCert]
             t == AddKP(u, c)
  <2>1. s \in State /\ Good(n, s, {}, {}) /\ s.life = "up" /\ Become(n, t) /\ c # NoCert
    BY <1>2, <1>10 DEF AddKPTimer, AddKPDue, AddedKP, Up
  <2>2. c \in Cert /\ StartOK(s) BY <2>1 DEF State, Good
  <2> HIDE DEF s, c
  <2>3. u \in State /\ u.coll = s.coll /\ StartOK(u) /\ u.life = s.life /\ u.bs = s.bs
        /\ u.certs = s.certs /\ u.keys = s.keys /\ u.chains = s.chains /\ u.pending = s.pending
        /\ u.pv = s.pv
    BY SMT, <2>1, <2>2 DEF State, StartOK
  <2> HIDE DEF u
  <2>4. Good(n, u, {}, {}) BY <2>1, <2>3 DEF Good, StoreOK, PvOK, CollOK, PendOK
  <2>5. t \in State /\ Good(n, t, {}, {}) BY <1>3, <2>1, <2>2, <2>3, <2>4, AddKPGood DEF Goes
  <2> QED BY <1>1, <2>1, <2>5
<1>11. CASE UNCHANGED dctVars
  <2>1. deft' = deft /\ now' = now BY <1>11 DEF dctVars
  <2> QED BY <2>1, SameIInv
<1> QED BY <1>4, <1>5, <1>6, <1>7, <1>8, <1>9, <1>10, <1>11 DEF Next, DeftNext

\* The inductive invariant holds of every behaviour of the DeftTs (dct_model.hpp).
THEOREM Invariance == Spec => []IInv
BY InitIInv, NextIInv, PTL DEF Spec

\* The invariant gives what a DeftT promises. A first missing cert of a chain, counted
\* from the trust anchor, would be pending with its signer in the store (addCert).
LEMMA Promises == IInv => ConnectedOnce /\ ChainsComplete /\ ValidatorsExact /\ AllAdmitted
<1>1. IInv => ConnectedOnce BY DEF IInv, Good, StartOK, ConnectedOnce
<1>2. IInv => ChainsComplete BY DEF IInv, Good, StoreOK, ChainsComplete, Up
<1>3. IInv => ValidatorsExact BY DEF IInv, Good, PvOK, ValidatorsExact
<1>4. IInv => AllAdmitted
  <2> SUFFICES ASSUME IInv, NEW n \in Deft, Up(n), NEW c \in deft[n].coll,
                      Signers[c] \subseteq deft[n].coll, Admissible(n, c)
               PROVE  c \in deft[n].certs
    BY DEF AllAdmitted
  <2>1. deft[n] \in State /\ StoreOK(n, deft[n]) /\ PendOK(n, deft[n], {}, {}) BY DEF IInv, Good
  <2>2. c \in Cert BY <2>1 DEF State
  <2> QED BY <2>1, <2>2, ChainAdmitted DEF Up
<1> QED BY <1>1, <1>2, <1>3, <1>4

\* A DeftT's start up, in any order of certs and confirmations, connects it at most
\* once and only after its bootstrap certs have got through (publishCert, initialPub).
THEOREM StartsOnce == Spec => []ConnectedOnce
BY Invariance, Promises, PTL

\* In any order of arrivals and new pairs, certStore has whole chains of the schema's
\* certs only (addCert, checkPendingCerts, addKP).
THEOREM CompleteChains == Spec => []ChainsComplete
BY Invariance, Promises, PTL

\* A DeftT validates publications of exactly those peers whose signing cert it has
\* admitted, and the chains of those are ones the schema allows (setupPubValidator).
THEOREM ExactValidators == Spec => []ValidatorsExact
BY Invariance, Promises, PTL

\* Whatever the order in which certs arrive, none whose chain is complete is left out or
\* stays pending (addCert, checkPendingCerts).
THEOREM Admission == Spec => []AllAdmitted
BY Invariance, Promises, PTL
================================================================================
