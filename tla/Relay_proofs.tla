------------------------------ MODULE Relay_proofs ------------------------------
(***************************************************************************)
(* The invariants of Relay, for any number of processes, DeftTs, certs and *)
(* publications and any schemas.                                           *)
(*                                                                         *)
(* First, that adding a chain and calls of chainRecv keep the stores of a  *)
(* process in order, come to an end and leave the stores in step; then the *)
(* inductive invariant RInv. Last, what a relay passes on of a neighbour's *)
(* publications, with the inductive invariant HopInv.                      *)
(***************************************************************************)
EXTENDS Relay, DCTModel_proofs

\* Zenon proves the leaves that do not name another prover.
USE Zenon

\* Induction up to n, for the loops below.
LEMMA UpTo ==
    ASSUME NEW n \in Nat, NEW S, 0 \in S, \A c \in 0..n - 1 : c \in S => c + 1 \in S
    PROVE  0..n \subseteq S
<1> DEFINE T == 0..n \ S
           U == {0..c : c \in T}
<1> SUFFICES ASSUME T # {} PROVE FALSE
  OBVIOUS
<1>1. U \subseteq FiniteSubsetsOf(Nat) /\ U # {}
  <2>1. \A c \in T : 0 \in Int /\ c \in Int BY SMT
  <2>2. \A c \in T : IsFiniteSet(0..c) BY <2>1, FS_Interval
  <2>3. \A c \in T : 0..c \subseteq Nat BY SMT
  <2> QED BY <2>2, <2>3 DEF FiniteSubsetsOf
<1>2. PICK X \in U : \A Y \in U : ~(<<Y, X>> \in StrictSubsetOrdering(Nat))
  <2> HIDE DEF U
  <2> QED BY <1>1, FS_StrictSubsetOrderingWellFounded, WFMin
<1>3. PICK c \in T : X = 0..c
  OBVIOUS
<1>4. c # 0 /\ c - 1 \in 0..n - 1
  BY SMT
<1>5. ASSUME c - 1 \in T PROVE FALSE
  <2>1. 0..c - 1 \in U BY <1>5
  <2>2. 0..c - 1 \subseteq 0..c /\ 0..c - 1 # 0..c /\ 0..c \subseteq Nat BY SMT, <1>4
  <2> QED BY <1>2, <1>3, <2>1, <2>2 DEF StrictSubsetOrdering
<1> QED BY SMT, <1>4, <1>5

\* What the loop of addRelayedChain does with the i-th cert of c's chain
AddNext(u, c, cs, i) ==
    IF \A j \in 1..i : ChainOf[c][j] \in cs THEN AddCert(u, ChainOf[c][i]) ELSE u

\* The loop of addRelayedChain, as a function of the certs added.
LEMMA AddingDef ==
    ASSUME NEW s, NEW c \in Cert, NEW cs
    PROVE  AddingChain(s, c, cs) =
             [i \in 0..Len(ChainOf[c]) |->
                IF i = 0 THEN s ELSE AddNext(AddingChain(s, c, cs)[i - 1], c, cs, i)]
<1> DEFINE N == Len(ChainOf[c])
           Is(g, n) == g = [i \in 0..n |-> IF i = 0 THEN s ELSE AddNext(g[i - 1], c, cs, i)]
           S == {n \in 0..N : \E g : Is(g, n)}
<1>0. N \in Nat BY SMT, ChainType
<1> HIDE DEF N
<1>1. 0 \in S
  <2>1. Is([i \in 0..0 |-> s], 0) BY SMT
  <2> HIDE DEF Is
  <2> QED BY SMT, <1>0, <2>1
<1>2. ASSUME NEW n \in 0..N - 1, n \in S PROVE n + 1 \in S
  <2>1. PICK g : Is(g, n) BY <1>2
  <2> DEFINE h == [i \in 0..n + 1 |-> IF i = n + 1 THEN AddNext(g[n], c, cs, n + 1) ELSE g[i]]
  <2>2. \A i \in 0..n : h[i] = g[i] BY SMT, <1>0
  <2>3. h = [i \in 0..n + 1 |-> IF i = 0 THEN s ELSE AddNext(h[i - 1], c, cs, i)]
    <3>1. SUFFICES ASSUME NEW i \in 0..n + 1
                   PROVE h[i] = IF i = 0 THEN s ELSE AddNext(h[i - 1], c, cs, i)
      OBVIOUS
    <3>2. CASE i = n + 1
      <4>1. h[i] = AddNext(g[n], c, cs, n + 1) /\ i # 0 /\ i - 1 = n BY SMT, <3>2
      <4>2. g[n] = h[n] BY SMT, <2>2
      <4> QED BY <3>2, <4>1, <4>2
    <3>3. CASE i \in 0..n
      <4>1. h[i] = IF i = 0 THEN s ELSE AddNext(g[i - 1], c, cs, i) BY <2>1, <2>2, <3>3
      <4>2. i # 0 => h[i - 1] = g[i - 1] BY SMT, <2>2, <3>3
      <4> QED BY <4>1, <4>2
    <3> QED BY SMT, <3>2, <3>3
  <2>4. Is(h, n + 1) BY <2>3
  <2> HIDE DEF Is, h
  <2> QED BY SMT, <1>0, <2>4
<1>3. N \in S
  <2> HIDE DEF S
  <2>1. 0..N \subseteq S BY <1>0, <1>1, <1>2, UpTo
  <2>2. N \in 0..N BY SMT, <1>0
  <2> QED BY <2>1, <2>2
<1>4. PICK g : Is(g, N) BY <1>3
<1> QED BY <1>4 DEF AddingChain, AddNext, N

\* A relayed chain only adds to a store and keeps it sound (addRelayedChain).
LEMMA RelayedSound ==
    ASSUME NEW n \in Deft, NEW s \in State, Sound(n, s), NEW c \in Cert, NEW cs
    PROVE  /\ \A i \in 0..Len(ChainOf[c]) :
                 LET t == AddingChain(s, c, cs)[i] IN t \in State /\ Sound(n, t) /\ Added(s, t)
           /\ LET t == AddRelayedChain(s, c, cs) IN t \in State /\ Sound(n, t) /\ Added(s, t)
<1> DEFINE N == Len(ChainOf[c])
           f == AddingChain(s, c, cs)
           P(t) == t \in State /\ Sound(n, t) /\ Added(s, t)
           S == {i \in 0..N : P(f[i])}
<1>0. N \in Nat /\ \A i \in 1..N : ChainOf[c][i] \in Cert
  <2>1. ChainOf[c] \in Seq(Cert) BY ChainType
  <2> QED BY SMT, <2>1
<1>1. f = [i \in 0..N |-> IF i = 0 THEN s ELSE AddNext(f[i - 1], c, cs, i)] BY SMT, AddingDef
<1> HIDE DEF f, N
<1>2. P(s) BY DEF Added, Grown
<1>3. 0 \in S BY SMT, <1>0, <1>1, <1>2
<1>4. ASSUME NEW i \in 0..N - 1, i \in S PROVE i + 1 \in S
  <2>1. f[i + 1] = AddNext(f[i], c, cs, i + 1) /\ i + 1 \in 0..N /\ i + 1 \in 1..N BY SMT, <1>0, <1>1
  <2>2. P(f[i]) BY <1>4
  <2>3. P(AddNext(f[i], c, cs, i + 1))
    <3> DEFINE u == f[i]
               d == ChainOf[c][i + 1]
    <3>1. d \in Cert BY <1>0, <2>1
    <3> HIDE DEF u, d
    <3>2. P(u) BY <2>2 DEF u
    <3>3. P(AddCert(u, d))
      <4>1. AddCert(u, d) \in State /\ Sound(n, AddCert(u, d)) /\ Added(u, AddCert(u, d))
        BY <3>1, <3>2, AddCertSound
      <4>2. Added(s, AddCert(u, d)) BY <3>2, <4>1 DEF Added, Grown
      <4> QED BY <4>1, <4>2
    <3> HIDE DEF P
    <3> QED BY <3>2, <3>3 DEF AddNext, u, d
  <2> QED BY <2>1, <2>3
<1>5. 0..N \subseteq S
  <2> HIDE DEF S
  <2> QED BY <1>0, <1>3, <1>4, UpTo
<1>6. \A i \in 0..N : P(f[i]) BY <1>5
<1>7. P(AddRelayedChain(s, c, cs)) 
  <2>1. N \in 0..N BY SMT, <1>0
  <2>2. P(f[N]) BY <1>6, <2>1
  <2> HIDE DEF P
  <2> QED BY <1>2, <2>2 DEF AddRelayedChain, f, N
<1> QED BY <1>6, <1>7 DEF f, N

\* A relayed chain that the schema allows ends up in a running DeftT's store, whatever was
\* pending there (addRelayedChain).
LEMMA RelayedGood ==
    ASSUME NEW n \in Deft, NEW s \in State, Good(n, s, {}, {}), s.life = "up", now \in 0..MaxTime,
           NEW c \in Cert, NEW cs \in SUBSET Cert, \A d \in cs : From[d] <= now
    PROVE  LET t == AddRelayedChain(s, c, cs)
           IN  /\ Good(n, t, {}, {})
               /\ Signers[c] \cup {c} \subseteq cs /\ Admissible(n, c) => c \in t.certs
<1> DEFINE N == Len(ChainOf[c])
           f == AddingChain(s, c, cs)
           G(i) == {ChainOf[c][k] : k \in {j \in 1..i : \A l \in 1..j : ChainOf[c][l] \in cs}}
           S == {i \in 0..N : Good(n, f[i], G(i), {})}
<1>0. N \in Nat /\ \A i \in 1..N : ChainOf[c][i] \in Cert
  <2>1. ChainOf[c] \in Seq(Cert) BY ChainType
  <2> QED BY SMT, <2>1
<1>1. f = [i \in 0..N |-> IF i = 0 THEN s ELSE AddNext(f[i - 1], c, cs, i)] BY SMT, AddingDef
<1>2. \A i \in 0..N : f[i] \in State /\ Sound(n, f[i]) /\ Added(s, f[i])
  BY GoodSound, RelayedSound
<1> HIDE DEF f, N
<1>3. 0 \in S
  <2>1. f[0] = s BY SMT, <1>0, <1>1
  <2>2. G(0) = {} BY SMT
  <2> QED BY SMT, <1>0, <2>1, <2>2
<1>4. ASSUME NEW i \in 0..N - 1, i \in S PROVE i + 1 \in S
  <2> DEFINE u == f[i]
             d == ChainOf[c][i + 1]
             A == \A l \in 1..i + 1 : ChainOf[c][l] \in cs
  <2>1. /\ f[i + 1] = AddNext(u, c, cs, i + 1) /\ i + 1 \in 0..N /\ d \in Cert
        /\ u \in State /\ u.life = "up"
    <3>1. i \in 0..N /\ i + 1 \in 0..N /\ i + 1 \in 1..N BY SMT, <1>0
    <3>2. f[i + 1] = AddNext(f[i], c, cs, i + 1) BY SMT, <1>0, <1>1, <3>1
    <3>3. u \in State /\ u.life = "up" BY <1>2, <3>1 DEF Added
    <3> QED BY <1>0, <3>1, <3>2, <3>3
  <2>2. Good(n, u, G(i), {}) BY <1>4
  <2>3. CASE A
    <3>1. G(i + 1) = G(i) \cup {d}
      <4>1. \A k \in 1..i + 1 : k = i + 1 \/ k \in 1..i BY SMT, <1>0
      <4>2. i + 1 \in 1..i + 1 /\ \A k \in 1..i : k \in 1..i + 1 BY SMT, <1>0
      <4> QED BY <2>3, <4>1, <4>2
    <3>2. d \in cs BY SMT, <1>0, <2>3
    <3>3. G(i + 1) \subseteq cs
      <4>1. ASSUME NEW x \in G(i + 1) PROVE x \in cs
        <5>1. PICK k \in 1..i + 1 : x = ChainOf[c][k] /\ \A l \in 1..k : ChainOf[c][l] \in cs
          BY <4>1
        <5>2. k \in 1..k BY SMT, <1>0
        <5> QED BY <5>1, <5>2
      <4> QED BY <4>1
    <3>4. f[i + 1] = AddCert(u, d) BY <2>1, <2>3 DEF AddNext
    <3> HIDE DEF G, u, d
    <3>5. Good(n, u, G(i + 1), {d}) BY <2>2, <3>1 DEF Good, PendOK
    <3>6. Good(n, AddCert(u, d), G(i + 1), {})
      <4>1. d \in u.coll \cup G(i + 1) /\ G(i + 1) \in SUBSET Cert /\ \A e \in G(i + 1) : From[e] <= now
        BY <3>1, <3>3
      <4> QED BY <2>1, <3>5, <4>1, AddCertGood
    <3> QED BY <2>1, <3>4, <3>6
  <2>4. CASE ~A
    <3>1. G(i + 1) = G(i)
      <4>1. \A k \in 1..i + 1 : k = i + 1 \/ k \in 1..i BY SMT, <1>0
      <4>2. \A k \in 1..i : k \in 1..i + 1 BY SMT, <1>0
      <4> QED BY <2>4, <4>1, <4>2
    <3>2. f[i + 1] = u BY <2>1, <2>4 DEF AddNext
    <3> QED BY <2>1, <2>2, <3>1, <3>2
  <2> QED BY <2>3, <2>4
<1>5. 0..N \subseteq S
  <2> HIDE DEF S
  <2> QED BY <1>0, <1>3, <1>4, UpTo
<1>6. N \in 0..N /\ Good(n, f[N], G(N), {})
  <2>1. N \in 0..N BY SMT, <1>0
  <2> HIDE DEF G
  <2> QED BY <1>5, <2>1
<1>7. Good(n, f[N], {}, {})
  <2> HIDE DEF G
  <2> QED BY <1>6 DEF Good, PendOK
<1>8. ASSUME Signers[c] \cup {c} \subseteq cs, Admissible(n, c) PROVE c \in f[N].certs
  <2>1. InChain(c) = Signers[c] \cup {c} BY RangeStep
  <2>2. \A i \in 1..N : ChainOf[c][i] \in cs
    <3>1. DOMAIN ChainOf[c] = 1..N BY SMT, ChainType DEF N
    <3> QED BY <1>8, <2>1, <3>1 DEF InChain
  <2>3. InChain(c) \subseteq G(N)
    <3>1. DOMAIN ChainOf[c] = 1..N BY SMT, ChainType DEF N
    <3>2. \A k \in 1..N : \A l \in 1..k : l \in 1..N BY SMT, <1>0
    <3> QED BY <2>2, <3>1, <3>2 DEF InChain
  <2>4. f[N] \in State /\ f[N].life = "up" BY <1>2, <1>6 DEF Added
  <2> HIDE DEF G
  <2>5. StoreOK(n, f[N]) /\ PendOK(n, f[N], G(N), {}) BY <1>6 DEF Good
  <2> QED BY <1>8, <2>1, <2>3, <2>4, <2>5, ChainAdmitted
<1> QED BY <1>7, <1>8 DEF AddRelayedChain, f, N

\* There are finitely many certs that a store could get (addRelayedChain).
LEMMA CallsType ==
    IsFiniteSet(Deft \X Cert) /\ Calls \in Nat
<1>1. IsFiniteSet(Deft) /\ IsFiniteSet(Cert) BY RelayAssumption, FoundedAssumption
<1>2. IsFiniteSet(Deft \X Cert) BY <1>1, FS_Product
<1> QED BY <1>2, FS_CardinalityType DEF Calls

\* Calls of chainRecv, as a function of their number.
LEMMA ChainRecvsDef ==
    ASSUME NEW d, NEW rl, NEW todo
    PROVE  ChainRecvs(d, rl, todo) =
             [k \in 0..Calls |-> IF k = 0 THEN [deft |-> d, relayed |-> rl, todo |-> todo]
                                 ELSE ChainRecvOne(ChainRecvs(d, rl, todo)[k - 1])]
<1> DEFINE N == Calls
           b == [deft |-> d, relayed |-> rl, todo |-> todo]
           Is(g, n) == g = [k \in 0..n |-> IF k = 0 THEN b ELSE ChainRecvOne(g[k - 1])]
           S == {n \in 0..N : \E g : Is(g, n)}
<1>0. N \in Nat BY CallsType
<1> HIDE DEF N, b
<1>1. 0 \in S
  <2>1. Is([k \in 0..0 |-> b], 0) BY SMT
  <2> HIDE DEF Is
  <2> QED BY SMT, <1>0, <2>1
<1>2. ASSUME NEW n \in 0..N - 1, n \in S PROVE n + 1 \in S
  <2>1. PICK g : Is(g, n) BY <1>2
  <2> DEFINE h == [k \in 0..n + 1 |-> IF k = n + 1 THEN ChainRecvOne(g[n]) ELSE g[k]]
  <2>2. \A k \in 0..n : h[k] = g[k] BY SMT, <1>0
  <2>3. h = [k \in 0..n + 1 |-> IF k = 0 THEN b ELSE ChainRecvOne(h[k - 1])]
    <3>1. SUFFICES ASSUME NEW k \in 0..n + 1
                   PROVE h[k] = IF k = 0 THEN b ELSE ChainRecvOne(h[k - 1])
      OBVIOUS
    <3>2. CASE k = n + 1
      <4>1. h[k] = ChainRecvOne(g[n]) /\ k # 0 /\ k - 1 = n BY SMT, <3>2
      <4>2. g[n] = h[n] BY SMT, <2>2
      <4> QED BY <3>2, <4>1, <4>2
    <3>3. CASE k \in 0..n
      <4>1. h[k] = IF k = 0 THEN b ELSE ChainRecvOne(g[k - 1]) BY <2>1, <2>2, <3>3
      <4>2. k # 0 => h[k - 1] = g[k - 1] BY SMT, <2>2, <3>3
      <4> QED BY <4>1, <4>2
    <3> QED BY SMT, <3>2, <3>3
  <2>4. Is(h, n + 1) BY <2>3
  <2> HIDE DEF Is, h
  <2> QED BY SMT, <1>0, <2>4
<1>3. N \in S
  <2> HIDE DEF S
  <2>1. 0..N \subseteq S BY <1>0, <1>1, <1>2, UpTo
  <2>2. N \in 0..N BY SMT, <1>0
  <2> QED BY <2>1, <2>2
<1>4. PICK g : Is(g, N) BY <1>3
<1> QED BY <1>4 DEF ChainRecvs, N, b

\* The DeftTs of a process are each other's others.
LEMMA HostOthers ==
    ASSUME NEW n \in Deft, NEW k \in Others(n) \cup {n}
    PROVE  /\ k \in Deft /\ Others(n) \cup {n} \subseteq Deft
           /\ Others(k) = (Others(n) \cup {n}) \ {k}
  BY DEF Others

\* What calls of chainRecv go through, in a process with DeftTs h whose states were d and
\* relayed certs rl: a cert passed on is in the store it comes from, and stores stay sound
\* and only grow
Recving(h, d, rl, r) ==
    /\ r \in [deft : [Deft -> State], relayed : [Deft -> SUBSET Cert], todo : SUBSET (Deft \X Cert)]
    /\ \A t \in r.todo : t[1] \in h /\ t[2] \in r.deft[t[1]].certs
    /\ \A m \in h : Sound(m, r.deft[m]) /\ Added(d[m], r.deft[m])
    /\ \A m \in Deft \ h : r.deft[m] = d[m] /\ r.relayed[m] = rl[m]

\* In a running process every signing cert of one store is still to be passed on or is in
\* each other store that may have it
Passing(h, r) ==
    \A n \in h : /\ r.deft[n].life = "up" /\ Good(n, r.deft[n], {}, {})
                 /\ \A m \in h \ {n}, c \in r.deft[n].pv \cup r.relayed[n] :
                       <<n, c>> \in r.todo \/ (Admissible(m, c) => c \in r.deft[m].certs)

\* What is left to do and what a store could still get
Left(r) == r.todo \cup {x \in Deft \X Cert : x[2] \notin r.deft[x[1]].certs}

\* A call of chainRecv keeps stores sound (chainRecv, addRelayedChain).
LEMMA RecvSound ==
    ASSUME NEW p \in Deft, NEW h, h = Others(p) \cup {p}, NEW d, NEW rl, NEW r,
           Recving(h, d, rl, r), r.todo # {}
    PROVE  /\ Recving(h, d, rl, ChainRecvOne(r))
           /\ \E t \in Left(r) : Left(ChainRecvOne(r)) \subseteq Left(r) \ {t}
           /\ \A m \in Deft : Added(r.deft[m], ChainRecvOne(r).deft[m])
<1> DEFINE t == CHOOSE t \in r.todo : TRUE
           k == t[1]
           c == t[2]
           to == Others(k)
           rl2 == [n \in Deft |-> IF n \in to /\ c \notin r.deft[n].certs
                                  THEN r.relayed[n] \cup {c} ELSE r.relayed[n]]
           d2  == [n \in Deft |-> IF n \in to
                                  THEN AddRelayedChain(r.deft[n], c, r.deft[k].certs)
                                  ELSE r.deft[n]]
           q == [deft |-> d2, relayed |-> rl2,
                 todo |-> (r.todo \ {t}) \cup UNION {Passed(n, r.deft[n], d2[n], rl2[n]) : n \in to}]
<1>1. ChainRecvOne(r) = q BY DEF ChainRecvOne
<1>2. /\ t \in r.todo /\ t = <<k, c>> /\ k \in h /\ k \in Deft /\ c \in Cert /\ c \in r.deft[k].certs
      /\ r.deft \in [Deft -> State] /\ r.relayed \in [Deft -> SUBSET Cert]
      /\ r.todo \subseteq Deft \X Cert
  BY SMT DEF Recving
<1> HIDE DEF t, k, c
<1>3. h \subseteq Deft /\ to = h \ {k} BY <1>2, HostOthers
<1>4. \A n \in Deft \ to : d2[n] = r.deft[n] /\ rl2[n] = r.relayed[n] OBVIOUS
<1>5. ASSUME NEW n \in to
      PROVE  d2[n] \in State /\ Sound(n, d2[n]) /\ Added(r.deft[n], d2[n])
  <2>1. n \in Deft /\ r.deft[n] \in State /\ Sound(n, r.deft[n]) BY <1>2, <1>3, <1>5 DEF Recving
  <2>2. d2[n] = AddRelayedChain(r.deft[n], c, r.deft[k].certs) BY <1>5, <2>1
  <2> HIDE DEF d2, to
  <2> QED BY SMT, <1>2, <2>1, <2>2, RelayedSound
<1>6. d2 \in [Deft -> State]
  <2>1. \A n \in Deft : d2[n] \in State BY <1>2, <1>4, <1>5
  <2> QED BY <2>1
<1>7. rl2 \in [Deft -> SUBSET Cert] BY <1>2
<1>8. \A n \in Deft : Added(r.deft[n], d2[n])
  <2>1. \A n \in Deft : Added(r.deft[n], r.deft[n]) BY DEF Added, Grown
  <2> QED BY <1>4, <1>5, <2>1
<1> HIDE DEF d2, rl2, to
<1>9. \A x \in UNION {Passed(n, r.deft[n], d2[n], rl2[n]) : n \in to} :
         x \in Deft \X Cert /\ x[1] \in to /\ x[2] \in d2[x[1]].certs \ r.deft[x[1]].certs
  <2>1. ASSUME NEW n \in to, NEW x \in Passed(n, r.deft[n], d2[n], rl2[n])
        PROVE  x \in Deft \X Cert /\ x[1] \in to /\ x[2] \in d2[x[1]].certs \ r.deft[x[1]].certs
    <3>1. PICK e \in d2[n].certs \ r.deft[n].certs : x = <<n, e>> BY <2>1 DEF Passed
    <3>2. n \in Deft /\ d2[n] \in State BY <1>3, <1>6
    <3>3. d2[n].certs \subseteq Cert BY <3>2 DEF State
    <3> QED BY <3>1, <3>2, <3>3
  <2> QED BY <2>1
<1>10. Recving(h, d, rl, q)
  <2>1. q \in [deft : [Deft -> State], relayed : [Deft -> SUBSET Cert], todo : SUBSET (Deft \X Cert)]
    <3>1. q.todo \subseteq Deft \X Cert BY <1>2, <1>9
    <3> QED BY <1>6, <1>7, <3>1
  <2>2. ASSUME NEW x \in q.todo PROVE x[1] \in h /\ x[2] \in d2[x[1]].certs
    <3>1. CASE x \in r.todo
      <4>1. x[1] \in h /\ x[2] \in r.deft[x[1]].certs BY <3>1 DEF Recving
      <4> QED BY <1>3, <1>8, <4>1 DEF Added, Grown
    <3>2. CASE x \notin r.todo BY <1>3, <1>9, <2>2, <3>2
    <3> QED BY <3>1, <3>2
  <2>3. ASSUME NEW m \in h PROVE Sound(m, d2[m]) /\ Added(d[m], d2[m])
    <3>1. Sound(m, r.deft[m]) /\ Added(d[m], r.deft[m]) BY DEF Recving
    <3>2. m \in Deft /\ (m \in to \/ m \in Deft \ to) BY <1>3
    <3>3. Sound(m, d2[m]) BY <1>4, <1>5, <3>1, <3>2
    <3>4. Added(r.deft[m], d2[m]) BY <1>8, <3>2
    <3> QED BY <3>1, <3>3, <3>4 DEF Added, Grown
  <2>4. ASSUME NEW m \in Deft \ h PROVE d2[m] = d[m] /\ rl2[m] = rl[m]
    <3>1. r.deft[m] = d[m] /\ r.relayed[m] = rl[m] BY DEF Recving
    <3> QED BY <1>3, <1>4, <3>1
  <2> QED BY <2>1, <2>2, <2>3, <2>4 DEF Recving
<1>11. t \in Left(r) /\ Left(q) \subseteq Left(r) \ {t}
  <2>1. t \in Left(r) BY <1>2 DEF Left
  <2>2. ASSUME NEW x \in Left(q) PROVE x \in Left(r) /\ x # t
    <3>1. CASE x \in r.todo \ {t} BY <3>1 DEF Left
    <3>2. CASE x \in UNION {Passed(n, r.deft[n], d2[n], rl2[n]) : n \in to}
      <4>1. x \in Deft \X Cert /\ x[1] \in to /\ x[2] \notin r.deft[x[1]].certs BY <1>9, <3>2
      <4>2. x # t BY SMT, <1>2, <4>1
      <4> QED BY <4>1, <4>2 DEF Left
    <3>3. CASE x \in Deft \X Cert /\ x[2] \notin d2[x[1]].certs
      <4>1. r.deft[x[1]].certs \subseteq d2[x[1]].certs BY <1>8, <3>3 DEF Added, Grown
      <4>2. x[2] \notin r.deft[x[1]].certs BY <3>3, <4>1
      <4>3. x # t BY SMT, <1>2, <4>2
      <4> QED BY <3>3, <4>2, <4>3 DEF Left
    <3> QED BY <2>2, <3>1, <3>2, <3>3 DEF Left
  <2> QED BY <2>1, <2>2
<1> QED BY SMT, <1>1, <1>8, <1>10, <1>11

\* A call of chainRecv puts a cert in every store that may have it, and what that brings in
\* is to be passed on (chainRecv, addRelayedChain, addCb_).
LEMMA RecvPassing ==
    ASSUME NEW p \in Deft, NEW h, h = Others(p) \cup {p}, NEW d, NEW rl, NEW r,
           Recving(h, d, rl, r), r.todo # {}, Passing(h, r), now \in 0..MaxTime
    PROVE  Passing(h, ChainRecvOne(r))
<1> DEFINE t == CHOOSE t \in r.todo : TRUE
           k == t[1]
           c == t[2]
           to == Others(k)
           rl2 == [n \in Deft |-> IF n \in to /\ c \notin r.deft[n].certs
                                  THEN r.relayed[n] \cup {c} ELSE r.relayed[n]]
           d2  == [n \in Deft |-> IF n \in to
                                  THEN AddRelayedChain(r.deft[n], c, r.deft[k].certs)
                                  ELSE r.deft[n]]
           q == [deft |-> d2, relayed |-> rl2,
                 todo |-> (r.todo \ {t}) \cup UNION {Passed(n, r.deft[n], d2[n], rl2[n]) : n \in to}]
           Has(m, e) == Admissible(m, e) => e \in d2[m].certs
<1>1. ChainRecvOne(r) = q BY DEF ChainRecvOne
<1>2. /\ t \in r.todo /\ t = <<k, c>> /\ k \in h /\ k \in Deft /\ c \in Cert /\ c \in r.deft[k].certs
      /\ r.deft \in [Deft -> State] /\ r.relayed \in [Deft -> SUBSET Cert]
  BY SMT DEF Recving
<1> HIDE DEF t, k, c
<1>3. h \subseteq Deft /\ to = h \ {k} BY <1>2, HostOthers
<1>4. \A n \in Deft \ to : d2[n] = r.deft[n] /\ rl2[n] = r.relayed[n] OBVIOUS
<1>5. \A n \in to : rl2[n] \subseteq r.relayed[n] \cup {c} BY <1>3
<1>6. \A m \in Deft : Added(r.deft[m], d2[m])
  <2>1. \A m \in Deft : Added(r.deft[m], ChainRecvOne(r).deft[m]) BY RecvSound
  <2> QED BY SMT, <1>1, <2>1
<1>7. ASSUME NEW n \in h PROVE r.deft[n] \in State /\ r.deft[n].life = "up" /\ Good(n, r.deft[n], {}, {})
  BY <1>2, <1>3 DEF Passing
<1>8. /\ Signers[c] \cup {c} \subseteq r.deft[k].certs /\ r.deft[k].certs \in SUBSET Cert
      /\ \A e \in r.deft[k].certs : From[e] <= now
  <2>1. r.deft[k] \in State /\ r.deft[k].life = "up" /\ Good(k, r.deft[k], {}, {}) BY <1>2, <1>7
  <2>2. r.deft[k].certs \in SUBSET Cert /\ r.deft[k].coll \in SUBSET Cert BY <2>1 DEF State
  <2>3. \A e \in r.deft[k].certs : SignedBy[e] \in r.deft[k].certs BY <2>1 DEF Good, StoreOK
  <2>4. Signers[c] \subseteq r.deft[k].certs BY <1>2, <2>2, <2>3, SignersClosed
  <2>5. \A e \in r.deft[k].certs : From[e] <= now BY <2>1 DEF Good, CollOK
  <2> QED BY <1>2, <2>2, <2>4, <2>5
<1>9. ASSUME NEW n \in to PROVE Good(n, d2[n], {}, {}) /\ Has(n, c)
  <2>1. n \in Deft /\ r.deft[n] \in State /\ r.deft[n].life = "up" /\ Good(n, r.deft[n], {}, {})
    BY <1>3, <1>7
  <2>2. d2[n] = AddRelayedChain(r.deft[n], c, r.deft[k].certs) BY <2>1
  <2> HIDE DEF d2, to
  <2> QED BY <1>2, <1>8, <2>1, <2>2, RelayedGood
<1>10. \A x \in r.todo : x # t => x \in q.todo OBVIOUS
<1>11. \A n \in to : Passed(n, r.deft[n], d2[n], rl2[n]) \subseteq q.todo OBVIOUS
<1>12. q.deft = d2 /\ q.relayed = rl2 OBVIOUS
<1> HIDE DEF d2, rl2, to, q
<1>13. ASSUME NEW n \in h PROVE d2[n].life = "up" /\ Good(n, d2[n], {}, {})
  BY <1>3, <1>4, <1>6, <1>7, <1>9 DEF Added
<1>14. ASSUME NEW n \in h, NEW m \in h \ {n}, NEW e \in r.deft[n].pv \cup r.relayed[n]
       PROVE  <<n, e>> \in q.todo \/ Has(m, e)
  <2>1. CASE Admissible(m, e) => e \in r.deft[m].certs BY <1>3, <1>6, <2>1 DEF Added, Grown
  <2>2. CASE <<n, e>> \in r.todo /\ <<n, e>> # t BY <1>10, <2>2
  <2>3. CASE <<n, e>> = t
    <3>1. n = k /\ e = c BY SMT, <1>2, <2>3
    <3> QED BY <1>3, <1>9, <3>1
  <2> QED BY <2>1, <2>2, <2>3 DEF Passing
<1>15. ASSUME NEW n \in h, NEW m \in h \ {n}, NEW e \in rl2[n]
       PROVE  <<n, e>> \in q.todo \/ Has(m, e)
  <2>1. CASE e \in r.relayed[n] BY <1>14, <2>1
  <2>2. CASE e \notin r.relayed[n]
    <3>1. e = c BY <1>3, <1>4, <1>5, <2>2
    <3>2. CASE m \in to BY <1>9, <3>1, <3>2
    <3>3. CASE m = k BY <1>2, <1>6, <3>1, <3>3 DEF Added, Grown
    <3> QED BY <1>3, <3>2, <3>3
  <2> QED BY <2>1, <2>2
<1>16. ASSUME NEW n \in h, NEW m \in h \ {n}, NEW e \in d2[n].pv
       PROVE  <<n, e>> \in q.todo \/ Has(m, e)
  <2>1. CASE e \in r.deft[n].pv BY <1>14, <2>1
  <2>2. CASE e \in rl2[n] BY <1>15, <2>2
  <2>3. CASE e \notin r.deft[n].pv /\ e \notin rl2[n]
    <3>1. n \in to BY <1>3, <1>4, <2>3
    <3>2. PvOK(n, r.deft[n]) /\ PvOK(n, d2[n]) BY <1>7, <1>13 DEF Good
    <3>3. e \in d2[n].certs /\ e \notin d2[n].keys \cup Bootstrap[n] /\ e \in IsSigningCert[SchemaOf[n]]
      BY <3>2 DEF PvOK
    <3>4. d2[n].keys = r.deft[n].keys /\ d2[n].bs = SchemaOf[n]
      BY <1>3, <1>6, <1>13 DEF Added, Good, StoreOK
    <3>5. e \notin r.deft[n].certs BY <2>3, <3>2, <3>3, <3>4 DEF PvOK
    <3>6. <<n, e>> \in Passed(n, r.deft[n], d2[n], rl2[n]) BY <2>3, <3>3, <3>4, <3>5 DEF Passed
    <3> QED BY <1>11, <3>1, <3>6
  <2> QED BY <2>1, <2>2, <2>3
<1> HIDE DEF Has
<1>17. \A n \in h : \A m \in h \ {n}, e \in d2[n].pv \cup rl2[n] : <<n, e>> \in q.todo \/ Has(m, e)
  BY <1>15, <1>16
<1> QED BY <1>1, <1>12, <1>13, <1>17 DEF Passing, Has

\* Calls of chainRecv come to an end: a cert is new to a store only once (addRelayedChain).
LEMMA RecvEnds ==
    ASSUME NEW p \in Deft, NEW h, h = Others(p) \cup {p}, NEW d, NEW rl, NEW todo,
           Recving(h, d, rl, [deft |-> d, relayed |-> rl, todo |-> todo])
    PROVE  LET r == ChainRecv(d, rl, todo)
           IN  /\ Recving(h, d, rl, r) /\ r.todo = {}
               /\ now \in 0..MaxTime /\ Passing(h, [deft |-> d, relayed |-> rl, todo |-> todo])
                     => Passing(h, r)
<1> DEFINE b == [deft |-> d, relayed |-> rl, todo |-> todo]
           f == ChainRecvs(d, rl, todo)
           P(r) == /\ Recving(h, d, rl, r)
                   /\ now \in 0..MaxTime /\ Passing(h, b) => Passing(h, r)
           S == {k \in 0..Calls : P(f[k])}
           C(r) == Cardinality(Left(r))
           T == {k \in 0..Calls : C(f[k]) + k <= Calls}
<1>0. Calls \in Nat BY CallsType
<1>1. f = [k \in 0..Calls |-> IF k = 0 THEN b ELSE ChainRecvOne(f[k - 1])] BY SMT, ChainRecvsDef
<1> HIDE DEF f, b
<1>2. f[0] = b /\ \A k \in 0..Calls - 1 : k \in 0..Calls /\ k + 1 \in 0..Calls /\ f[k + 1] = ChainRecvOne(f[k])
  BY SMT, <1>0, <1>1
<1>3. 0 \in S BY SMT, <1>0, <1>2 DEF b
<1>4. ASSUME NEW k \in 0..Calls - 1, k \in S PROVE k + 1 \in S
  <2> DEFINE r == f[k]
  <2>1. P(r) BY <1>4
  <2> HIDE DEF r
  <2>2. CASE r.todo = {}
    <3>1. ChainRecvOne(r) = r BY <2>2 DEF ChainRecvOne
    <3> QED BY <1>2, <2>1, <3>1 DEF r
  <2>3. CASE r.todo # {}
    <3>1. P(ChainRecvOne(r)) BY <2>1, <2>3, RecvSound, RecvPassing
    <3> HIDE DEF P
    <3> QED BY <1>2, <3>1 DEF r
  <2> QED BY <2>2, <2>3
<1>5. \A k \in 0..Calls : P(f[k])
  <2>1. 0..Calls \subseteq S
    <3> HIDE DEF S
    <3> QED BY <1>0, <1>3, <1>4, UpTo
  <2> QED BY <2>1
<1>6. \A k \in 0..Calls : IsFiniteSet(Left(f[k])) /\ C(f[k]) \in Nat /\ C(f[k]) <= Calls
  <2>1. ASSUME NEW k \in 0..Calls PROVE Left(f[k]) \subseteq Deft \X Cert
    BY <1>5 DEF Recving, Left
  <2> QED BY <2>1, CallsType, FS_Subset, FS_CardinalityType DEF Calls
<1>7. \E k \in 0..Calls : f[k].todo = {}
  <2> SUFFICES ASSUME \A k \in 0..Calls : f[k].todo # {} PROVE FALSE
    OBVIOUS
  <2>1. 0 \in T
    <3>1. 0 \in 0..Calls /\ C(f[0]) \in Nat /\ C(f[0]) <= Calls BY SMT, <1>0, <1>6
    <3> HIDE DEF C
    <3> QED BY SMT, <1>0, <3>1
  <2>2. ASSUME NEW k \in 0..Calls - 1, k \in T PROVE k + 1 \in T
    <3> DEFINE r == f[k]
    <3>1. Recving(h, d, rl, r) /\ r.todo # {} BY <1>2, <1>5
    <3>2. IsFiniteSet(Left(r)) /\ C(r) + k <= Calls /\ C(r) \in Nat BY <1>2, <1>6, <2>2
    <3>3. f[k + 1] = ChainRecvOne(r) /\ k + 1 \in 0..Calls BY <1>2
    <3> HIDE DEF r
    <3>4. PICK t \in Left(r) : Left(ChainRecvOne(r)) \subseteq Left(r) \ {t} BY <3>1, RecvSound
    <3>5. IsFiniteSet(Left(r) \ {t}) /\ Cardinality(Left(r) \ {t}) = C(r) - 1
      BY <3>2, <3>4, FS_RemoveElement
    <3>6. C(ChainRecvOne(r)) <= C(r) - 1 BY SMT, <3>4, <3>5, FS_Subset
    <3>7. C(f[k + 1]) \in Nat BY <1>6, <3>3
    <3> HIDE DEF C
    <3>8. C(f[k + 1]) + (k + 1) <= Calls BY SMT, <1>0, <3>2, <3>3, <3>6, <3>7
    <3> QED BY <3>3, <3>8
  <2>3. 0..Calls \subseteq T
    <3> HIDE DEF T
    <3> QED BY <1>0, <2>1, <2>2, UpTo
  <2>4. Calls \in 0..Calls BY SMT, <1>0
  <2>5. C(f[Calls]) = 0
    <3>1. C(f[Calls]) + Calls <= Calls /\ C(f[Calls]) \in Nat BY <1>6, <2>3, <2>4
    <3> HIDE DEF C
    <3> QED BY SMT, <1>0, <3>1
  <2>6. Left(f[Calls]) = {} BY <1>6, <2>4, <2>5, FS_EmptySet
  <2> QED BY <2>4, <2>6 DEF Left
<1> DEFINE l == CHOOSE k \in 0..Calls : f[k].todo = {}
<1>8. l \in 0..Calls /\ f[l].todo = {} BY <1>7
<1>9. ChainRecv(d, rl, todo) = f[l] BY DEF ChainRecv, Settled, f
<1> HIDE DEF l
<1>10. P(f[l]) BY <1>5, <1>8
<1> QED BY <1>8, <1>9, <1>10 DEF b

\* A chain ends in a self-signed cert (chainIter).
LEMMA ChainEnds ==
    ASSUME NEW c \in Cert
    PROVE  SelfSigned(ChainOf[c][Len(ChainOf[c])])
<1> DEFINE S == {d \in Cert : SelfSigned(ChainOf[d][Len(ChainOf[d])])}
<1>1. ASSUME NEW d \in Cert, ~SelfSigned(d) => SignedBy[d] \in S PROVE d \in S
  <2>1. CASE SelfSigned(d)
    <3>1. ChainOf[d] = <<d>> BY <2>1, ChainType
    <3>2. Len(<<d>>) = 1 /\ <<d>>[1] = d OBVIOUS
    <3> QED BY <2>1, <3>1, <3>2
  <2>2. CASE ~SelfSigned(d)
    <3> DEFINE r == ChainOf[SignedBy[d]]
    <3>1. ChainOf[d] = <<d>> \o r /\ r \in Seq(Cert) /\ Len(r) > 0 BY <2>2, ChainType
    <3>2. SelfSigned(r[Len(r)]) BY <1>1, <2>2
    <3> HIDE DEF r
    <3>3. Len(<<d>> \o r) = Len(r) + 1 /\ (<<d>> \o r)[Len(r) + 1] = r[Len(r)] BY SMT, <3>1
    <3> QED BY <3>1, <3>2, <3>3
  <2> QED BY <2>1, <2>2
<1>2. S = Cert
  <2> HIDE DEF S
  <2>1. S \in SUBSET Cert BY DEF S
  <2> QED BY <1>1, <2>1, FoundedInduction
<1> QED BY <1>2

\* A chain that a schema allows has the schema's names all the way up (matchesChain).
LEMMA AllowedAdmits ==
    ASSUME NEW b \in Schema, NEW c \in ChainAllowed[b]
    PROVE  c \in Admits(b)
<1>1. c \in Cert /\ MatchesChain(b, c) # {}
  BY DEF ChainAllowed
<1>2. PICK i \in DOMAIN ChainT[b] : MatchesAll(b, ChainNames(c), ChainT[b][i])
  BY <1>1 DEF MatchesChain
<1> DEFINE t == ChainT[b][i]
           m == Len(ChainOf[c])
<1>3. t \in Seq(1..Len(CertT[b])) /\ Len(CertT[b]) \in Nat
      /\ \A j, k \in DOMAIN t : j < k => t[j] < t[k]
  BY SchemaAssumption
<1>4. m \in Nat /\ DOMAIN ChainOf[c] = 1..m /\ SelfSigned(ChainOf[c][m])
  <2>1. ChainOf[c] \in Seq(Cert) BY <1>1, ChainType
  <2> QED BY SMT, <1>1, <2>1, ChainEnds
<1>5. ChainNames(c) = [k \in 1..m |-> CertName[ChainOf[c][k]]] BY <1>4 DEF ChainNames
<1> HIDE DEF m
<1>6. Len(ChainNames(c)) = m BY SMT, <1>4, <1>5
<1>7. DOMAIN t = 1..m /\ \A k \in 1..m : Matches(CertName[ChainOf[c][k]], CertT[b][t[k]])
  <2>1. Len(ChainNames(c)) = Len(t) /\ \A k \in DOMAIN t : Matches(ChainNames(c)[k], CertT[b][t[k]])
    BY <1>2 DEF MatchesAll
  <2>2. DOMAIN t = 1..m BY SMT, <1>3, <1>6, <2>1
  <2> QED BY <1>5, <2>1, <2>2
<1> HIDE DEF t
<1>8. ASSUME NEW d \in Signers[c], ~SelfSigned(d) PROVE d \in MatchesAny[b]
  <2>1. PICK k \in 1..m : ChainOf[c][k] = d BY <1>1, <1>4 DEF Signers
  <2>2. d \in Cert BY <1>1 DEF Signers
  <2>3. k # m BY <1>4, <1>8, <2>1
  <2>4. k + 1 \in 1..m /\ k < k + 1 BY SMT, <1>4, <2>3
  <2>5. t[k] < t[k + 1] /\ t[k] \in 1..Len(CertT[b]) /\ t[k + 1] \in 1..Len(CertT[b])
    <3>1. k \in DOMAIN t /\ k + 1 \in DOMAIN t BY <1>7, <2>4
    <3>2. t[k] < t[k + 1] BY <1>3, <2>4, <3>1
    <3> QED BY SMT, <1>3, <3>1, <3>2
  <2>6. t[k] \in 1..Len(CertT[b]) - 1 BY SMT, <1>3, <2>5
  <2>7. Matches(CertName[d], CertT[b][t[k]]) BY <1>7, <2>1
  <2> QED BY <2>2, <2>6, <2>7 DEF MatchesAny
<1> QED BY <1>8 DEF Admits

\* What a collection takes is of a signer and a form that the network's schema has
\* (isValidPub, publishKnownSigner).
LEMMA ValidPub ==
    ASSUME NEW n \in Deft, NEW s, PvOK(n, s), s.bs = SchemaOf[n], NEW x, IsValidPub(s, x)
    PROVE  /\ x[2] \in s.certs
           /\ x[1] \in KeyPub \/ (x[2] \in Admits(SchemaOf[n]) /\ x[1] \in Fits[SchemaOf[n]])
<1>1. SchemaOf[n] \in Schema BY TrustAssumption
<1>2. CASE x[1] \in KeyPub BY <1>2 DEF IsValidPub
<1>3. CASE x[1] \notin KeyPub
  <2>1. x[2] \in s.pv /\ x[1] \in Fits[SchemaOf[n]] BY <1>3 DEF IsValidPub
  <2>2. x[2] \in s.certs /\ x[2] \in ChainAllowed[SchemaOf[n]] BY <2>1 DEF PvOK, ValidateChain
  <2> QED BY <1>1, <2>1, <2>2, AllowedAdmits
<1> QED BY <1>2, <1>3

-------------------------------------------------------------------------------
(* The inductive invariant of a relay *)

RelayType ==
    LET Signed == Pub \X (Cert \cup {NoCert})
    IN  /\ relayed \in [Deft -> SUBSET Cert] /\ pubs \in [Deft -> SUBSET Signed]
        /\ net \in [Deft -> SUBSET Signed] /\ ignored \in [Deft -> SUBSET Signed]

\* The DeftTs of a process start and end together
Together == \A n \in Deft : \A m \in Others(n) : deft[m].life = deft[n].life

\* A signing cert that one of them has from a peer, or was relayed, is in every other
\* store that may have it
InStep ==
    \A n \in Deft : \A m \in Others(n) : Up(n) =>
        \A c \in deft[n].pv \cup relayed[n] : Admissible(m, c) => c \in deft[m].certs

\* A process that was not started has nothing
Unstarted ==
    \A n \in Deft : deft[n].life = "off" => relayed[n] = {} /\ pubs[n] = {} /\ net[n] = {}

\* The signer of what came from the network is in the store
NetSigned == \A n \in Deft : \A x \in net[n] : x[2] \in deft[n].certs

RInv == /\ IInv /\ RelayType /\ Together /\ InStep /\ Unstarted /\ NetSigned
        /\ WithinSchema /\ NoneStranded

\* A signing cert in the store is one that publications are validated for, if it is not the
\* DeftT's own (setupPubValidator).
LEMMA Validated ==
    ASSUME NEW m \in Deft, NEW t, PvOK(m, t), NEW c \in t.certs, c \notin t.keys \cup Bootstrap[m],
           c \in ChainAllowed[SchemaOf[m]]
    PROVE  c \in t.pv
<1>1. SchemaOf[m] \in Schema BY TrustAssumption
<1>2. c \in IsSigningCert[SchemaOf[m]] BY <1>1, AllowedSigns
<1> QED BY <1>2 DEF PvOK

\* The invariant contains StoresInStep: a cert that may be in a store and is there has a
\* validator (addRelayedChain, setupPubValidator).
LEMMA InStepStores == RInv => StoresInStep
<1> SUFFICES ASSUME RInv, NEW n \in Deft, NEW m \in Others(n), Up(n), NEW c \in Shared(n, m)
             PROVE  c \in deft[m].pv
  BY DEF StoresInStep
<1>1. m \in Deft BY DEF Others
<1>2. /\ c \in deft[n].pv /\ c \notin deft[m].keys \cup Bootstrap[m]
      /\ c \in ChainAllowed[SchemaOf[m]] /\ Admissible(m, c)
  BY DEF Shared
<1>3. c \in deft[m].certs BY <1>2 DEF RInv, InStep
<1>4. PvOK(m, deft[m]) BY <1>1 DEF RInv, IInv, Good
<1> QED BY <1>1, <1>2, <1>3, <1>4, Validated

\* What is so after calls of chainRecv in a process with DeftTs h, whose states were d and
\* in which the event's own DeftT has become s
Recved(h, d, s, r) ==
    /\ r.deft \in [Deft -> State] /\ r.relayed \in [Deft -> SUBSET Cert]
    /\ \A m \in h : Sound(m, r.deft[m]) /\ Grown(deft[m], r.deft[m]) /\ Added(d[m], r.deft[m])
    /\ \A m \in Deft \ h : r.deft[m] = deft[m] /\ r.relayed[m] = relayed[m]
    /\ s.life = "up" =>
          \A n \in h :
             /\ r.deft[n].life = "up" /\ Good(n, r.deft[n], {}, {})
             /\ \A m \in h \ {n}, c \in r.deft[n].pv \cup r.relayed[n] :
                   Admissible(m, c) => c \in r.deft[m].certs

\* Every store of a process grows with what one DeftT gets, and in a process that has not
\* thrown they end up in step (addCb_, chainRecv).
LEMMA RelaysChains ==
    ASSUME RInv, NEW p \in Deft, Up(p), NEW s, NEW C, NEW S, Goes(p, deft[p], s, C, S),
           NEW h, h = Others(p) \cup {p}, NEW d, d = [deft EXCEPT ![p] = s]
    PROVE  Recved(h, d, s, ChainRecv(d, relayed, Passed(p, deft[p], s, relayed[p])))
<1> DEFINE todo == Passed(p, deft[p], s, relayed[p])
           b == [deft |-> d, relayed |-> relayed, todo |-> todo]
           r == ChainRecv(d, relayed, todo)
<1>1. /\ now \in 0..MaxTime /\ deft \in [Deft -> State] /\ relayed \in [Deft -> SUBSET Cert]
      /\ s \in State /\ Grown(deft[p], s) /\ Good(p, s, {}, {}) /\ Sound(p, s)
  BY DEF RInv, IInv, RelayType, Goes
<1>2. ASSUME NEW m \in h PROVE m \in Deft /\ Others(m) = h \ {m} BY HostOthers
<1>3. ASSUME NEW m \in h PROVE deft[m].life = "up" /\ Good(m, deft[m], {}, {}) /\ Sound(m, deft[m])
  <2>1. deft[m].life = "up" BY DEF RInv, Together, Up
  <2>2. Good(m, deft[m], {}, {}) BY <1>2 DEF RInv, IInv
  <2> QED BY <2>1, <2>2, GoodSound
<1>4. d \in [Deft -> State] /\ d[p] = s /\ \A m \in Deft \ {p} : d[m] = deft[m] BY <1>1
<1>5. p \in h /\ h \subseteq Deft BY <1>2
<1>6. Recving(h, d, relayed, b)
  <2>1. \A t \in todo : t[1] = p /\ t[2] \in s.certs /\ t \in Deft \X Cert
    <3>1. s.certs \subseteq Cert BY <1>1 DEF State
    <3> QED BY SMT, <3>1 DEF Passed
  <2> HIDE DEF todo
  <2>2. b \in [deft : [Deft -> State], relayed : [Deft -> SUBSET Cert], todo : SUBSET (Deft \X Cert)]
    BY <1>1, <1>4, <2>1
  <2>3. \A m \in h : Sound(m, d[m]) BY <1>1, <1>3, <1>4, <1>5
  <2>4. \A m \in h : Added(d[m], d[m]) BY DEF Added, Grown
  <2> QED BY <1>4, <1>5, <2>1, <2>2, <2>3, <2>4 DEF Recving
<1>7. ASSUME s.life = "up" PROVE Passing(h, b)
  <2>1. ASSUME NEW n \in h PROVE d[n].life = "up" /\ Good(n, d[n], {}, {})
    BY <1>1, <1>3, <1>4, <1>5, <1>7
  <2>2. ASSUME NEW n \in h, NEW m \in h \ {n}, NEW c \in deft[n].pv \cup relayed[n], Admissible(m, c)
        PROVE  c \in d[m].certs
    <3>1. c \in deft[m].certs BY <1>2, <1>3, <2>2 DEF RInv, InStep, Up
    <3> QED BY <1>1, <1>4, <1>5, <3>1 DEF Grown
  <2>3. ASSUME NEW c \in s.pv, c \notin deft[p].pv, c \notin relayed[p] PROVE <<p, c>> \in todo
    <3>1. PvOK(p, s) /\ PvOK(p, deft[p]) /\ s.bs = SchemaOf[p]
      BY <1>1, <1>3, <1>5 DEF Sound, Base
    <3>2. c \in s.certs /\ c \notin s.keys \cup Bootstrap[p] /\ c \in IsSigningCert[SchemaOf[p]]
      BY <3>1 DEF PvOK
    <3>3. c \notin deft[p].certs BY <1>1, <2>3, <3>1, <3>2 DEF PvOK, Grown
    <3> QED BY <2>3, <3>1, <3>2, <3>3 DEF Passed
  <2> HIDE DEF todo
  <2>4. ASSUME NEW n \in h, NEW m \in h \ {n}, NEW c \in d[n].pv \cup relayed[n]
        PROVE  <<n, c>> \in todo \/ (Admissible(m, c) => c \in d[m].certs)
    <3>1. CASE c \in deft[n].pv \cup relayed[n] BY <2>2, <3>1
    <3>2. CASE c \notin deft[n].pv \cup relayed[n]
      <4>1. n = p /\ c \in s.pv BY <1>4, <1>5, <3>2
      <4> QED BY <2>3, <3>2, <4>1
    <3> QED BY <3>1, <3>2
  <2> QED BY <2>1, <2>4 DEF Passing
<1> HIDE DEF todo
<1>8. Recving(h, d, relayed, r) /\ r.todo = {} /\ (s.life = "up" => Passing(h, r))
  BY <1>1, <1>6, <1>7, RecvEnds
<1> HIDE DEF r
<1>9. ASSUME NEW m \in h
      PROVE  Sound(m, r.deft[m]) /\ Grown(deft[m], r.deft[m]) /\ Added(d[m], r.deft[m])
  <2>1. Sound(m, r.deft[m]) /\ Grown(d[m], r.deft[m]) /\ Added(d[m], r.deft[m])
    BY <1>8 DEF Recving, Added
  <2>2. m = p \/ d[m] = deft[m] BY <1>4, <1>5
  <2> QED BY <1>1, <1>4, <2>1, <2>2 DEF Grown
<1>10. \A m \in Deft \ h : r.deft[m] = deft[m] /\ r.relayed[m] = relayed[m]
  BY <1>4, <1>5, <1>8 DEF Recving
<1>11. r.deft \in [Deft -> State] /\ r.relayed \in [Deft -> SUBSET Cert] BY <1>8 DEF Recving
<1>12. ASSUME s.life = "up", NEW n \in h
       PROVE  /\ r.deft[n].life = "up" /\ Good(n, r.deft[n], {}, {})
              /\ \A m \in h \ {n}, c \in r.deft[n].pv \cup r.relayed[n] :
                    Admissible(m, c) => c \in r.deft[m].certs
  BY <1>8, <1>12 DEF Passing
<1> QED BY <1>9, <1>10, <1>11, <1>12 DEF Recved, r, todo

\* An event of one DeftT, with what it sets off in the others of the process, keeps the
\* invariant.
LEMMA RelaysRInv ==
    ASSUME RInv, NEW p \in Deft, Up(p), NEW s, NEW C, NEW S, Goes(p, deft[p], s, C, S), Relays(p, s)
    PROVE  RInv'
<1> DEFINE h == Others(p) \cup {p}
           d == [deft EXCEPT ![p] = s]
           r == ChainRecv(d, relayed, Passed(p, deft[p], s, relayed[p]))
           had == [k \in Deft |-> IF deft[k].starts = 0 /\ r.deft[k].starts > 0 THEN net[k] ELSE {}]
<1>1. /\ r.deft \in [Deft -> State] /\ r.relayed \in [Deft -> SUBSET Cert]
      /\ \A m \in h : Sound(m, r.deft[m]) /\ Grown(deft[m], r.deft[m])
      /\ \A m \in Deft \ h : r.deft[m] = deft[m] /\ r.relayed[m] = relayed[m]
      /\ s.life = "up" =>
            \A n \in h :
               /\ r.deft[n].life = "up" /\ Good(n, r.deft[n], {}, {})
               /\ \A m \in h \ {n}, c \in r.deft[n].pv \cup r.relayed[n] :
                     Admissible(m, c) => c \in r.deft[m].certs
  <2>1. h = Others(p) \cup {p} /\ d = [deft EXCEPT ![p] = s] OBVIOUS
  <2> HIDE DEF h, d
  <2>2. Recved(h, d, s, r) BY <2>1, RelaysChains
  <2> HIDE DEF r
  <2> QED BY <2>2 DEF Recved
<1>2. /\ deft' = [m \in Deft |-> IF m \in h /\ s.life = "dead"
                                 THEN [r.deft[m] EXCEPT !.life = "dead"] ELSE r.deft[m]]
      /\ relayed' = r.relayed /\ pubs' = PubRecv(r.deft, had)
      /\ now' = now /\ net' = net /\ ignored' = ignored
  BY DEF Relays, Subscribes
<1>3. /\ now \in 0..MaxTime /\ deft \in [Deft -> State] /\ s.life \in {"up", "dead"}
      /\ \A m \in Deft : Good(m, deft[m], {}, {})
  BY DEF RInv, IInv, Goes
<1> HIDE DEF r, d
<1>4. ASSUME NEW m \in h PROVE m \in Deft /\ Others(m) = h \ {m} BY HostOthers
<1>5. ASSUME NEW m \in Deft \ h, NEW k \in Others(m) PROVE k \in Deft \ h BY DEF Others
<1>6. ASSUME NEW m \in h
      PROVE  /\ deft'[m] \in State /\ deft'[m].life = s.life
             /\ deft'[m].bs = r.deft[m].bs /\ deft'[m].certs = r.deft[m].certs
             /\ deft'[m].keys = r.deft[m].keys /\ deft'[m].pv = r.deft[m].pv
             /\ deft'[m].coll = r.deft[m].coll /\ deft'[m].starts = r.deft[m].starts
             /\ deft'[m].initDone = r.deft[m].initDone /\ deft'[m].havePeer = r.deft[m].havePeer
             /\ deft'[m].initialPubs = r.deft[m].initialPubs
             /\ s.life = "up" => deft'[m] = r.deft[m]
  <2>1. m \in Deft /\ r.deft[m] \in State BY <1>1, <1>4
  <2>2. CASE s.life = "up"
    <3>1. deft'[m] = r.deft[m] BY <1>2, <2>1, <2>2
    <3> QED BY <1>1, <2>1, <2>2, <3>1
  <2>3. CASE s.life = "dead"
    <3>1. deft'[m] = [r.deft[m] EXCEPT !.life = "dead"] BY <1>2, <2>1, <2>3
    <3> QED BY <2>1, <2>3, <3>1 DEF State
  <2> QED BY <1>3, <2>2, <2>3
<1>7. ASSUME NEW m \in Deft \ h PROVE deft'[m] = deft[m] /\ relayed'[m] = relayed[m]
  BY <1>1, <1>2
<1> HIDE DEF h
<1>8. ASSUME NEW m \in h
      PROVE  /\ PvOK(m, deft'[m]) /\ StartOK(deft'[m]) /\ Grown(deft[m], deft'[m])
             /\ deft'[m].bs = SchemaOf[m] /\ PvOK(m, r.deft[m]) /\ r.deft[m].bs = SchemaOf[m]
  <2>1. Sound(m, r.deft[m]) /\ Grown(deft[m], r.deft[m]) BY <1>1
  <2>2. PvOK(m, r.deft[m]) /\ StartOK(r.deft[m]) /\ r.deft[m].bs = SchemaOf[m] BY <2>1 DEF Sound, Base
  <2>3. PvOK(m, deft'[m]) BY <1>6, <2>2 DEF PvOK
  <2>4. StartOK(deft'[m]) BY <1>6, <2>2 DEF StartOK
  <2>5. Grown(deft[m], deft'[m]) BY <1>6, <2>1 DEF Grown
  <2> QED BY <1>6, <2>2, <2>3, <2>4, <2>5
<1>9. \A m \in Deft : Grown(deft[m], deft'[m])
  BY <1>7, <1>8 DEF Grown
<1>10. h \subseteq Deft /\ p \in h BY <1>4 DEF h
<1>11. IInv'
  <2>1. deft' \in [Deft -> State]
    <3>1. \A m \in Deft : deft'[m] \in State BY <1>3, <1>6, <1>7
    <3> QED BY <1>2, <3>1
  <2>2. ASSUME NEW m \in Deft PROVE Good(m, deft'[m], {}, {})
    <3>1. CASE m \notin h BY <1>3, <1>7, <3>1
    <3>2. CASE m \in h /\ s.life = "up" BY <1>1, <1>6, <3>2
    <3>3. CASE m \in h /\ s.life = "dead"
      <4>1. CollOK(r.deft[m]) BY <1>1, <3>3 DEF Sound
      <4>2. CollOK(deft'[m]) BY <1>6, <3>3, <4>1 DEF CollOK
      <4> QED BY <1>6, <1>8, <3>3, <4>2 DEF Good, StoreOK, PendOK
    <3> QED BY <1>3, <3>1, <3>2, <3>3
  <2> QED BY <1>2, <1>3, <2>1, <2>2, StepIInv
<1>12. Together'
  <2> SUFFICES ASSUME NEW n \in Deft, NEW m \in Others(n) PROVE deft'[m].life = deft'[n].life
    BY DEF Together, Others
  <2>1. CASE n \in h BY <1>4, <1>6, <2>1
  <2>2. CASE n \notin h
    <3>1. deft'[m] = deft[m] /\ deft'[n] = deft[n] BY <1>5, <1>7, <2>2
    <3> QED BY <3>1 DEF RInv, Together
  <2> QED BY <2>1, <2>2
<1>13. ASSUME NEW n \in Deft, NEW m \in Others(n), deft'[n].life = "up",
              NEW c \in deft'[n].pv \cup relayed'[n], Admissible(m, c)
       PROVE  c \in deft'[m].certs
  <2>1. CASE n \in h
    <3>1. s.life = "up" /\ m \in h \ {n} BY <1>4, <1>6, <1>13, <2>1
    <3>2. deft'[n] = r.deft[n] /\ deft'[m] = r.deft[m] BY <1>6, <2>1, <3>1
    <3> QED BY <1>1, <1>2, <1>13, <2>1, <3>1, <3>2
  <2>2. CASE n \notin h
    <3>1. deft'[m] = deft[m] /\ deft'[n] = deft[n] /\ relayed'[n] = relayed[n]
      BY <1>5, <1>7, <2>2
    <3> QED BY <1>13, <3>1 DEF RInv, InStep, Up
  <2> QED BY <2>1, <2>2
<1>14. \A m, c : Admissible(m, c)' <=> Admissible(m, c)
  BY SMT, <1>2 DEF Admissible, WellFormed, Valid, Lasting
<1>15. InStep'
  BY <1>13, <1>14 DEF InStep, Up, Others
<1>16. ASSUME NEW m \in Deft
       PROVE  /\ pubs'[m] = pubs[m] \cup {x \in UNION {had[k] : k \in Others(m)} : IsValidPub(r.deft[m], x)}
              /\ m \notin h => pubs'[m] = pubs[m]
  <2>1. pubs'[m] = pubs[m] \cup {x \in UNION {had[k] : k \in Others(m)} : IsValidPub(r.deft[m], x)}
    BY <1>2 DEF PubRecv
  <2>2. ASSUME m \notin h PROVE \A k \in Others(m) : had[k] = {}
    <3>1. ASSUME NEW k \in Others(m) PROVE k \in Deft /\ r.deft[k].starts = deft[k].starts
      BY <1>1, <1>5, <2>2
    <3>2. \A k \in Deft : deft[k].starts \in Nat BY <1>3 DEF State
    <3>3. \A k \in Others(m) : ~(deft[k].starts = 0 /\ r.deft[k].starts > 0) BY SMT, <3>1, <3>2
    <3> QED BY <3>1, <3>3
  <2> HIDE DEF had
  <2>3. ASSUME m \notin h PROVE pubs'[m] = pubs[m]
    <3>1. UNION {had[k] : k \in Others(m)} = {} BY <2>2, <2>3
    <3> QED BY <2>1, <3>1
  <2> QED BY <2>1, <2>3
<1>17. RelayType'
  <2> DEFINE Sg == Pub \X (Cert \cup {NoCert})
  <2>1. relayed' \in [Deft -> SUBSET Cert] BY <1>1, <1>2
  <2>2. pubs \in [Deft -> SUBSET Sg] /\ net \in [Deft -> SUBSET Sg] /\ ignored \in [Deft -> SUBSET Sg]
    BY DEF RInv, RelayType
  <2> HIDE DEF Sg
  <2>3. \A k \in Deft : had[k] \subseteq Sg BY <2>2
  <2>4. \A m \in Deft : pubs'[m] \subseteq Sg
    <3>1. \A m \in Deft : Others(m) \subseteq Deft BY DEF Others
    <3> HIDE DEF had
    <3> QED BY SMT, <1>16, <2>2, <2>3, <3>1
  <2>5. pubs' \in [Deft -> SUBSET Sg] BY <1>2, <2>4 DEF PubRecv
  <2> QED BY <1>2, <2>1, <2>2, <2>5 DEF RelayType, Sg
<1>18. Unstarted'
  <2> SUFFICES ASSUME NEW n \in Deft, deft'[n].life = "off"
               PROVE  relayed'[n] = {} /\ pubs'[n] = {} /\ net'[n] = {}
    BY DEF Unstarted
  <2>1. n \notin h BY <1>3, <1>6
  <2>2. deft'[n] = deft[n] /\ relayed'[n] = relayed[n] /\ pubs'[n] = pubs[n] /\ net'[n] = net[n]
    BY <1>2, <1>7, <1>16, <2>1
  <2> QED BY <2>2 DEF RInv, Unstarted
<1>19. NetSigned'
  BY <1>2, <1>9 DEF RInv, NetSigned, Grown
<1>20. WithinSchema'
  <2> SUFFICES ASSUME NEW n \in Deft, NEW x \in pubs'[n], Origin[x[1]] # n
               PROVE  /\ x[2] \in deft'[n].certs
                      /\ x[1] \in KeyPub \/ (x[2] \in Admits(SchemaOf[n]) /\ x[1] \in Fits[SchemaOf[n]])
    BY DEF WithinSchema, Admits
  <2>1. CASE x \in pubs[n]
    BY <1>9, <2>1 DEF RInv, WithinSchema, Grown
  <2>2. CASE x \notin pubs[n]
    <3>1. n \in h /\ IsValidPub(r.deft[n], x) BY <1>16, <2>2
    <3>2. PvOK(n, r.deft[n]) /\ r.deft[n].bs = SchemaOf[n] /\ deft'[n].certs = r.deft[n].certs
      BY <1>6, <1>8, <3>1
    <3> QED BY <3>1, <3>2, ValidPub
  <2> QED BY <2>1, <2>2
<1>21. ASSUME NEW n \in Deft, NEW m \in Others(n), deft'[n].life = "up", deft'[n].starts > 0, NEW x \in net[n],
              x[2] \in deft'[n].pv, x[2] \notin deft'[m].keys \cup Bootstrap[m],
              x[2] \in ChainAllowed[SchemaOf[m]], Admissible(m, x[2]),
              x[1] \in KeyPub \cup Fits[SchemaOf[m]]
       PROVE  x \in pubs'[m]
  <2>0. m \in Deft /\ n \in Others(m) BY DEF Others
  <2>1. CASE deft[n].starts > 0 /\ deft[n].life = "up"
    <3>1. x[2] \in deft[n].certs BY DEF RInv, NetSigned
    <3>2. Grown(deft[n], deft'[n]) /\ Grown(deft[m], deft'[m]) BY <1>9, <2>0
    <3>3. PvOK(n, deft[n]) BY <1>3 DEF Good
    <3>4. PvOK(n, deft'[n]) BY <1>3, <1>7, <1>8 DEF Good
    <3>5. x[2] \in deft[n].pv BY <1>21, <3>1, <3>2, <3>3, <3>4 DEF PvOK, Grown
    <3>6. x[2] \in Shared(n, m) BY <1>21, <3>2, <3>5 DEF Shared, Grown
    <3>7. x \in pubs[m] BY <1>21, <2>1, <3>6 DEF RInv, NoneStranded, Up
    <3> QED BY <1>16, <2>0, <3>7
  <2>2. CASE deft[n].starts = 0 /\ deft[n].life = "up"
    <3>1. n \in h BY SMT, <1>7, <1>21, <2>2
    <3>2. m \in h BY <1>4, <3>1
    <3>3. x \in had[n] BY <1>6, <1>21, <2>2, <3>1
    <3>4. x[2] \in deft'[m].certs BY <1>13, <1>21
    <3>5. x[2] \in deft'[m].pv BY <1>8, <1>21, <2>0, <3>2, <3>4, Validated
    <3>6. IsValidPub(r.deft[m], x)
      <4>1. x[2] \in r.deft[m].certs /\ x[2] \in r.deft[m].pv /\ r.deft[m].bs = SchemaOf[m]
        BY <1>6, <1>8, <3>2, <3>4, <3>5
      <4> QED BY <1>21, <4>1 DEF IsValidPub
    <3> HIDE DEF had
    <3> QED BY <1>16, <2>0, <3>3, <3>6
  <2>3. deft[n].life = "up"
    <3>1. CASE n \in h BY <3>1 DEF h, RInv, Together, Up
    <3>2. CASE n \notin h BY <1>7, <1>21, <3>2
    <3> QED BY <3>1, <3>2
  <2>4. deft[n].starts \in Nat BY <1>3 DEF State
  <2> QED BY SMT, <2>1, <2>2, <2>3, <2>4
<1>22. NoneStranded'
  <2> SUFFICES ASSUME NEW n \in Deft, Up(n)', deft'[n].starts > 0, NEW m \in Others(n), NEW x \in net'[n],
                      (x[2] \in Shared(n, m))', x[1] \in KeyPub \cup Fits[SchemaOf[m]]
               PROVE  x \in pubs'[m]
    BY DEF NoneStranded, Others
  <2>1. /\ x[2] \in deft'[n].pv /\ x[2] \notin deft'[m].keys \cup Bootstrap[m]
        /\ x[2] \in ChainAllowed[SchemaOf[m]] /\ Admissible(m, x[2])
    BY <1>14 DEF Shared
  <2> QED BY <1>2, <1>21, <2>1 DEF Up
<1> QED BY <1>11, <1>12, <1>15, <1>17, <1>18, <1>19, <1>20, <1>22 DEF RInv

\* The processes start with nothing (main).
LEMMA InitRInv == RelayInit => RInv
<1> SUFFICES ASSUME RelayInit PROVE RInv
  OBVIOUS
<1>1. IInv BY InitIInv DEF RelayInit
<1>2. \A n \in Deft : deft[n] = Off /\ deft[n].life = "off" BY DEF RelayInit, Init, Off
<1>3. /\ relayed = [n \in Deft |-> {}] /\ pubs = [n \in Deft |-> {}]
      /\ net = [n \in Deft |-> {}] /\ ignored = [n \in Deft |-> {}]
  BY DEF RelayInit
<1>4. RelayType BY <1>3 DEF RelayType
<1>5. Together BY <1>2 DEF Together, Others
<1>6. InStep /\ NoneStranded BY <1>2 DEF InStep, NoneStranded, Up
<1>7. Unstarted /\ NetSigned /\ WithinSchema BY <1>3 DEF Unstarted, NetSigned, WithinSchema
<1> QED BY <1>1, <1>4, <1>5, <1>6, <1>7 DEF RInv

\* A process starts all of its DeftTs, or ends (main).
LEMMA BootRInv ==
    ASSUME RInv, NEW p \in Deft, BootHost(p)
    PROVE  RInv'
<1> DEFINE h == Others(p) \cup {p}
           ok == \A m \in h : ValidateBootstrap(m)
           dead == [Off EXCEPT !.life = "dead"]
<1>1. /\ deft[p].life = "off"
      /\ deft' = [m \in Deft |-> IF m \notin h THEN deft[m] ELSE IF ok THEN Booted(m) ELSE dead]
      /\ now' = now /\ relayed' = relayed /\ pubs' = pubs /\ net' = net /\ ignored' = ignored
  BY DEF BootHost
<1>2. now \in 0..MaxTime /\ deft \in [Deft -> State] /\ \A m \in Deft : Good(m, deft[m], {}, {})
  BY DEF RInv, IInv
<1>3. ASSUME NEW m \in h PROVE m \in Deft /\ Others(m) = h \ {m} BY HostOthers
<1>4. ASSUME NEW m \in Deft \ h, NEW k \in Others(m) PROVE k \in Deft \ h BY DEF Others
<1>5. ASSUME NEW m \in h
      PROVE  deft[m].life = "off" /\ relayed[m] = {} /\ pubs[m] = {} /\ net[m] = {}
  <2>1. deft[m].life = "off" BY <1>1 DEF RInv, Together
  <2> QED BY <1>3, <2>1 DEF RInv, Unstarted
<1> DEFINE l == IF ok THEN "up" ELSE "dead"
<1>6. ASSUME NEW m \in h
      PROVE  /\ deft'[m] \in State /\ Good(m, deft'[m], {}, {})
             /\ deft'[m].life = l /\ deft'[m].pv = {}
  <2>0. m \in Deft BY <1>3
  <2>1. CASE ok
    <3>1. deft'[m] = Booted(m) /\ ValidateBootstrap(m) BY <1>1, <2>0, <2>1
    <3>2. Booted(m).life = "up" /\ Booted(m).pv = {} BY <3>1 DEF Booted, Off
    <3> QED BY <1>2, <2>0, <2>1, <3>1, <3>2, BootedGood
  <2>2. CASE ~ok
    <3>1. deft'[m] = dead BY <1>1, <2>0, <2>2
    <3>2. dead \in State /\ dead.life = "dead" /\ dead.pv = {} /\ dead.certs = {} /\ dead.coll = {}
          /\ StartOK(dead)
      <4>1. Off \in State /\ Off.pv = {} /\ Off.certs = {} /\ Off.coll = {} /\ StartOK(Off)
        BY OffState
      <4>2. /\ dead \in State /\ dead.life = "dead" /\ dead.pv = Off.pv /\ dead.certs = Off.certs
            /\ dead.coll = Off.coll /\ dead.starts = Off.starts /\ (dead.initDone <=> Off.initDone)
            /\ dead.initialPubs = Off.initialPubs /\ (dead.havePeer <=> Off.havePeer)
        BY <4>1 DEF State
      <4> HIDE DEF dead
      <4> QED BY <4>1, <4>2 DEF StartOK
    <3> HIDE DEF dead, ok
    <3>3. Good(m, dead, {}, {}) BY <3>2 DEF Good, StoreOK, PvOK, CollOK, PendOK
    <3> QED BY <2>2, <3>1, <3>2, <3>3
  <2> QED BY <2>1, <2>2
<1>7. ASSUME NEW m \in Deft \ h PROVE deft'[m] = deft[m] BY <1>1
<1>8. deft' \in [Deft -> State]
  <2>1. \A m \in Deft : deft'[m] \in State BY <1>2, <1>6, <1>7
  <2> QED BY <1>1, <2>1
<1>9. h \subseteq Deft /\ l \in {"up", "dead"} BY <1>3
<1> HIDE DEF h, ok, dead, l
<1>10. IInv'
  <2>1. \A m \in Deft : Good(m, deft'[m], {}, {}) BY <1>2, <1>6, <1>7
  <2>2. now \in 0..MaxTime BY DEF RInv, IInv
  <2> QED BY <1>1, <1>8, <2>1, <2>2, StepIInv
<1>11. RelayType' BY <1>1 DEF RInv, RelayType
<1>12. Together'
  <2> SUFFICES ASSUME NEW n \in Deft, NEW m \in Others(n) PROVE deft'[m].life = deft'[n].life
    BY DEF Together, Others
  <2>1. CASE n \in h BY <1>3, <1>6, <2>1
  <2>2. CASE n \notin h
    <3>1. deft'[m] = deft[m] /\ deft'[n] = deft[n] BY <1>4, <1>7, <2>2
    <3> QED BY <3>1 DEF RInv, Together
  <2> QED BY <2>1, <2>2
<1>13. \A m, c : Admissible(m, c)' <=> Admissible(m, c)
  BY SMT, <1>1 DEF Admissible, WellFormed, Valid, Lasting
<1>14. InStep'
  <2> SUFFICES ASSUME NEW n \in Deft, NEW m \in Others(n), deft'[n].life = "up",
                      NEW c \in deft'[n].pv \cup relayed'[n], Admissible(m, c)
               PROVE  c \in deft'[m].certs
    BY <1>13 DEF InStep, Up, Others
  <2>1. CASE n \in h BY <1>1, <1>5, <1>6, <2>1
  <2>2. CASE n \notin h
    <3>1. deft'[m] = deft[m] /\ deft'[n] = deft[n] /\ relayed'[n] = relayed[n] BY <1>1, <1>4, <1>7, <2>2
    <3> QED BY <3>1 DEF RInv, InStep, Up
  <2> QED BY <2>1, <2>2
<1>15. Unstarted'
  <2>1. ASSUME NEW n \in Deft, deft'[n].life = "off" PROVE deft[n].life = "off"
    BY <1>5, <1>7, <2>1
  <2> QED BY <1>1, <2>1 DEF RInv, Unstarted
<1>16. NetSigned'
  <2>1. ASSUME NEW n \in Deft, NEW x \in net[n] PROVE x[2] \in deft'[n].certs
    <3>1. n \notin h BY <1>5
    <3> QED BY <1>7, <3>1 DEF RInv, NetSigned
  <2> QED BY <1>1, <2>1 DEF NetSigned
<1>17. WithinSchema'
  <2>1. ASSUME NEW n \in Deft, NEW x \in pubs[n] PROVE deft'[n] = deft[n]
    BY <1>5, <1>7
  <2> QED BY <1>1, <2>1 DEF RInv, WithinSchema, Admits
<1>18. NoneStranded'
  <2> SUFFICES ASSUME NEW n \in Deft, Up(n)', deft'[n].starts > 0, NEW m \in Others(n), NEW x \in net'[n],
                      (x[2] \in Shared(n, m))', x[1] \in KeyPub \cup Fits[SchemaOf[m]]
               PROVE  x \in pubs'[m]
    BY DEF NoneStranded, Others
  <2>1. n \notin h BY <1>1, <1>5
  <2>2. deft'[n] = deft[n] /\ deft'[m] = deft[m] BY <1>4, <1>7, <2>1
  <2>3. x[2] \in Shared(n, m) BY <1>13, <2>2 DEF Shared
  <2> QED BY <1>1, <2>2, <2>3 DEF RInv, NoneStranded, Up
<1> QED BY <1>10, <1>11, <1>12, <1>14, <1>15, <1>16, <1>17, <1>18 DEF RInv

\* An application's publication disturbs nothing (publish).
LEMMA PublishRInv ==
    ASSUME RInv, NEW p \in Deft, NEW y \in Pub, Publish(p, y)
    PROVE  RInv'
<1>1. /\ Origin[y] = p /\ Up(p) /\ pubs' = [pubs EXCEPT ![p] = @ \cup {<<y, deft[p].signer>>}]
      /\ deft' = deft /\ now' = now /\ relayed' = relayed /\ net' = net /\ ignored' = ignored
  BY DEF Publish
<1>2. pubs \in [Deft -> SUBSET (Pub \X (Cert \cup {NoCert}))] /\ deft[p].signer \in Cert \cup {NoCert}
  BY DEF RInv, IInv, RelayType, State
<1>3. \A n \in Deft : pubs[n] \subseteq pubs'[n] /\ (n # p => pubs'[n] = pubs[n])
  BY <1>1, <1>2
<1>4. IInv' BY <1>1, SameIInv DEF RInv
<1>5. RelayType'
  <2> DEFINE Sg == Pub \X (Cert \cup {NoCert})
  <2>1. <<y, deft[p].signer>> \in Sg BY <1>2
  <2> HIDE DEF Sg
  <2>2. pubs' \in [Deft -> SUBSET Sg] BY <1>1, <1>2, <2>1 DEF Sg
  <2> QED BY <1>1, <2>2 DEF RInv, RelayType, Sg
<1>6. Together' BY <1>1 DEF RInv, Together, Others
<1>7. InStep' /\ NetSigned'
  BY <1>1 DEF RInv, InStep, NetSigned, Up, Others, Admissible, WellFormed, Valid, Lasting
<1>8. Unstarted'
  <2>1. ASSUME NEW n \in Deft, deft[n].life = "off" PROVE pubs'[n] = pubs[n]
    BY <1>1, <1>3, <2>1 DEF Up
  <2> QED BY <1>1, <2>1 DEF RInv, Unstarted
<1>9. WithinSchema'
  <2>1. ASSUME NEW n \in Deft, NEW x \in pubs'[n], Origin[x[1]] # n PROVE x \in pubs[n]
    <3>1. CASE n # p BY <1>3, <3>1
    <3>2. CASE n = p
      <4>1. x \in pubs[p] \/ x = <<y, deft[p].signer>> BY <1>1, <1>2, <2>1, <3>2
      <4> QED BY SMT, <1>1, <2>1, <3>2, <4>1
    <3> QED BY <3>1, <3>2
  <2> QED BY <1>1, <2>1 DEF RInv, WithinSchema, Admits
<1>10. NoneStranded'
  <2>1. \A n, m : Shared(n, m)' = Shared(n, m)
    BY SMT, <1>1 DEF Shared, Admissible, WellFormed, Valid, Lasting
  <2>2. \A n : Others(n) \subseteq Deft BY DEF Others
  <2>3. NoneStranded BY DEF RInv
  <2> QED BY <1>1, <1>3, <2>1, <2>2, <2>3 DEF NoneStranded, Up, Others
<1> QED BY <1>4, <1>5, <1>6, <1>7, <1>8, <1>9, <1>10 DEF RInv

\* A publication that arrives is carried over to every other network that may have it
\* (pubRecv, keyPubRecv).
LEMMA ArriveRInv ==
    ASSUME RInv, NEW p \in Deft, NEW k \in Deft, NEW y \in pubs[k], Arrive(p, k, y)
    PROVE  RInv'
<1> DEFINE gets == [n \in Deft |-> IF n = p /\ deft[p].starts > 0 THEN {y} ELSE {}]
           Sg == Pub \X (Cert \cup {NoCert})
<1>1. Up(p) /\ deft' = deft /\ now' = now /\ relayed' = relayed BY DEF Arrive
<1>2. /\ pubs \in [Deft -> SUBSET Sg] /\ net \in [Deft -> SUBSET Sg] /\ ignored \in [Deft -> SUBSET Sg]
      /\ y \in Sg
  BY DEF RInv, RelayType
<1>3. ASSUME NEW n \in Deft PROVE Good(n, deft[n], {}, {}) BY DEF RInv, IInv
<1>4. IInv' BY <1>1, SameIInv DEF RInv
<1>5. Together' BY <1>1 DEF RInv, Together, Others
<1>6. InStep' BY <1>1 DEF RInv, InStep, Up, Others, Admissible, WellFormed, Valid, Lasting
<1>7. \A n, m : Shared(n, m)' = Shared(n, m)
  BY SMT, <1>1 DEF Shared, Admissible, WellFormed, Valid, Lasting
<1> HIDE DEF Sg
<1>8. CASE ~IsValidPub(deft[p], y)
  <2>1. ignored' = [ignored EXCEPT ![p] = @ \cup {y}] /\ net' = net /\ pubs' = pubs BY <1>8 DEF Arrive
  <2>2. RelayType'
    <3>1. ignored' \in [Deft -> SUBSET Sg] BY <1>2, <2>1
    <3> QED BY <1>1, <2>1, <3>1 DEF RInv, RelayType, Sg
  <2>3. Unstarted' /\ NetSigned' /\ WithinSchema'
    BY <1>1, <2>1 DEF RInv, Unstarted, NetSigned, WithinSchema, Admits
  <2>4. NoneStranded' BY <1>1, <1>7, <2>1 DEF RInv, NoneStranded, Up, Others
  <2> QED BY <1>4, <1>5, <1>6, <2>2, <2>3, <2>4 DEF RInv
<1>9. CASE IsValidPub(deft[p], y)
  <2>1. /\ net' = [net EXCEPT ![p] = @ \cup {y}] /\ ignored' = ignored
        /\ pubs' = [PubRecv(deft, gets) EXCEPT ![p] = @ \cup {y}]
    BY <1>9 DEF Arrive
  <2>2. ASSUME NEW m \in Deft, NEW x
        PROVE  /\ x \in pubs'[m] => \/ x \in pubs[m] \/ (m = p /\ x = y)
                                    \/ (m \in Others(p) /\ x = y /\ IsValidPub(deft[m], y))
               /\ x \in pubs[m] => x \in pubs'[m]
               /\ m \in Others(p) /\ x = y /\ deft[p].starts > 0 /\ IsValidPub(deft[m], y) => x \in pubs'[m]
    <3> DEFINE N == {z \in UNION {gets[n] : n \in Others(m)} : IsValidPub(deft[m], z)}
    <3>1. pubs'[m] = IF m = p THEN pubs[m] \cup N \cup {y} ELSE pubs[m] \cup N
      BY <2>1 DEF PubRecv
    <3>2. \A n \in Others(m) : n \in Deft /\ gets[n] = IF n = p /\ deft[p].starts > 0 THEN {y} ELSE {}
      BY DEF Others
    <3>3. x \in N => x = y /\ p \in Others(m) /\ IsValidPub(deft[m], y) BY <3>2
    <3>4. p \in Others(m) /\ deft[p].starts > 0 /\ IsValidPub(deft[m], y) => y \in N BY <3>2
    <3>5. p \in Others(m) <=> m \in Others(p) BY DEF Others
    <3> HIDE DEF N
    <3> QED BY <3>1, <3>3, <3>4, <3>5
  <2>3. DOMAIN pubs' = Deft /\ pubs' = [m \in Deft |-> pubs'[m]] BY <2>1 DEF PubRecv
  <2> HIDE DEF gets
  <2>4. \A n \in Deft : net'[n] = IF n = p THEN net[n] \cup {y} ELSE net[n] BY <1>2, <2>1
  <2>5. RelayType'
    <3>1. \A m \in Deft : pubs'[m] \subseteq Sg BY <1>2, <2>2
    <3>2. pubs' \in [Deft -> SUBSET Sg] BY <2>3, <3>1
    <3>3. net' \in [Deft -> SUBSET Sg] BY <1>2, <2>1
    <3> QED BY <1>1, <2>1, <3>2, <3>3 DEF RInv, RelayType, Sg
  <2>6. ASSUME NEW m \in Others(p) \cup {p}
        PROVE  m \in Deft /\ deft[m].life = "up" /\ PvOK(m, deft[m]) /\ deft[m].bs = SchemaOf[m]
    <3>1. m \in Deft /\ deft[m].life = "up" BY <1>1 DEF RInv, Together, Up, Others
    <3> QED BY <1>3, <3>1 DEF Good, StoreOK
  <2>7. Unstarted'
    <3>1. ASSUME NEW n \in Deft, deft[n].life = "off" PROVE pubs'[n] = pubs[n] /\ net'[n] = net[n]
      <4>1. n \notin Others(p) \cup {p} BY <2>6, <3>1
      <4> QED BY <2>2, <2>4, <4>1
    <3> QED BY <1>1, <3>1 DEF RInv, Unstarted
  <2>8. y[2] \in deft[p].certs BY <1>9, <2>6, ValidPub
  <2>9. NetSigned' BY <1>1, <2>4, <2>8 DEF RInv, NetSigned
  <2>10. WithinSchema'
    <3> SUFFICES ASSUME NEW n \in Deft, NEW x \in pubs'[n], Origin[x[1]] # n
                 PROVE  /\ x[2] \in deft[n].certs
                        /\ x[1] \in KeyPub \/ (x[2] \in Admits(SchemaOf[n]) /\ x[1] \in Fits[SchemaOf[n]])
      BY <1>1 DEF WithinSchema, Admits
    <3>1. CASE x \in pubs[n] BY <3>1 DEF RInv, WithinSchema
    <3>2. CASE x \notin pubs[n]
      <4>1. n \in Others(p) \cup {p} /\ x = y /\ IsValidPub(deft[n], y) BY SMT, <1>9, <2>2, <3>2
      <4> QED BY <2>6, <4>1, ValidPub
    <3> QED BY <3>1, <3>2
  <2>11. NoneStranded'
    <3> SUFFICES ASSUME NEW n \in Deft, Up(n), deft[n].starts > 0, NEW m \in Others(n), NEW x \in net'[n],
                        x[2] \in Shared(n, m), x[1] \in KeyPub \cup Fits[SchemaOf[m]]
                 PROVE  x \in pubs'[m]
      BY <1>1, <1>7 DEF NoneStranded, Up, Others
    <3>0. m \in Deft BY DEF Others
    <3>1. CASE x \in net[n]
      <4>1. x \in pubs[m] BY <3>1 DEF RInv, NoneStranded
      <4> QED BY <2>2, <3>0, <4>1
    <3>2. CASE x \notin net[n]
      <4>1. n = p /\ x = y BY <2>4, <3>2
      <4>2. StoresInStep BY InStepStores
      <4>3. y[2] \in deft[m].pv BY <4>1, <4>2 DEF StoresInStep
      <4>4. PvOK(m, deft[m]) /\ deft[m].bs = SchemaOf[m] BY <2>6, <4>1
      <4>5. IsValidPub(deft[m], y) BY <4>1, <4>3, <4>4 DEF IsValidPub, PvOK
      <4> QED BY <2>2, <3>0, <4>1, <4>5
    <3> QED BY <3>1, <3>2
  <2> QED BY <1>4, <1>5, <1>6, <2>5, <2>7, <2>9, <2>10, <2>11 DEF RInv
<1> QED BY <1>8, <1>9

\* Every step of a relay's process keeps the invariant.
LEMMA NextRInv == RInv /\ [RelayNext]_vars => RInv'
<1> SUFFICES ASSUME RInv, [RelayNext]_vars PROVE RInv'
  OBVIOUS
<1>1. ASSUME NEW n \in Deft PROVE deft[n] \in State /\ Good(n, deft[n], {}, {})
  BY DEF RInv, IInv
<1>2. now \in 0..MaxTime BY DEF RInv, IInv
<1>3. ASSUME NEW n \in Deft, NEW m \in Peers(n) PROVE m \in Deft BY DEF Peers
<1>4. ASSUME NEW n \in Deft, RelayKeyDistDone(n) PROVE RInv'
  <2>1. Up(n) /\ Goes(n, deft[n], StartNext(deft[n]), {}, {}) /\ Relays(n, StartNext(deft[n]))
    BY <1>1, <1>4, KeyDistGoes DEF RelayKeyDistDone, KeyDistStarted
  <2> QED BY <2>1, RelaysRInv
<1>5. ASSUME NEW n \in Deft, NEW c \in NewPairs[n], RelayGetNewSP(n, c) PROVE RInv'
  <2>1. c \in Cert BY TrustAssumption
  <2>2. Up(n) /\ Relays(n, NewSP(n, c)) BY <1>5 DEF RelayGetNewSP, Due
  <2>3. Goes(n, deft[n], NewSP(n, c), {c}, {}) BY <1>1, <1>2, <2>1, <2>2, NewSPGoes
  <2> QED BY <2>2, <2>3, RelaysRInv
<1>6. ASSUME NEW n \in Deft, NEW m \in Peers(n), RelayConfirm(n, m) PROVE RInv'
  <2>1. Up(n) /\ Arrived(n, m) # {} /\ Relays(n, InitialConfirmed(deft[n], Arrived(n, m)))
    BY <1>6 DEF RelayConfirm
  <2>2. Goes(n, deft[n], InitialConfirmed(deft[n], Arrived(n, m)), {}, Arrived(n, m)) BY <1>1, <2>1, ConfirmGoes
  <2> QED BY <2>1, <2>2, RelaysRInv
<1>7. ASSUME NEW n \in Deft, NEW m \in Peers(n), NEW c \in deft[m].coll, RelayDeliver(n, m, c) PROVE RInv'
  <2>1. c \in Cert /\ From[c] <= now BY <1>1, <1>3 DEF Good, CollOK, State
  <2>2. Up(n) /\ Relays(n, Received(n, c)) BY <1>7 DEF RelayDeliver, Arrives
  <2>3. Goes(n, deft[n], Received(n, c), {}, {}) BY <1>1, <1>2, <2>1, <2>2, ReceivedGoes
  <2> QED BY <2>2, <2>3, RelaysRInv
<1>8. ASSUME NEW n \in Deft, BootHost(n) PROVE RInv' BY <1>8, BootRInv
<1>9. ASSUME NEW n \in Deft, NEW m \in Peers(n), NEW x \in pubs[m], Arrive(n, m, x) PROVE RInv'
  BY <1>3, <1>9, ArriveRInv
<1>10. ASSUME NEW n \in Deft, NEW x \in Pub, Publish(n, x) PROVE RInv' BY <1>10, PublishRInv
<1>11. CASE UNCHANGED vars
  <2>1. /\ deft' = deft /\ now' = now /\ relayed' = relayed /\ pubs' = pubs /\ net' = net
        /\ ignored' = ignored
    BY <1>11 DEF vars
  <2>2. IInv' BY <2>1, SameIInv DEF RInv
  <2>3. RelayType' /\ Together' /\ Unstarted' /\ NetSigned' /\ WithinSchema'
    BY <2>1 DEF RInv, RelayType, Together, Unstarted, NetSigned, WithinSchema, Others, Admits
  <2>4. InStep' BY <2>1 DEF RInv, InStep, Up, Others, Admissible, WellFormed, Valid, Lasting
  <2>5. NoneStranded'
    BY SMT, <2>1 DEF RInv, NoneStranded, Up, Others, Shared, Admissible, WellFormed, Valid, Lasting
  <2> QED BY <2>2, <2>3, <2>4, <2>5 DEF RInv
<1> QED BY <1>4, <1>5, <1>6, <1>7, <1>8, <1>9, <1>10, <1>11 DEF RelayNext

\* The inductive invariant holds of every behaviour of relays and the other processes on
\* their networks (basicRelay.cpp, ptps.hpp).
THEOREM RelayInvariance == RelaySpec => []RInv
BY InitRInv, NextRInv, PTL DEF RelaySpec

\* For any number of networks, schemas and orders of arrival, the DeftTs of a relay trust
\* the same signers, as far as their schemas allow (addCb_, chainRecv, addRelayedChain).
THEOREM RelayStores == RelaySpec => []StoresInStep
BY RelayInvariance, InStepStores, PTL

\* No collection of a network holds a publication of a signer, or of a form, that its
\* schema does not allow, whatever relays carry over (isValidPub, publishKnownSigner).
THEOREM RelayWithinSchema == RelaySpec => []WithinSchema
<1>1. RInv => WithinSchema BY DEF RInv
<1> QED BY <1>1, RelayInvariance, PTL

\* What a connected relay has received it has published on every other network whose
\* schema allows it (pubRecv, keyPubRecv, subscribe).
THEOREM RelayNoneStranded == RelaySpec => []NoneStranded
<1>1. RInv => NoneStranded BY DEF RInv
<1> QED BY <1>1, RelayInvariance, PTL

\* Chains that are relayed leave intact what each DeftT promises by itself: it connects
\* once, its chains are whole, its validators exact, and no cert it should have is left
\* out (addRelayedChain).
THEOREM RelayMembers ==
    RelaySpec => [](ConnectedOnce /\ ChainsComplete /\ ValidatorsExact /\ AllAdmitted)
<1>1. RInv => IInv BY DEF RInv
<1> QED BY <1>1, RelayInvariance, Promises, PTL

-------------------------------------------------------------------------------
(* The first hop *)

Neighbours(n) == {m \in Deft \ {n} : Network[m] = Network[n]}

\* The chain that n's application starts with
OwnChain(n) == Signers[FirstPair[n]] \cup {FirstPair[n]}

\* Networks of two DeftTs with one schema and one trust anchor, whose signing pairs are
\* their own and whose chains have a signing cert at the head alone, and applications
\* that publish what their schema has
TwoOnNetwork ==
    /\ \A n \in Deft : \A m \in Neighbours(n) :
          /\ Neighbours(n) = {m} /\ SchemaOf[m] = SchemaOf[n]
          /\ FirstPair[m] \notin Bootstrap[n] \cup NewPairs[n] \cup {FirstPair[n]}
          /\ OwnChain(m) \subseteq Lasting \ Schema
          /\ Signers[FirstPair[m]] \cap IsSigningCert[SchemaOf[n]] = {}
          /\ \A d \in Signers[FirstPair[m]] : SelfSigned(d) => d \in Bootstrap[n]
    /\ \A p \in Pub : p \in KeyPub \cup Fits[SchemaOf[Origin[p]]]

\* The certs of n's first chain that are not waited for any more have got to a neighbour
Confirmed(n) ==
    /\ ValidateBootstrap(n)
    /\ \A c \in OwnChain(n) :
          c \in deft[n].initialPubs \/ \E m \in Neighbours(n) : c \in deft[m].coll

Begun ==
    \A n \in Deft : /\ deft[n].life = "up" \/ deft[n].initDone => Confirmed(n)
                    /\ deft[n].life = "off" => deft[n].coll = {}

\* A DeftT's keys are those of its own pairs
OwnKeys == \A n \in Deft : deft[n].keys \subseteq {FirstPair[n]} \cup NewPairs[n]

\* What is in a collection was published by an application whose DeftT had connected
Published ==
    \A n \in Deft : /\ net[n] \subseteq pubs[n]
                    /\ \A x \in pubs[n] :
                          LET o == Origin[x[1]] IN o \in Deft /\ x \in pubs[o] /\ deft[o].initDone

HopInv == RInv /\ Begun /\ OwnKeys /\ Published /\ FirstHopAccepts

\* What a step with the effects of an event of p does to all DeftTs (chainRecv, pubRecv).
LEMMA RelaysEffect ==
    ASSUME RInv, NEW p \in Deft, Up(p), NEW s, NEW C, NEW S, Goes(p, deft[p], s, C, S), Relays(p, s)
    PROVE  /\ \A m \in Deft :
                 /\ Grown(deft[m], deft'[m])
                 /\ deft'[m].keys = IF m = p THEN s.keys ELSE deft[m].keys
                 /\ deft'[m].initialPubs = IF m = p THEN s.initialPubs ELSE deft[m].initialPubs
                 /\ (deft[m].life = "up" /\ deft'[m].life # "off") \/ deft'[m] = deft[m]
           /\ \A m \in Deft :
                 /\ pubs[m] \subseteq pubs'[m]
                 /\ \A x \in pubs'[m] : x \in pubs[m] \/ \E k \in Deft : x \in net[k]
           /\ now' = now /\ net' = net /\ ignored' = ignored
<1> DEFINE h == Others(p) \cup {p}
           d == [deft EXCEPT ![p] = s]
           r == ChainRecv(d, relayed, Passed(p, deft[p], s, relayed[p]))
           had == [k \in Deft |-> IF deft[k].starts = 0 /\ r.deft[k].starts > 0 THEN net[k] ELSE {}]
<1>1. /\ r.deft \in [Deft -> State]
      /\ \A m \in h : Grown(deft[m], r.deft[m]) /\ Added(d[m], r.deft[m])
      /\ \A m \in Deft \ h : r.deft[m] = deft[m]
  <2>1. h = Others(p) \cup {p} /\ d = [deft EXCEPT ![p] = s] OBVIOUS
  <2> HIDE DEF h, d
  <2>2. Recved(h, d, s, r) BY <2>1, RelaysChains
  <2> HIDE DEF r
  <2> QED BY <2>2 DEF Recved
<1>2. /\ deft' = [m \in Deft |-> IF m \in h /\ s.life = "dead"
                                 THEN [r.deft[m] EXCEPT !.life = "dead"] ELSE r.deft[m]]
      /\ pubs' = PubRecv(r.deft, had)
      /\ now' = now /\ net' = net /\ ignored' = ignored
  BY DEF Relays, Subscribes
<1>3. deft \in [Deft -> State] BY DEF RInv, IInv
<1>4. d[p] = s /\ \A m \in Deft \ {p} : d[m] = deft[m] BY <1>3
<1> HIDE DEF r, d
<1>5. ASSUME NEW m \in h PROVE m \in Deft /\ deft[m].life = "up"
  BY DEF RInv, Together, Up, Others
<1>6. ASSUME NEW m \in Deft
      PROVE  /\ Grown(deft[m], deft'[m])
             /\ deft'[m].keys = IF m = p THEN s.keys ELSE deft[m].keys
             /\ deft'[m].initialPubs = IF m = p THEN s.initialPubs ELSE deft[m].initialPubs
             /\ (deft[m].life = "up" /\ deft'[m].life # "off") \/ deft'[m] = deft[m]
  <2>1. CASE m \notin h
    <3>1. deft'[m] = deft[m] /\ m # p BY <1>1, <1>2, <2>1
    <3> QED BY <3>1 DEF Grown
  <2>2. CASE m \in h
    <3>1. r.deft[m] \in State BY <1>1
    <3>2. /\ deft'[m].bs = r.deft[m].bs /\ deft'[m].certs = r.deft[m].certs
          /\ deft'[m].keys = r.deft[m].keys /\ deft'[m].coll = r.deft[m].coll
          /\ (deft'[m].initDone <=> r.deft[m].initDone) /\ deft'[m].initialPubs = r.deft[m].initialPubs
      <4>1. deft'[m] = r.deft[m] \/ deft'[m] = [r.deft[m] EXCEPT !.life = "dead"] BY <1>2
      <4> QED BY SMT, <3>1, <4>1 DEF State
    <3>3. Grown(deft[m], r.deft[m]) /\ Added(d[m], r.deft[m]) BY <1>1, <2>2
    <3>4. Grown(deft[m], deft'[m]) BY <3>2, <3>3 DEF Grown
    <3>5. deft'[m].keys = d[m].keys /\ deft'[m].initialPubs = d[m].initialPubs BY <3>2, <3>3 DEF Added
    <3>6. deft'[m].life # "off"
      <4>1. r.deft[m].life = d[m].life BY <3>3 DEF Added
      <4>2. d[m].life \in {"up", "dead"} BY <1>4, <1>5, <2>2 DEF Goes
      <4>3. deft'[m] = r.deft[m] \/ deft'[m].life = "dead" BY <1>2, <3>1 DEF State
      <4> QED BY <4>1, <4>2, <4>3
    <3> QED BY <1>4, <1>5, <2>2, <3>4, <3>5, <3>6
  <2> QED BY <2>1, <2>2
<1>7. ASSUME NEW m \in Deft
      PROVE  /\ pubs[m] \subseteq pubs'[m]
             /\ \A x \in pubs'[m] : x \in pubs[m] \/ \E k \in Deft : x \in net[k]
  <2>1. pubs'[m] = pubs[m] \cup {x \in UNION {had[k] : k \in Others(m)} : IsValidPub(r.deft[m], x)}
    BY <1>2 DEF PubRecv
  <2>2. \A k \in Others(m) : k \in Deft /\ had[k] \subseteq net[k] BY DEF Others
  <2> HIDE DEF had
  <2> QED BY <2>1, <2>2
<1> QED BY <1>2, <1>6, <1>7

\* New keys in C are p's own, and a neighbour has the certs S
FromNeighbour(p, C, S) == C \subseteq NewPairs[p] /\ \A c \in S : \E m \in Neighbours(p) : c \in deft[m].coll

\* An event of one DeftT takes no cert back that was confirmed, and brings no key but the
\* DeftT's own.
LEMMA RelaysHop ==
    ASSUME HopInv, NEW p \in Deft, Up(p), NEW s, NEW C, NEW S, Goes(p, deft[p], s, C, S), Relays(p, s),
           FromNeighbour(p, C, S)
    PROVE  HopInv'
<1>1. RInv' BY RelaysRInv DEF HopInv
<1>2. /\ \A m \in Deft :
            /\ Grown(deft[m], deft'[m])
            /\ deft'[m].keys = IF m = p THEN s.keys ELSE deft[m].keys
            /\ deft'[m].initialPubs = IF m = p THEN s.initialPubs ELSE deft[m].initialPubs
            /\ (deft[m].life = "up" /\ deft'[m].life # "off") \/ deft'[m] = deft[m]
      /\ \A m \in Deft :
            /\ pubs[m] \subseteq pubs'[m]
            /\ \A x \in pubs'[m] : x \in pubs[m] \/ \E k \in Deft : x \in net[k]
      /\ now' = now /\ net' = net /\ ignored' = ignored
  BY RelaysEffect DEF HopInv
<1>3. s.keys \subseteq deft[p].keys \cup C /\ s.initialPubs = deft[p].initialPubs \ S BY DEF Goes
<1>4. \A m : ValidateBootstrap(m)' <=> ValidateBootstrap(m)
  BY <1>2 DEF ValidateBootstrap, BootStore, Valid
<1>5. Begun'
  <2>1. ASSUME NEW n \in Deft, Confirmed(n) PROVE Confirmed(n)'
    <3>1. ASSUME NEW c \in OwnChain(n)
          PROVE  c \in deft'[n].initialPubs \/ \E m \in Neighbours(n) : c \in deft'[m].coll
      <4>1. \A m \in Neighbours(n) : m \in Deft /\ deft[m].coll \subseteq deft'[m].coll
        BY <1>2 DEF Neighbours, Grown
      <4>2. CASE \E m \in Neighbours(n) : c \in deft[m].coll BY <4>1, <4>2
      <4>3. CASE c \in deft[n].initialPubs /\ ~\E m \in Neighbours(n) : c \in deft[m].coll
        BY <1>2, <1>3, <4>3 DEF FromNeighbour
      <4> QED BY <2>1, <4>2, <4>3 DEF Confirmed
    <3> QED BY <1>4, <2>1, <3>1 DEF Confirmed, OwnChain, Neighbours
  <2>2. ASSUME NEW n \in Deft, deft'[n].life = "up" \/ deft'[n].initDone PROVE Confirmed(n)
    BY <1>2, <2>2 DEF HopInv, Begun
  <2>3. ASSUME NEW n \in Deft, deft'[n].life = "off" PROVE deft'[n].coll = {}
    <3>1. deft'[n] = deft[n] BY <1>2, <2>3
    <3> QED BY <2>3, <3>1 DEF HopInv, Begun
  <2> QED BY <2>1, <2>2, <2>3 DEF Begun
<1>6. OwnKeys'
  BY <1>2, <1>3 DEF HopInv, OwnKeys, FromNeighbour
<1>7. Published'
  <2>1. ASSUME NEW n \in Deft, NEW x \in pubs'[n]
        PROVE  LET o == Origin[x[1]] IN o \in Deft /\ x \in pubs'[o] /\ deft'[o].initDone
    <3>1. PICK k \in Deft : x \in pubs[k] BY SMT, <1>2 DEF HopInv, Published
    <3>2. LET o == Origin[x[1]] IN o \in Deft /\ x \in pubs[o] /\ deft[o].initDone
      BY <3>1 DEF HopInv, Published
    <3> QED BY <1>2, <3>2 DEF Grown
  <2>2. \A n \in Deft : net'[n] \subseteq pubs'[n] BY <1>2 DEF HopInv, Published
  <2> QED BY <2>1, <2>2 DEF Published
<1>8. FirstHopAccepts' BY <1>2 DEF HopInv, FirstHopAccepts
<1> QED BY <1>1, <1>5, <1>6, <1>7, <1>8 DEF HopInv

\* The first pair of a neighbour is one that n admits and validates publications of, once
\* the neighbour has connected (initialPub, addCert).
LEMMA NeighbourTrusted ==
    ASSUME TwoOnNetwork, HopInv, NEW n \in Deft, Up(n), NEW o \in Neighbours(n), deft[o].initDone
    PROVE  FirstPair[o] \in deft[n].pv
<1> DEFINE c == FirstPair[o]
           b == SchemaOf[n]
<1>1. /\ o \in Deft /\ n \in Neighbours(o) /\ SchemaOf[o] = b /\ b \in Schema /\ c \in Cert
      /\ Neighbours(o) = {n}
  BY TrustAssumption DEF TwoOnNetwork, Neighbours
<1>2. /\ c \notin Bootstrap[n] \cup NewPairs[n] \cup {FirstPair[n]}
      /\ OwnChain(o) \subseteq Lasting /\ OwnChain(o) \cap Schema = {}
      /\ Signers[c] \cap IsSigningCert[b] = {}
      /\ \A d \in Signers[c] : SelfSigned(d) => d \in Bootstrap[n]
  BY DEF TwoOnNetwork
<1>3. IInv /\ deft[n] \in State /\ Good(n, deft[n], {}, {}) BY DEF HopInv, RInv, IInv
<1>4. ValidateBootstrap(o) /\ OwnChain(o) \subseteq deft[n].coll
  <2>1. Confirmed(o) BY <1>1 DEF HopInv, Begun
  <2>2. deft[o].initialPubs = {} BY <1>1 DEF HopInv, RInv, IInv, Good, StartOK
  <2> QED BY <1>1, <2>1, <2>2 DEF Confirmed
<1> HIDE DEF c, b
<1>5. /\ Signers[c] \cup {c} = OwnChain(o) /\ OwnChain(o) \subseteq BootStore(o)
      /\ Bootstrap[o] = Signers[c] \cup {SchemaOf[o]}
      /\ SignedBy[SchemaOf[o]] \in Signers[c]
      /\ \A d \in Bootstrap[o] \cup {c} : SelfSigned(d) \/ d = SchemaOf[o] \/ d \in MatchesAny[SchemaOf[o]]
      /\ c \in ChainAllowed[SchemaOf[o]]
  BY <1>4 DEF ValidateBootstrap, OwnChain, ValidateChain, c
<1>6. ~SelfSigned(c) BY SMT, <1>1, <1>5, RangeStep
<1>7. ASSUME NEW d \in OwnChain(o) PROVE IF SelfSigned(d) THEN d \in Bootstrap[n] ELSE WellFormed(b, d)
  <2>1. Valid(d) BY <1>5 DEF BootStore
  <2>2. d \notin Schema BY <1>2
  <2>3. SelfSigned(d) \/ d \in MatchesAny[b] BY <1>1, <1>5, <2>2
  <2>4. SelfSigned(d) => d \in Bootstrap[n] BY <1>2, <1>5, <1>6
  <2> QED BY <2>1, <2>2, <2>3, <2>4 DEF WellFormed
<1>8. Admissible(n, c) BY <1>1, <1>2, <1>5, <1>7 DEF Admissible, b
<1>9. c \in deft[n].certs
  <2>1. AllAdmitted BY <1>3, Promises
  <2>2. c \in deft[n].coll /\ Signers[c] \subseteq deft[n].coll BY <1>4, <1>5
  <2> QED BY <1>8, <2>1, <2>2 DEF AllAdmitted
<1>10. c \notin deft[n].keys \cup Bootstrap[n] BY <1>2 DEF HopInv, OwnKeys
<1>11. PvOK(n, deft[n]) /\ c \in ChainAllowed[SchemaOf[n]] BY <1>1, <1>3, <1>5 DEF Good, b
<1> QED BY <1>9, <1>10, <1>11, Validated DEF c

\* The first processes to start have confirmed and published nothing.
LEMMA InitHop == RelayInit => HopInv
<1> SUFFICES ASSUME RelayInit PROVE HopInv
  OBVIOUS
<1>1. RInv BY InitRInv
<1>2. \A n \in Deft : deft[n].life = "off" /\ ~deft[n].initDone /\ deft[n].coll = {} /\ deft[n].keys = {}
  BY DEF RelayInit, Init, Off
<1>3. pubs = [n \in Deft |-> {}] /\ net = [n \in Deft |-> {}] /\ ignored = [n \in Deft |-> {}]
  BY DEF RelayInit
<1>4. Begun /\ OwnKeys BY <1>2 DEF Begun, OwnKeys
<1>5. Published /\ FirstHopAccepts BY <1>3 DEF Published, FirstHopAccepts
<1> QED BY <1>1, <1>4, <1>5 DEF HopInv

\* A DeftT that is started waits for all of its chain (initialPub).
LEMMA BootHop ==
    ASSUME HopInv, NEW p \in Deft, BootHost(p)
    PROVE  HopInv'
<1> DEFINE h == Others(p) \cup {p}
           ok == \A m \in h : ValidateBootstrap(m)
           dead == [Off EXCEPT !.life = "dead"]
<1>1. /\ deft[p].life = "off"
      /\ deft' = [m \in Deft |-> IF m \notin h THEN deft[m] ELSE IF ok THEN Booted(m) ELSE dead]
      /\ now' = now /\ pubs' = pubs /\ net' = net /\ ignored' = ignored
  BY DEF BootHost
<1>2. RInv' BY BootRInv DEF HopInv
<1>3. ASSUME NEW m \in h PROVE m \in Deft /\ deft[m].life = "off" /\ pubs[m] = {} /\ deft[m].coll = {}
  BY <1>1 DEF HopInv, RInv, Together, Unstarted, Begun, Others
<1>4. ASSUME NEW m \in h
      PROVE  /\ ~deft'[m].initDone /\ deft'[m].keys \subseteq {FirstPair[m]} /\ deft'[m].life # "off"
             /\ deft'[m].life = "up" => ValidateBootstrap(m) /\ OwnChain(m) \subseteq deft'[m].initialPubs
  <2>1. CASE ok
    <3>1. deft'[m] = Booted(m) /\ ValidateBootstrap(m) BY <1>1, <1>3, <2>1
    <3>2. /\ Booted(m).life = "up" /\ ~Booted(m).initDone /\ Booted(m).keys = {FirstPair[m]}
          /\ Booted(m).initialPubs = BootStore(m)
      BY <3>1 DEF Booted, Off
    <3>3. OwnChain(m) \subseteq BootStore(m) BY <3>1 DEF ValidateBootstrap, OwnChain
    <3> QED BY <3>1, <3>2, <3>3
  <2>2. CASE ~ok
    <3>1. deft'[m] = dead BY <1>1, <1>3, <2>2
    <3>2. dead.life = "dead" /\ ~dead.initDone /\ dead.keys = {} BY DEF Off
    <3> HIDE DEF dead
    <3> QED BY <3>1, <3>2
  <2> QED BY <2>1, <2>2
<1>5. ASSUME NEW m \in Deft \ h PROVE deft'[m] = deft[m] BY <1>1
<1>6. \A m \in Deft : deft[m].coll \subseteq deft'[m].coll BY <1>3, <1>5
<1> HIDE DEF h, ok, dead
<1>7. \A m : ValidateBootstrap(m)' <=> ValidateBootstrap(m)
  BY <1>1 DEF ValidateBootstrap, BootStore, Valid
<1>8. Begun'
  <2>1. ASSUME NEW n \in Deft, deft'[n].life = "up" \/ deft'[n].initDone PROVE Confirmed(n)'
    <3>1. CASE n \in h
      <4>1. ValidateBootstrap(n) /\ OwnChain(n) \subseteq deft'[n].initialPubs BY <1>4, <2>1, <3>1
      <4> QED BY <1>7, <4>1 DEF Confirmed, OwnChain
    <3>2. CASE n \notin h
      <4>1. deft'[n] = deft[n] /\ Confirmed(n) BY <1>5, <2>1, <3>2 DEF HopInv, Begun
      <4>2. \A m \in Neighbours(n) : deft[m].coll \subseteq deft'[m].coll BY <1>6 DEF Neighbours
      <4> QED BY <1>7, <4>1, <4>2 DEF Confirmed, OwnChain, Neighbours
    <3> QED BY <3>1, <3>2
  <2>2. ASSUME NEW n \in Deft, deft'[n].life = "off" PROVE deft'[n].coll = {}
    BY <1>4, <1>5, <2>2 DEF HopInv, Begun
  <2> QED BY <2>1, <2>2 DEF Begun
<1>9. OwnKeys' BY <1>4, <1>5 DEF HopInv, OwnKeys
<1>10. Published'
  <2>1. ASSUME NEW o \in Deft, pubs[o] # {} PROVE deft'[o] = deft[o] BY <1>3, <1>5, <2>1
  <2> QED BY <1>1, <2>1 DEF HopInv, Published
<1>11. FirstHopAccepts' BY <1>1 DEF HopInv, FirstHopAccepts
<1> QED BY <1>2, <1>8, <1>9, <1>10, <1>11 DEF HopInv

\* A step that changes no DeftT keeps what was confirmed.
LEMMA BegunKept ==
    ASSUME Begun, OwnKeys, deft' = deft, now' = now
    PROVE  Begun' /\ OwnKeys'
<1>1. \A m : ValidateBootstrap(m)' <=> ValidateBootstrap(m) BY DEF ValidateBootstrap, BootStore, Valid
<1>2. \A n \in Deft : Confirmed(n)' <=> Confirmed(n) BY <1>1 DEF Confirmed, OwnChain, Neighbours
<1> QED BY <1>2 DEF Begun, OwnKeys

\* An application publishes once its DeftT has connected (publish).
LEMMA PublishHop ==
    ASSUME HopInv, NEW p \in Deft, NEW y \in Pub, Publish(p, y)
    PROVE  HopInv'
<1>1. /\ Origin[y] = p /\ pubs' = [pubs EXCEPT ![p] = @ \cup {<<y, deft[p].signer>>}]
      /\ deft' = deft /\ now' = now /\ net' = net /\ ignored' = ignored
      /\ IF y \in KeyPub THEN deft[p].initDone ELSE deft[p].starts > 0
  BY DEF Publish
<1>2. RInv' BY PublishRInv DEF HopInv
<1>3. pubs \in [Deft -> SUBSET (Pub \X (Cert \cup {NoCert}))] BY DEF HopInv, RInv, RelayType
<1>4. deft[p].initDone
  <2>1. StartOK(deft[p]) /\ deft[p].starts \in Nat BY DEF HopInv, RInv, IInv, Good, State
  <2> QED BY SMT, <1>1, <2>1 DEF StartOK
<1>5. Begun' /\ OwnKeys' /\ FirstHopAccepts' BY <1>1, BegunKept DEF HopInv, FirstHopAccepts
<1>6. Published'
  <2>1. \A n \in Deft : pubs[n] \subseteq pubs'[n] BY <1>1, <1>3
  <2>2. \A n \in Deft : \A x \in pubs'[n] : x \in pubs[n] \/ (n = p /\ x = <<y, deft[p].signer>>)
    BY <1>1, <1>3
  <2>3. ASSUME NEW n \in Deft, NEW x \in pubs'[n]
        PROVE  LET o == Origin[x[1]] IN o \in Deft /\ x \in pubs'[o] /\ deft[o].initDone
    <3>1. CASE x \in pubs[n]
      <4>1. LET o == Origin[x[1]] IN o \in Deft /\ x \in pubs[o] /\ deft[o].initDone
        BY <3>1 DEF HopInv, Published
      <4> QED BY <2>1, <4>1
    <3>2. CASE n = p /\ x = <<y, deft[p].signer>> BY <1>1, <1>4, <2>3, <3>2
    <3> QED BY <2>2, <3>1, <3>2
  <2>4. \A n \in Deft : net[n] \subseteq pubs'[n] BY <2>1 DEF HopInv, Published
  <2> QED BY <1>1, <2>3, <2>4 DEF Published
<1> QED BY <1>2, <1>5, <1>6 DEF HopInv

\* What a neighbour publishes with its first pair is not ignored (isValidPub, addCert).
LEMMA ArriveHop ==
    ASSUME TwoOnNetwork, HopInv, NEW p \in Deft, NEW k \in Deft, NEW y \in pubs[k], Arrive(p, k, y)
    PROVE  HopInv'
<1> DEFINE gets == [n \in Deft |-> IF n = p /\ deft[p].starts > 0 THEN {y} ELSE {}]
           o == Origin[y[1]]
<1>1. Up(p) /\ deft' = deft /\ now' = now /\ y \notin pubs[p] BY DEF Arrive
<1>2. RInv' BY ArriveRInv DEF HopInv
<1>3. Begun' /\ OwnKeys' BY <1>1, BegunKept DEF HopInv
<1>4. /\ pubs \in [Deft -> SUBSET (Pub \X (Cert \cup {NoCert}))]
      /\ net \in [Deft -> SUBSET (Pub \X (Cert \cup {NoCert}))]
      /\ ignored \in [Deft -> SUBSET (Pub \X (Cert \cup {NoCert}))]
  BY DEF HopInv, RInv, RelayType
<1>5. o \in Deft /\ y \in pubs[o] /\ deft[o].initDone /\ y[1] \in Pub
  BY SMT, <1>4 DEF HopInv, Published
<1>6. CASE ~IsValidPub(deft[p], y)
  <2>1. ignored' = [ignored EXCEPT ![p] = @ \cup {y}] /\ net' = net /\ pubs' = pubs BY <1>6 DEF Arrive
  <2>2. ASSUME y[2] = FirstPair[o], Network[o] = Network[p] PROVE FALSE
    <3>1. o # p BY <1>1, <1>5
    <3>2. o \in Neighbours(p) BY <1>5, <2>2, <3>1 DEF Neighbours
    <3>3. y[2] \in deft[p].pv BY <1>1, <1>5, <2>2, <3>2, NeighbourTrusted
    <3>4. PvOK(p, deft[p]) /\ deft[p].bs = SchemaOf[p]
      BY <1>1 DEF HopInv, RInv, IInv, Good, StoreOK, Up
    <3>5. y[1] \in KeyPub \cup Fits[SchemaOf[p]] BY SMT, <1>5, <3>2 DEF TwoOnNetwork
    <3>6. IsValidPub(deft[p], y) BY <3>3, <3>4, <3>5 DEF IsValidPub, PvOK
    <3> QED BY <1>6, <3>6
  <2>3. \A n \in Deft : \A x \in ignored'[n] : x \in ignored[n] \/ (n = p /\ x = y) BY <1>4, <2>1
  <2>4. FirstHopAccepts' BY <2>2, <2>3 DEF HopInv, FirstHopAccepts
  <2>5. Published' BY <1>1, <2>1 DEF HopInv, Published
  <2> QED BY <1>2, <1>3, <2>4, <2>5 DEF HopInv
<1>7. CASE IsValidPub(deft[p], y)
  <2>1. /\ net' = [net EXCEPT ![p] = @ \cup {y}] /\ ignored' = ignored
        /\ pubs' = [PubRecv(deft, gets) EXCEPT ![p] = @ \cup {y}]
    BY <1>7 DEF Arrive
  <2>2. ASSUME NEW m \in Deft
        PROVE  pubs[m] \subseteq pubs'[m] /\ (\A x \in pubs'[m] : x \in pubs[m] \/ x = y) /\ y \in pubs'[p]
    <3> DEFINE N == {z \in UNION {gets[n] : n \in Others(m)} : IsValidPub(deft[m], z)}
    <3>1. pubs'[m] = IF m = p THEN pubs[m] \cup N \cup {y} ELSE pubs[m] \cup N
      BY <2>1 DEF PubRecv
    <3>2. \A n \in Others(m) : gets[n] \subseteq {y} BY DEF Others
    <3>3. N \subseteq {y} BY <3>2
    <3>4. y \in pubs'[p] BY <2>1 DEF PubRecv
    <3> HIDE DEF N
    <3> QED BY SMT, <3>1, <3>3, <3>4
  <2> HIDE DEF gets
  <2>3. \A n \in Deft : net'[n] \subseteq net[n] \cup {y} /\ (n # p => net'[n] = net[n]) BY <1>4, <2>1
  <2>4. Published'
    <3>1. ASSUME NEW n \in Deft, NEW x \in pubs'[n]
          PROVE  LET q == Origin[x[1]] IN q \in Deft /\ x \in pubs'[q] /\ deft[q].initDone
      <4>1. LET q == Origin[x[1]] IN q \in Deft /\ x \in pubs[q] /\ deft[q].initDone
        BY <1>5, <2>2 DEF HopInv, Published
      <4> QED BY <2>2, <4>1
    <3>2. \A n \in Deft : net'[n] \subseteq pubs'[n] BY <2>2, <2>3 DEF HopInv, Published
    <3> QED BY <1>1, <3>1, <3>2 DEF Published
  <2>5. FirstHopAccepts' BY <2>1 DEF HopInv, FirstHopAccepts
  <2> QED BY <1>2, <1>3, <2>4, <2>5 DEF HopInv
<1> QED BY <1>6, <1>7

\* Every step on networks of two keeps the invariant.
LEMMA NextHop == TwoOnNetwork /\ HopInv /\ [RelayNext]_vars => HopInv'
<1> SUFFICES ASSUME TwoOnNetwork, HopInv, [RelayNext]_vars PROVE HopInv'
  OBVIOUS
<1>1. ASSUME NEW n \in Deft PROVE deft[n] \in State /\ Good(n, deft[n], {}, {})
  BY DEF HopInv, RInv, IInv
<1>2. now \in 0..MaxTime BY DEF HopInv, RInv, IInv
<1>3. ASSUME NEW n \in Deft, NEW m \in Peers(n) PROVE m \in Deft /\ m \in Neighbours(n)
  BY DEF Peers, Neighbours
<1>4. ASSUME NEW n \in Deft, RelayKeyDistDone(n) PROVE HopInv'
  <2>1. Up(n) /\ Goes(n, deft[n], StartNext(deft[n]), {}, {}) /\ Relays(n, StartNext(deft[n]))
    BY <1>1, <1>4, KeyDistGoes DEF RelayKeyDistDone, KeyDistStarted
  <2>2. FromNeighbour(n, {}, {}) BY DEF FromNeighbour
  <2> QED BY <2>1, <2>2, RelaysHop
<1>5. ASSUME NEW n \in Deft, NEW c \in NewPairs[n], RelayGetNewSP(n, c) PROVE HopInv'
  <2>1. c \in Cert BY TrustAssumption
  <2>2. Up(n) /\ Relays(n, NewSP(n, c)) BY <1>5 DEF RelayGetNewSP, Due
  <2>3. Goes(n, deft[n], NewSP(n, c), {c}, {}) BY <1>1, <1>2, <2>1, <2>2, NewSPGoes
  <2>4. FromNeighbour(n, {c}, {}) BY DEF FromNeighbour
  <2> QED BY <2>2, <2>3, <2>4, RelaysHop
<1>6. ASSUME NEW n \in Deft, NEW m \in Peers(n), RelayConfirm(n, m) PROVE HopInv'
  <2>1. Up(n) /\ Arrived(n, m) # {} /\ Relays(n, InitialConfirmed(deft[n], Arrived(n, m)))
    BY <1>6 DEF RelayConfirm
  <2>2. Goes(n, deft[n], InitialConfirmed(deft[n], Arrived(n, m)), {}, Arrived(n, m))
    BY <1>1, <2>1, ConfirmGoes
  <2>3. FromNeighbour(n, {}, Arrived(n, m)) BY <1>3 DEF FromNeighbour, Arrived
  <2> QED BY <2>1, <2>2, <2>3, RelaysHop
<1>7. ASSUME NEW n \in Deft, NEW m \in Peers(n), NEW c \in deft[m].coll, RelayDeliver(n, m, c) PROVE HopInv'
  <2>1. c \in Cert /\ From[c] <= now BY <1>1, <1>3 DEF Good, CollOK, State
  <2>2. Up(n) /\ Relays(n, Received(n, c)) BY <1>7 DEF RelayDeliver, Arrives
  <2>3. Goes(n, deft[n], Received(n, c), {}, {}) BY <1>1, <1>2, <2>1, <2>2, ReceivedGoes
  <2>4. FromNeighbour(n, {}, {}) BY DEF FromNeighbour
  <2> QED BY <2>2, <2>3, <2>4, RelaysHop
<1>8. ASSUME NEW n \in Deft, BootHost(n) PROVE HopInv' BY <1>8, BootHop
<1>9. ASSUME NEW n \in Deft, NEW m \in Peers(n), NEW x \in pubs[m], Arrive(n, m, x) PROVE HopInv'
  BY <1>3, <1>9, ArriveHop
<1>10. ASSUME NEW n \in Deft, NEW x \in Pub, Publish(n, x) PROVE HopInv' BY <1>10, PublishHop
<1>11. CASE UNCHANGED vars
  <2>1. deft' = deft /\ now' = now /\ pubs' = pubs /\ net' = net /\ ignored' = ignored
    BY <1>11 DEF vars
  <2>2. RInv' BY <1>11, NextRInv DEF HopInv
  <2>3. Begun' /\ OwnKeys' /\ Published' /\ FirstHopAccepts'
    BY <2>1, BegunKept DEF HopInv, Published, FirstHopAccepts
  <2> QED BY <2>2, <2>3 DEF HopInv
<1> QED BY <1>4, <1>5, <1>6, <1>7, <1>8, <1>9, <1>10, <1>11 DEF RelayNext

\* On networks of two with one schema and one trust anchor, in any order of certs,
\* confirmations and publications, nothing that a neighbour publishes with its first pair
\* is refused (initialPub, addCert, isValidPub).
THEOREM RelayFirstHop ==
    ASSUME TwoOnNetwork
    PROVE  RelaySpec => []FirstHopAccepts
<1>1. HopInv /\ [RelayNext]_vars => HopInv' BY NextHop
<1>2. HopInv => FirstHopAccepts BY DEF HopInv
<1> QED BY <1>1, <1>2, InitHop, PTL DEF RelaySpec
===============================================================================
