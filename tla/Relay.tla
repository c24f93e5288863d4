--------------------------------- MODULE Relay ---------------------------------
(***************************************************************************)
(* A relay (examples/relay/basicRelay.cpp): a process with a pass-through  *)
(* DeftT (ptps.hpp, DCTmodelPT) on each of several networks, which may     *)
(* have different schemas. It composes DCTModel with what the relay does   *)
(* from the callbacks of one DeftT to the others: chains of signing certs, *)
(* publications and publications of group key distributors are carried     *)
(* over in the same event. Collections of publications are PubSubs. The    *)
(* clock stands still: signing pairs are renewed, but do not expire.       *)
(***************************************************************************)
EXTENDS DCTModel

CONSTANTS Host,     \* Host[n]: the process that has DeftT n
          Pub,      \* publications
          KeyPub,   \* those of group key distributors
          Origin,   \* Origin[p]: the DeftT whose application publishes p
          Fits      \* Fits[b]: the publications that schema b has a template for

ASSUME RelayAssumption == IsFiniteSet(Deft)

VARIABLES relayed,  \* m_rlyCerts: signing certs that were relayed to n
          pubs,     \* pubs[n]: the <<publication, signer>> in n's collections
          net,      \* those of them that came from the network
          ignored   \* what n has received and not validated

vars == <<deft, now, relayed, pubs, net, ignored>>

Others(n) == {m \in Deft \ {n} : Host[m] = Host[n]}

RelayInit ==
    /\ Init
    /\ relayed = [n \in Deft |-> {}] /\ pubs = [n \in Deft |-> {}]
    /\ net = [n \in Deft |-> {}] /\ ignored = [n \in Deft |-> {}]
-------------------------------------------------------------------------------
(* Certs *)

\* The signing certs that addCb_ passes on when n becomes s
Passed(n, old, s, rl) ==
    {<<n, c>> : c \in ((s.certs \ old.certs) \cap IsSigningCert[s.bs]) \ rl}

\* Mutant: the signing cert without its chain
AddRelayedCert(s, c, cs) == IF c \in s.certs THEN s ELSE AddCert(s, c)

\* s after the first i certs of c's chain, up from the signing cert. A cert that is not in
\* cs ends it.
AddingChain(s, c, cs) ==
    LET add[i \in 0..Len(ChainOf[c])] ==
            IF i = 0 THEN s
            ELSE IF \A j \in 1..i : ChainOf[c][j] \in cs THEN AddCert(add[i - 1], ChainOf[c][i])
            ELSE add[i - 1]
    IN  add

\* addRelayedChain, from the store cs of another DeftT
AddRelayedChain(s, c, cs) ==
    IF c \in s.certs THEN s ELSE AddingChain(s, c, cs)[Len(ChainOf[c])]

\* chainRecv for one of the certs in r.todo, if any; those that the others pass on in
\* turn are to be done
ChainRecvOne(r) ==
    LET t   == CHOOSE t \in r.todo : TRUE
        to  == Others(t[1])
        rl2 == [n \in Deft |-> IF n \in to /\ t[2] \notin r.deft[n].certs
                               THEN r.relayed[n] \cup {t[2]} ELSE r.relayed[n]]
        d2  == [n \in Deft |-> IF n \in to
                               THEN AddRelayedChain(r.deft[n], t[2], r.deft[t[1]].certs)
                               ELSE r.deft[n]]
    IN  IF r.todo = {} THEN r
        ELSE [deft |-> d2, relayed |-> rl2,
              todo |-> (r.todo \ {t}) \cup UNION {Passed(n, r.deft[n], d2[n], rl2[n]) : n \in to}]

\* A cert is new to a store once, so there are at most so many calls of chainRecv
Calls == Cardinality(Deft \X Cert)

\* What there is, and is left to do, after k of them
ChainRecvs(d, rl, todo) ==
    LET r[k \in 0..Calls] == IF k = 0 THEN [deft |-> d, relayed |-> rl, todo |-> todo]
                             ELSE ChainRecvOne(r[k - 1])
    IN  r

\* Where the calls have left nothing to do
Settled(r) == r[CHOOSE k \in 0..Calls : r[k].todo = {}]

\* chainRecv for each of the certs in todo, and for those that are passed on in turn,
\* until none is left
ChainRecv(d, rl, todo) == Settled(ChainRecvs(d, rl, todo))
-------------------------------------------------------------------------------
(* Publications *)

\* Mutant: skipValidatePubs although schemas differ
IsAnyPub(s, x) == IF x[1] \in KeyPub THEN x[2] \in s.certs ELSE x[2] \in s.pv

\* isValidPub, or for a key distributor's publication publishKnownSigner. It is also
\* what a collection asks of a publication that arrives.
IsValidPub(s, x) ==
    IF x[1] \in KeyPub THEN x[2] \in s.certs ELSE x[2] \in s.pv /\ x[1] \in Fits[s.bs]

\* pubRecv and keyPubRecv, for the publications in X[n] that each DeftT n gets
PubRecv(d, X) ==
    [m \in Deft |-> pubs[m] \cup {x \in UNION {X[n] : n \in Others(m)} : IsValidPub(d[m], x)}]

\* Mutant: a subscription is for what comes later
RelaysFromNow(n, s) ==
    LET r == ChainRecv([deft EXCEPT ![n] = s], relayed, Passed(n, deft[n], s, relayed[n]))
    IN  deft' = r.deft /\ relayed' = r.relayed /\ UNCHANGED <<pubs, now, net, ignored>>

\* What follows once chains are relayed, which gives r: the process ends if n's model has
\* thrown, and a relay's DeftT that has got connected, n or one that was relayed a chain,
\* subscribes, which delivers what its key distributor's collection already has
Subscribes(n, s, r) ==
    LET h == Others(n) \cup {n}
        had == [k \in Deft |-> IF deft[k].starts = 0 /\ r.deft[k].starts > 0 THEN net[k] ELSE {}]
    IN  /\ deft' = [m \in Deft |-> IF m \in h /\ s.life = "dead"
                                   THEN [r.deft[m] EXCEPT !.life = "dead"] ELSE r.deft[m]]
        /\ relayed' = r.relayed
        /\ pubs' = PubRecv(r.deft, had)
        /\ UNCHANGED <<now, net, ignored>>

\* n's state becomes s, and what its callbacks do is done
Relays(n, s) ==
    Subscribes(n, s, ChainRecv([deft EXCEPT ![n] = s], relayed, Passed(n, deft[n], s, relayed[n])))
-------------------------------------------------------------------------------
\* main constructs and connects all DeftTs of a process, or exits
BootHost(n) ==
    LET h == Others(n) \cup {n}
        ok == \A m \in h : ValidateBootstrap(m)
    IN  /\ deft[n].life = "off"
        /\ deft' = [m \in Deft |-> IF m \notin h THEN deft[m]
                                   ELSE IF ok THEN Booted(m) ELSE [Off EXCEPT !.life = "dead"]]
        /\ UNCHANGED <<now, relayed, pubs, net, ignored>>

RelayDeliver(n, m, c) == Arrives(n, m, c) /\ Relays(n, Received(n, c))

RelayConfirm(n, m) ==
    /\ Up(n) /\ m \in Peers(n) /\ Arrived(n, m) # {}
    /\ Relays(n, InitialConfirmed(deft[n], Arrived(n, m)))

RelayKeyDistDone(n) == KeyDistStarted(n) /\ Relays(n, StartNext(deft[n]))

RelayGetNewSP(n, c) == Due(n) /\ c \in NewPairs[n] \ deft[n].used /\ Relays(n, NewSP(n, c))

\* An application, or its group key distributor, publishes p
Publish(n, p) ==
    /\ Origin[p] = n /\ Up(n) /\ \A x \in pubs[n] : x[1] # p
    /\ IF p \in KeyPub THEN deft[n].initDone ELSE deft[n].starts > 0
    /\ pubs' = [pubs EXCEPT ![n] = @ \cup {<<p, deft[n].signer>>}]
    /\ UNCHANGED <<deft, now, relayed, net, ignored>>

\* A collection of n gets x from m. One that does not validate is ignored from then on.
\* A relay gets it from the collection once it has subscribed.
Arrive(n, m, x) ==
    /\ Up(n) /\ m \in Peers(n) /\ x \in pubs[m] \ (pubs[n] \cup ignored[n])
    /\ x[1] \in KeyPub \/ deft[n].starts > 0
    /\ IF IsValidPub(deft[n], x)
       THEN /\ net' = [net EXCEPT ![n] = @ \cup {x}]
            /\ LET gets == [k \in Deft |-> IF k = n /\ deft[n].starts > 0 THEN {x} ELSE {}]
               IN  pubs' = [PubRecv(deft, gets) EXCEPT ![n] = @ \cup {x}]
            /\ UNCHANGED ignored
       ELSE /\ ignored' = [ignored EXCEPT ![n] = @ \cup {x}]
            /\ UNCHANGED <<net, pubs>>
    /\ UNCHANGED <<deft, now, relayed>>

RelayNext ==
    \E n \in Deft :
        \/ BootHost(n) \/ RelayKeyDistDone(n)
        \/ \E c \in NewPairs[n] : RelayGetNewSP(n, c)
        \/ \E m \in Peers(n) : \/ RelayConfirm(n, m)
                              \/ \E c \in deft[m].coll : RelayDeliver(n, m, c)
                              \/ \E x \in pubs[m] : Arrive(n, m, x)
        \/ \E p \in Pub : Publish(n, p)

RelaySpec == RelayInit /\ [][RelayNext]_vars
-------------------------------------------------------------------------------
\* The certs whose whole chain schema b has
Admits(b) == {c \in ChainAllowed[b] : \A d \in Signers[c] : d \in MatchesAny[b] \/ SelfSigned(d)}

\* The signers that n can validate and m's schema and trust anchor allow, m's own aside
Shared(n, m) ==
    {c \in deft[n].pv \ (deft[m].keys \cup Bootstrap[m]) :
        c \in ChainAllowed[SchemaOf[m]] /\ Admissible(m, c)}

\* A relay's DeftTs trust the same signers, as far as their schemas allow: when one
\* of them can validate publications of a peer, the others can in the same event, even
\* if certs of its chain came in any order or were pending on one side (addCb_,
\* addRelayedChain).
StoresInStep ==
    \A n \in Deft : \A m \in Others(n) : Up(n) => Shared(n, m) \subseteq deft[m].pv

\* Whatever a relay carries over, a network's collections hold no publication of a
\* signer, or of a form, that the network's own schema does not allow (publishValid).
WithinSchema ==
    \A n \in Deft : \A x \in pubs[n] : Origin[x[1]] # n =>
        /\ x[2] \in deft[n].certs
        /\ x[1] \in KeyPub \/ (x[2] \in Admits(SchemaOf[n]) /\ x[1] \in Fits[SchemaOf[n]])

\* What a connected relay has received on one network it has published on every other
\* network whose schema allows it (pubRecv, keyPubRecv): none is refused because the
\* signer's chain is late, or missed because it came before the relay subscribed.
NoneStranded ==
    \A n \in Deft : Up(n) /\ deft[n].starts > 0 =>
        \A m \in Others(n) : \A x \in net[n] :
            x[2] \in Shared(n, m) /\ x[1] \in KeyPub \cup Fits[SchemaOf[m]] => x \in pubs[m]

\* On a network of two, a DeftT never refuses what its peer publishes: the peer waits
\* until all of its bootstrap certs have arrived (initialPub), and arrived certs are in
\* the store, whatever their order.
FirstHopAccepts ==
    \A n \in Deft : \A x \in ignored[n] : 
        x[2] = FirstPair[Origin[x[1]]] => Network[Origin[x[1]]] # Network[n]
===============================================================================
