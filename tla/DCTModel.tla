------------------------------- MODULE DCTModel -------------------------------
(***************************************************************************)
(* How a transport instance (DeftT) gets to trust the others: its certs    *)
(* and theirs (certstore.hpp), the distributor of certs (dist_cert.hpp),   *)
(* and the part of the model that admits certs, renews its own signing     *)
(* pair and starts up (dct_model.hpp).                                     *)
(*                                                                         *)
(* The collection of certs is a PubSub: a cert one DeftT has in its        *)
(* collection reaches the others on its network once each, in any order,   *)
(* and a DeftT may then learn that it did. Functions of the source are     *)
(* operators on the record of a DeftT's state, events of its loop are      *)
(* actions. Signatures are genuine. Time is a clock with the resolution of *)
(* validity periods.                                                       *)
(***************************************************************************)
EXTENDS CertSchema

CONSTANTS Deft,
          Network,     \* Network[n]: the network n's face is on
          SchemaOf,    \* SchemaOf[n]: the schema in n's bootstrap bundle
          Bootstrap,   \* Bootstrap[n]: trust anchor, schema and identity chain
          FirstPair,   \* FirstPair[n]: n's first signing cert
          NewPairs,    \* NewPairs[n]: what n's signIdCb may return later on
          From, Until, \* validity period of a cert
          KeyDists,    \* KeyDists[n]: how many group key distributors n's start up waits for
          MaxTime      \* bound on the clock

ASSUME TimeAssumption ==
    /\ MaxTime \in Nat /\ KeyDists \in [Deft -> 0..2]
    /\ From \in [Cert -> 0..MaxTime + 1] /\ Until \in [Cert -> 0..MaxTime + 1]
ASSUME TrustAssumption ==
    \A n \in Deft : /\ SchemaOf[n] \in Schema /\ Bootstrap[n] \subseteq Cert
                    /\ FirstPair[n] \in Cert \ Bootstrap[n] /\ NewPairs[n] \subseteq Cert

VARIABLES deft,   \* deft[n]: the state of n's DCTmodel
          now

dctVars == <<deft, now>>

NoCert == "none"

\* life: of the process; bs: bs_; certs, keys, chains: of the certStore (keys: the certs
\* with a secret key); pending: pending_; pv: certs with a publication validator;
\* initialPubs, havePeer, initDone: of DistCert; coll: its collection; signer:
\* the cert of the signature managers' key; rekeyAt: when getNewSP is called;
\* next: the pair that waits for its validity period; used: the pairs signIdCb has
\* returned; waiting: the start up
\* phases to come; starts: how often m_sync was started.
Off == [life |-> "off", bs |-> NoCert, certs |-> {}, keys |-> {}, chains |-> <<>>, pending |-> {},
        pv |-> {}, initialPubs |-> {}, havePeer |-> FALSE, initDone |-> FALSE,
        coll |-> {}, signer |-> NoCert, rekeyAt |-> 0, next |-> NoCert, used |-> {},
        waiting |-> 0, starts |-> 0]

Valid(c) == From[c] <= now /\ now <= Until[c]

Init == /\ deft = [n \in Deft |-> Off]
        /\ now = 0
-------------------------------------------------------------------------------
(* DistCert *)

\* start: the certs, then the group key distributors in turn, then m_sync
StartNext(s) ==
    IF s.waiting = 0 THEN [s EXCEPT !.starts = @ + 1] ELSE [s EXCEPT !.waiting = @ - 1]

InitDone(s) == StartNext([s EXCEPT !.initDone = TRUE])

\* Mutant: done again with every cert
PublishCertAgain(s, c) ==
    LET h == [s EXCEPT !.havePeer = TRUE, !.coll = @ \cup {c}]
    IN  IF s.initialPubs = {} THEN InitDone(h) ELSE h

\* publishCert
PublishCert(s, c) ==
    LET h == [s EXCEPT !.havePeer = TRUE, !.coll = @ \cup {c}]
    IN  IF ~s.initDone /\ s.initialPubs = {} THEN InitDone(h) ELSE h

\* Mutant: leaves it to publishCert to notice
InitialConfirmedSilently(s, S) == [s EXCEPT !.initialPubs = @ \ S]

\* Mutant: any confirmation will do
InitialConfirmedAny(s, S) ==
    IF s.havePeer /\ ~s.initDone THEN InitDone([s EXCEPT !.initialPubs = @ \ S])
    ELSE [s EXCEPT !.initialPubs = @ \ S]

\* The delivery callbacks of initialPub, for the certs in S
InitialConfirmed(s, S) ==
    LET t == [s EXCEPT !.initialPubs = @ \ S]
    IN  IF t.havePeer /\ t.initialPubs = {} THEN InitDone(t) ELSE t
-------------------------------------------------------------------------------
(* certStore and DCTmodel *)

\* certStore::add, with finishAdd and the callback addCb_
Add(s, c) ==
    IF ~Valid(c) \/ c \in s.certs THEN s
    ELSE PublishCert([s EXCEPT !.certs = @ \cup {c}], c)

\* add with a secret key
AddPair(s, c) ==
    IF ~Valid(c) \/ c \in s.certs THEN s ELSE [Add(s, c) EXCEPT !.keys = @ \cup {c}]

\* insertChain
InsertChain(s, c) == [s EXCEPT !.chains = SubSeq(<<c>> \o @, 1, 2)]

\* What addCert asks of a cert before it looks for the cert's signer
WellFormed(b, c) ==
    Valid(c) /\ c \in MatchesAny[b] /\ ~SelfSigned(c) /\ c \notin Schema

\* Mutant: only the certs that c itself has signed
ReachedOnce(s, c) == {p \in s.pending : SignedBy[p] = c}

\* The certs that addCert and checkPendingCerts, calling each other, take from
\* pending_ once c is in the store: those with c among their signers, where no
\* cert in between is missing, refused or a signing cert
Reached(s, c) ==
    {p \in s.pending : /\ c \in Signers[p]
                      /\ \A q \in Signers[p] : c \in Signers[q] =>
                            /\ q \in s.pending \ s.certs
                            /\ WellFormed(s.bs, q) /\ q \notin IsSigningCert[s.bs]}

\* checkPendingCerts
CheckPendingCerts(s, c) ==
    LET out == Reached(s, c)
        ok  == {p \in out \ s.certs :
                  /\ WellFormed(s.bs, p)
                  /\ p \in IsSigningCert[s.bs] => ValidateChain(s.bs, s.certs \cup out, p)}
    IN  [s EXCEPT !.pending = @ \ out, !.certs = @ \cup ok, !.coll = @ \cup ok,
                  !.pv = @ \cup (ok \cap IsSigningCert[s.bs])]

\* Mutant: a cert is taken without its signer
AddCertUnsigned(s, c) ==
    IF c \in s.certs \/ ~WellFormed(s.bs, c) THEN s ELSE CheckPendingCerts(Add(s, c), c)

\* Mutant: the chain of a signing cert is not validated
AddCertUnchained(s, c) ==
    IF c \in s.certs \/ ~WellFormed(s.bs, c) THEN s
    ELSE IF SignedBy[c] \notin s.certs THEN [s EXCEPT !.pending = @ \cup {c}]
    ELSE IF c \notin IsSigningCert[s.bs] THEN CheckPendingCerts(Add(s, c), c)
    ELSE [Add(s, c) EXCEPT !.pv = @ \cup {c}]

\* addCert
AddCert(s, c) ==
    IF c \in s.certs \/ ~WellFormed(s.bs, c) THEN s
    ELSE IF SignedBy[c] \notin s.certs THEN [s EXCEPT !.pending = @ \cup {c}]
    ELSE IF c \notin IsSigningCert[s.bs] THEN CheckPendingCerts(Add(s, c), c)
    ELSE IF ValidateChain(s.bs, s.certs, c) THEN [Add(s, c) EXCEPT !.pv = @ \cup {c}]
    ELSE s

\* addKP of getNewSP: what it throws ends the process
AddKP(s, c) ==
    LET t == AddPair(s, c)
    IN  IF ValidateChain(t.bs, t.certs, c) THEN [InsertChain(t, c) EXCEPT !.signer = c]
        ELSE [t EXCEPT !.life = "dead"]

\* The store after validateBootstrap: an invalid cert is not added
BootStore(n) == {c \in Bootstrap[n] \cup {FirstPair[n]} : Valid(c)}

\* validateBootstrap and the constructor do not throw: the certs are the trust anchor,
\* a schema that it signed, and a chain from it to the signing cert
ValidateBootstrap(n) ==
    /\ Bootstrap[n] = Signers[FirstPair[n]] \cup {SchemaOf[n]}
    /\ SignedBy[SchemaOf[n]] \in Signers[FirstPair[n]] /\ SelfSigned(SignedBy[SchemaOf[n]])
    /\ Signers[FirstPair[n]] \cup {FirstPair[n]} \subseteq BootStore(n)
    /\ \A c \in Bootstrap[n] \cup {FirstPair[n]} :
          IF SelfSigned(c) THEN Matches(CertName[c], CertT[SchemaOf[n]][Len(CertT[SchemaOf[n]])])
          ELSE c = SchemaOf[n] \/ c \in MatchesAny[SchemaOf[n]]
    /\ ValidateChain(SchemaOf[n], BootStore(n), FirstPair[n])
-------------------------------------------------------------------------------
Up(n) == deft[n].life = "up"

Become(n, s) == deft' = [deft EXCEPT ![n] = s] /\ UNCHANGED now

\* The constructor, then start
Booted(n) ==
    LET c == FirstPair[n]
        s == BootStore(n)
    IN  IF ValidateBootstrap(n)
        THEN [Off EXCEPT !.life = "up", !.bs = SchemaOf[n], !.certs = s, !.keys = {c},
                         !.chains = <<c>>, !.initialPubs = s, !.coll = s, !.signer = c,
                         !.rekeyAt = Until[c] - 1, !.waiting = KeyDists[n]]
        ELSE [Off EXCEPT !.life = "dead"]

Boot(n) == deft[n].life = "off" /\ Become(n, Booted(n))

Peers(n) == {m \in Deft \ {n} : Network[m] = Network[n] /\ deft[m].life # "off"}

\* The collection of certs gets c from m, and delivers it to addCert
Arrives(n, m, c) == Up(n) /\ m \in Peers(n) /\ c \in deft[m].coll \ deft[n].coll

Received(n, c) == AddCert([deft[n] EXCEPT !.coll = @ \cup {c}], c)

Deliver(n, m, c) == Arrives(n, m, c) /\ Become(n, Received(n, c))

\* A cState of m shows what has arrived
Arrived(n, m) == deft[n].initialPubs \cap deft[m].coll

Confirm(n, m) ==
    /\ Up(n) /\ m \in Peers(n) /\ Arrived(n, m) # {}
    /\ Become(n, InitialConfirmed(deft[n], Arrived(n, m)))

\* A group key distributor is connected
KeyDistStarted(n) == Up(n) /\ deft[n].initDone /\ deft[n].starts = 0

KeyDistDone(n) == KeyDistStarted(n) /\ Become(n, StartNext(deft[n]))

Due(n) == Up(n) /\ deft[n].rekeyAt <= now /\ NewPairs[n] \ deft[n].used # {}

\* getNewSP, shortly before the signing cert expires
NewSP(n, c) ==
    LET s == [deft[n] EXCEPT !.rekeyAt = Until[c] - 1, !.used = @ \cup {c}]
    IN  IF From[c] > now THEN [s EXCEPT !.next = c] ELSE AddKP(s, c)

GetNewSP(n, c) == Due(n) /\ c \in NewPairs[n] \ deft[n].used /\ Become(n, NewSP(n, c))

\* The timer for a pair that was not valid yet. Its delay is cut to milliseconds,
\* so it may go off just before the validity period.
AddKPDue(n) == Up(n) /\ deft[n].next # NoCert /\ From[deft[n].next] <= now + 1

AddedKP(n) == AddKP([deft[n] EXCEPT !.next = NoCert], deft[n].next)

AddKPTimer(n) == AddKPDue(n) /\ Become(n, AddedKP(n))

\* Time passes, but not a timer that is due
Tick ==
    /\ now < MaxTime /\ now' = now + 1 /\ UNCHANGED deft
    /\ \A n \in Deft : ~Due(n) /\ (Up(n) /\ deft[n].next # NoCert => From[deft[n].next] > now)

DeftNext(n) == \/ Boot(n) \/ KeyDistDone(n) \/ AddKPTimer(n)
               \/ \E m \in Peers(n) : Confirm(n, m) \/ \E c \in deft[m].coll : Deliver(n, m, c)
               \/ \E c \in NewPairs[n] : GetNewSP(n, c)

Next == Tick \/ \E n \in Deft : DeftNext(n)

Spec == Init /\ [][Next]_dctVars
-------------------------------------------------------------------------------
\* Every signing chain in a certStore is complete and ends in the trust anchor,
\* so that following key locators (chainIter) never fails, and the cert is one
\* the schema has. A secret key is kept only with its cert.
ChainsComplete ==
    \A n \in Deft : Up(n) =>
        /\ deft[n].keys \subseteq deft[n].certs
        /\ \A c \in deft[n].certs :
              /\ SignedBy[c] \in deft[n].certs
              /\ SelfSigned(c) => c \in Bootstrap[n] \cup deft[n].keys
              /\ SelfSigned(c) \/ c \in Schema \/ c \in MatchesAny[SchemaOf[n]]

\* Publications are validated for exactly the peers' signing certs in the store
\* (setupPubValidator), and every one of them heads a chain that the schema
\* allows, correspondences included. A new pair of n's own was put in the store
\* before its chain was looked at (getNewSP).
ValidatorsExact ==
    \A n \in Deft :
        /\ deft[n].pv = {c \in deft[n].certs \ (deft[n].keys \cup Bootstrap[n]) :
                           c \in IsSigningCert[SchemaOf[n]]}
        /\ \A c \in deft[n].pv : ValidateChain(SchemaOf[n], deft[n].certs, c)

Lasting == {c \in Cert : Until[c] > MaxTime}

\* What n's schema and trust anchor ask of c and its chain; no signer of c is itself a
\* signing cert ("nothing can be pending on a signing cert")
Admissible(n, c) ==
    /\ Signers[c] \cup {c} \subseteq Lasting /\ Signers[c] \cap IsSigningCert[SchemaOf[n]] = {}
    /\ \A d \in Signers[c] \cup {c} : IF SelfSigned(d) THEN d \in Bootstrap[n]
                                       ELSE WellFormed(SchemaOf[n], d)
    /\ c \in IsSigningCert[SchemaOf[n]] => c \in ChainAllowed[SchemaOf[n]]

\* Certs arrive in any order, yet a store holds every cert that it should hold
\* given what has arrived (addCert: "Since certs can arrive in any order, a small
\* number of certs are held pending their signing cert's arrival"): a cert of the
\* schema whose signers up to n's trust anchor have all arrived, and which does not
\* expire meanwhile.
AllAdmitted ==
    \A n \in Deft : Up(n) => \A c \in deft[n].coll :
        Signers[c] \subseteq deft[n].coll /\ Admissible(n, c) => c \in deft[n].certs

\* A DeftT is connected at most once, and only after all of its bootstrap certs
\* have reached a peer (initDone is called both by publishCert and by the
\* delivery callbacks): m_sync and the key distributors are set up once.
ConnectedOnce ==
    \A n \in Deft : /\ deft[n].starts <= 1
                    /\ deft[n].initDone => deft[n].initialPubs = {} /\ deft[n].havePeer

\* Fairness: applications start, certs get through, and so do confirmations
Fairness ==
    \A n \in Deft :
        /\ WF_dctVars(Boot(n)) /\ WF_dctVars(KeyDistDone(n))
        /\ WF_dctVars(\E m \in Deft : Up(m) /\ \E c \in deft[m].coll : Deliver(n, m, c))
        /\ WF_dctVars(\E m \in Deft : Up(m) /\ Confirm(n, m))

FairSpec == Spec /\ Fairness

Dead == \E n \in Deft : deft[n].life = "dead"

\* Unless an invalid signing pair ends one of them, all DeftTs connect.
Connects == \A n \in Deft : <>(deft[n].starts = 1 \/ Dead)
===============================================================================
