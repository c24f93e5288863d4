------------------------------ MODULE CertSchema ------------------------------
(***************************************************************************)
(* The certificate part of a compiled schema: which names a cert may have, *)
(* which chains of certs may sign publications, and which components of    *)
(* the names in a chain must be equal (validate_certs.hpp). A cert stands  *)
(* for its thumbprint; it is signed by the cert its key locator names.     *)
(***************************************************************************)
EXTENDS Naturals, Sequences, FiniteSets

CONSTANTS Cert,
          SignedBy,   \* SignedBy[c]: c's key locator, c itself if self-signed
          CertName,   \* CertName[c]: c's name, a sequence of components
          Schema,     \* the certs that contain a schema b, with its parts:
          CertT,      \* CertT[b], cert_: names of certs, the trust anchor's last
          ChainT,     \* ChainT[b], chain_: sequences of indices in cert_
          Discrim     \* Discrim[b]: a set of [cbm |-> chains, cor |-> correspondences]

ASSUME SignedByAssumption == SignedBy \in [Cert -> Cert] /\ Schema \subseteq Cert

\* A key locator is the thumbprint, a hash, of the signer: locators do not go round in
\* circles, and among any certs there is one whose signer is not another of them
ASSUME FoundedAssumption ==
    /\ IsFiniteSet(Cert)
    /\ \A S \in SUBSET Cert : S # {} => \E c \in S : SignedBy[c] \notin S \ {c}

\* What readChain of rdschema.hpp checks: chains are indices in cert_, in ascending order
ASSUME SchemaAssumption ==
    \A b \in Schema : \A i \in DOMAIN ChainT[b] :
        /\ Len(CertT[b]) \in Nat /\ ChainT[b][i] \in Seq(1..Len(CertT[b]))
        /\ \A j, k \in DOMAIN ChainT[b][i] : j < k => ChainT[b][i][j] < ChainT[b][i][k]

Wild == "_"           \* a component of a template that is not a literal

SelfSigned(c) == SignedBy[c] = c

\* chainIter: c, its signer, the signer's signer ... up to the trust anchor
ChainOf[c \in Cert] == IF SelfSigned(c) THEN <<c>> ELSE <<c>> \o ChainOf[SignedBy[c]]

\* The certs above c in its chain
Signers == [c \in Cert |-> {d \in Cert \ {c} : \E i \in DOMAIN ChainOf[c] : ChainOf[c][i] = d}]

\* chainNames
ChainNames(c) == [i \in DOMAIN ChainOf[c] |-> CertName[ChainOf[c][i]]]

\* matches, with matchesPrefix
Matches(name, t) ==
    /\ Len(name) = Len(t)
    /\ \A i \in DOMAIN t : t[i] # Wild => name[i] = t[i]

\* matchesAny: the certs that have a name of the schema, not the trust anchor's
MatchesAny == [b \in Schema |->
    {c \in Cert : \E i \in 1..Len(CertT[b]) - 1 : Matches(CertName[c], CertT[b][i])}]

\* matchesAll
MatchesAll(b, names, chain) ==
    /\ Len(names) = Len(chain)
    /\ \A i \in DOMAIN chain : Matches(names[i], CertT[b][chain[i]])

\* matchesChain: the chains of the schema that c's chain matches
MatchesChain(b, c) == {i \in DOMAIN ChainT[b] : MatchesAll(b, ChainNames(c), ChainT[b][i])}

\* validateChainCors: certs of a chain are numbered from 1, 0 is the publication
ValidateChainCors(names, cor) ==
    \A e \in cor : e.n1 > 0 => names[e.n1][e.c1] = names[e.n2][e.c2]

\* The certs whose chain the schema allows; the correspondences looked at are
\* those of the first of its chains that matches
ChainAllowed == [b \in Schema |->
    {c \in Cert :
       LET first == CHOOSE i \in MatchesChain(b, c) : \A j \in MatchesChain(b, c) : i <= j
       IN  /\ MatchesChain(b, c) # {}
           /\ \A d \in Discrim[b] : first \in d.cbm => ValidateChainCors(ChainNames(c), d.cor)}]

\* validateChain; it throws when a cert of the chain is not in the store
ValidateChain(b, store, c) == Signers[c] \subseteq store /\ c \in ChainAllowed[b]

\* isSigningCert: a name like that of the first cert of some chain
IsSigningCert == [b \in Schema |->
    {c \in Cert : \E i \in DOMAIN ChainT[b] :
                     ChainT[b][i] # <<>> /\ Matches(CertName[c], CertT[b][ChainT[b][i][1]])}]
===============================================================================
