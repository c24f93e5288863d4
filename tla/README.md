# A TLA+ verification of the Defined-trust Communications Toolkit

DCT is a library (header-only C++, `src/include/dct`) with which applications
on a broadcast network share *publications* that are signed according to a
schema. This directory holds TLA+ models of its concurrent and distributed
parts, the TLC configurations that check them on small instances, and proofs
checked by TLAPS. Line numbers are those of the sources under `src/`;
`PROJECT.json` maps every definition to its lines.

Contents: 1 the system, 2 the modules, 3 the runs, 4 fairness, 5 the proofs,
6 what the code and its comments disagree on, 7 what is not modelled, 8 the plan.

## 1. The system

A node is one application process with one thread: an asio event loop
(`default-io-context.hpp`) calls packet handlers and timer handlers one at a
time. Concurrency is between nodes, and between a node's timers, packets and
application. From the bottom up:

| part | source | state | operations |
|---|---|---|---|
| transport | `face/transport.hpp` | socket | send, receive callback, connect callback |
| face | `face/direct.hpp`, `lpm_tables.hpp`, `lpm.hpp` | RIT, PIT, DIT, a timer per PIT entry | addToRIT, express, send, handleInterest, handleData, interest timeout |
| IBLT | `syncps/iblt.hpp` | 57 cells | insert, erase, subtract, peel, run-length code |
| SyncPS | `syncps/syncps.hpp` | `pubs_` (map and iblt), `pubCbs_`, subscriptions, timers, nonce | start, publish, subscribe, unsubscribe, cState and cAdd handlers, expiry |
| signature managers | `sigmgrs/` | keys, decryption index, cached keys | sign, validate, decrypt, addKey |
| schema run-time | `schema/` | compiled schema, cert store, pending certs, validators | addCert, validate, build publications |
| cert distributor | `distributors/dist_cert.hpp` | a SyncPS, unconfirmed bootstrap certs | initialPub, publishCert, initDone |
| key maker election | `distributors/km_election.hpp` | priority, epoch | candidacy, result, timer |
| group key distributors | `distributors/dist_gkey.hpp`, `dist_sgkey.hpp` | a SyncPS, an election, key, members | setup, membership requests, key lists, re-keying |
| DCTmodel | `schema/dct_model.hpp` | all of the above | start-up chain, publish, signing pair renewal |
| shims | `shims/mbps.hpp`, `ptps.hpp` | messages being confirmed and reassembled | publish, subscribe, receive, confirm |
| relay, examples, tools | `examples/`, `tools/` | | |

How they interact: a SyncPS sends a *cState* (an interest whose name contains
the iblt of its collection) through the face. A peer that has local
publications the sender lacks answers with a *cAdd* (a data with the same name).
Certs, group keys and application publications each have a SyncPS of their own,
started one after the other by DCTmodel. The shim cuts messages into
publications and gathers their delivery callbacks.

What is hard here, and what a test would hardly reach:

- a timer's handler may be in the event loop's queue when the timer is
  cancelled or its table entry replaced;
- a node's silence is fatal: its next cState comes from the timeout of its last
  one, and several handlers erase that entry;
- what a delivery callback is told is inferred from other nodes' cStates, which
  are lost, repeated and late;
- map and iblt of a collection are changed by four kinds of timers;
- clocks differ, so how long a publication is remembered has to cover how long
  peers' copies are still acceptable;
- elections overlap, key lists arrive out of order, requests get lost;
- callbacks publish from inside the handlers that call them;
- segments of a message are confirmed, lost and reassembled in any order;
- certs arrive before their signers, and a node counts as connected by what it can
  infer about its peers' collections;
- a relay has to carry chains and publications to another network, with another
  schema, in whatever order they come.

The list with the lines concerned, and the property that covers each, is under
`hazards` in `PROJECT.json`.

## 2. The modules

    PubSub  <---implements--- SyncPS --EXTENDS--> Collection, FaceTables
      ^                       PubTimers --EXTENDS--> Collection
      | INSTANCE              DirectFace --EXTENDS--> FaceTables
     Mbps                     DistGKey --EXTENDS--> KMElection

    Relay --EXTENDS--> DCTModel --EXTENDS--> CertSchema <--EXTENDS-- PubNames
    IBLT, SigMgrKeys

`*_proofs` extend the module they are named after; those of DistGKey are in two
modules, `DistGKey_node_proofs` and `DistGKey_proofs`, which extends it, `Relay_proofs` also extends
`DCTModel_proofs`, `Timers_proofs` extends DirectFace and PubTimers, and `Algorithms_proofs` IBLT, PubNames and SigMgrKeys.
`MC*` give the constants of a run their values.

**Collection** has the value of `SyncPS::Collection`: the state of a map entry
(absent, local, from the network, held after expiry, erased) and the iblt as
what it encodes, the number of times each hash was inserted. `peel` returns the
hashes whose counts differ by one: a hash that is in the difference twice
cancels in the xor sums and never becomes pure. That all the others can be
peeled is the assumption that their number is within what the table is built for;
IBLT has the table itself.

**FaceTables** has the PIT as operators on a set of entries.

**SyncPS** composes, for every node, collection, PIT and the handlers of
`syncps.hpp` and `direct.hpp`. A C++ function is an operator from node states to
node states, so a call is an application: `OnCAdd` applies `HandlePending`
as `onCAdd` calls `handleCStates`. Events of the loop are actions: `Start`,
`Publish`, `RecvCState`, `RecvCAdd`, `RecvInvalid`, `RecvUnwanted`, `PitTimeout`,
`CStateTimer` and the timers of `addToActive` and `ignorePub`. Subscribers may
publish from inside `onCAdd`. Timers fire at any moment, except that those of one
publication keep their order. The network is a set of packets (see `Surviving`).
An entry that was erased counts as expired when it comes again: PubTimers shows
when that is justified (`NoRedelivery`).

**PubSub** is the abstract service: nodes publish, take over what others have,
and are told at most once what became of a publication, truthfully. SyncPS
implements it, Mbps runs on it.

**PubTimers** is one node's collection with time: the timestamp in the name,
`isExpired_`, the deadlines of `addToActive` and `ignorePub`, timers that fire late.

**DirectFace** is the face with the asio timers: `Expire` queues a handler,
`ItoCB` runs it, and cancelling in between has no effect. It shows what
FaceTables takes for granted, that each PIT entry has a timer that will fire.
The comment at `direct.hpp:242` says that a data for an entry not marked
`fromNet` is ignored; `send` does not test it, and neither does the model.
SyncPS only sends for names that came from the network.

**Mbps** is the message shim on both sides. A message is its id; its body is a
sequence of units, so that a segment copied to the wrong place shows. The
exception that `std::bitset::set` throws outside its width ends the node's run.

**KMElection** and **DistGKey**: the election as operators on priority and epoch,
the distributor as a record per node. A publication in the distributor's
collection reaches each other node once (what SyncPS provides), in any order, or
expires on the way where its lifetime is short (candidacies and requests; key
lists and election results live as long as a key, and arrive). Nodes are numbers
and compared as thumbprints; that the first four bytes of thumbprints, which
name the ranges of key lists, differ is an assumption. `Matters` and `Delivered` drop
publications that can have no effect any more, to keep the state space small.
The module has both distributors: `dist_sgkey.hpp` is a variant of `dist_gkey.hpp`, and
the variable `scheme` (constant in a behaviour) says which one runs and who is a
subscriber. In a subscriber group only subscribers are candidates and members
(`Candidate`, `IsSubr`), everybody takes the public key from any list (`TakePublicKey`), and a
key maker is connected by the confirmation of its first key list (`Confirm`).

**CertSchema** has the cert side of a compiled schema, as `validate_certs.hpp` uses it: patterns
of cert names, chains, and the correspondences a chain must satisfy. Chains follow from
`SignedBy`; what depends on constants only is a function, so that TLC computes it once.

**DCTModel** composes a DeftT's cert store (`certstore.hpp`), its cert distributor
(`dist_cert.hpp`) and the part of `dct_model.hpp` that admits certs, renews signing pairs and starts the
distributors one after the other. `AddCert` is `addCert` with everything it calls: the recursion with
`checkPendingCerts` is written as the set of pending certs it reaches (`Reached`), which
the code gets to one by one. A cert takes the way SyncPS provides: once to each
other DeftT on the network, in any order (`Deliver`), and its publisher may learn of it (`Confirm`).
An exception out of a timer's handler ends the process (`life`).

**Relay** composes several DCTModels in one process, as `basicRelay.cpp` does: `ChainRecv` and
`PubRecv` are what the callbacks of one `ptps` do to the others within the same event. A cert
that is passed on may be passed on in turn by the DeftT that gets it, so `chainRecv` calls itself through `addRelayedChain` and `addCb_`: the
calls are made one after the other (`ChainRecvOne`, `ChainRecvs`), at most as many as there are pairs of a DeftT and a cert (`Calls`), since a cert is
new to a store once. That this is enough of them is not assumed but proved (lemma `RecvEnds`). An incomplete chain would make `chain_for_each` throw, which ends
the loop over the other DeftTs as well; a cert in a store has its chain there (`CompleteChains`), so it does not happen.
A publication is a name and its signer; `Fits` says which names a schema has.

**IBLT** has the cells. Xor sums are the sets of keys that went in an odd number of
times, `keyCheck` is what makes a sum of several keys differ from a key. `peel` is run entry by entry, pass by pass,
in the order of the code. Where the keys' entries are is enumerated, not computed.

**PubNames** has `pubBldr` and `pubValidator`: templates made for a signing chain by merging and
sorting (`AddTemplate`, `SortTmplts`), names built from parameters, names checked. A value has a text and
bytes, since the builder compares texts and a name holds bytes. `DiscrimAssumption` is what the schema compiler puts out (`buildDiscrim`, `addPubDiscrim`): a
discriminator has values for a parameter of its template, none for one that is a literal there, or distinguishes nothing.

**SigMgrKeys** has the key lists of a receiver's signature manager, in both forms: a ring of two symmetric keys,
and two key pairs with a cached key for each publisher.

## 3. The runs

| run | instance | what it shows |
|---|---|---|
| `syncps_exchange` | 2 nodes, a publication of each, one with a callback; packets may come late, again, or never; cAdds may fail to validate | a started node never falls silent (`RefreshAlive`), confirmations are true (`ConfirmTruthful`), a callback's PIT entry is not erased under it (`CallbackSafe`) |
| `syncps_expiry` | 2 nodes, a publication with a lifetime that receivers may refuse | map, iblt and timers agree (`CollectionConsistent`), the service PubSub is implemented, time-outs included (`ImplementsPubSub`), `TypeOK` |
| `syncps_live` | a node with 2 publications, one fits in a cAdd, on a network that loses packets | publications reach every node, also those that had to wait for a later cAdd (`Converges`), callbacks are called (`Confirms`) |
| `face_tables` | 2 names, 2 nonces, a DIT of 2, 2 queued handlers per name | `PitTimed`, `NoRepeats`, `FlowBalance`, `TypeOK` |
| `pub_timers` | lifetime 1, skew 2, guard band 4, clock 0..7, an own and a foreign publication | `DeliveredOnce`, `IbltBalanced`, `ToldOnce`, `TypeOK` |
| `mbps` | messages of 3, 2 and 1 segments, 2 nodes, bitmaps of 3 bits | `TypeOK` (no bitmap is written outside its width), `DeliveredExact`, `ConfirmExact`, and `ConfirmCalledInside` for the messages below the largest size |
| `gkey_election` | both distributors, 2 candidates of equal priority, 1 other node, which only publishes in the subscriber group; 2 keys | `WinnerIsBest`, `OneKeyMaker`, `ConnectedHasKey` |
| `gkey_members` | both distributors, 1 candidate, 2 others, of whom 2, 1 or none are members; 2 keys, lists of one record, requests expire | `MembersHaveKey`, `NoOlderKey`, `AllKeyed` |
| `certs` | 2 DeftTs with chains of 2 and 3 certs below the anchor; one renews its signing pair, with a pair not valid yet and one whose chain the schema refuses | complete chains (`ChainsComplete`), validators for exactly the accepted signers (`ValidatorsExact`), no cert left pending or out for its order of arrival (`AllAdmitted`), every DeftT connects, and once (`Connects`, `ConnectedOnce`) |
| `relay` | sensor, relay with 2 DeftTs, controller; 2 schemas; 3 publications and one of a key distributor; a signing pair is renewed | the relay's stores are in step (`StoresInStep`), nothing crosses that the other schema does not have (`WithinSchema`), what may cross does (`NoneStranded`), peers do not refuse each other's publications (`FirstHopAccepts`) |
| `algorithms` | 4 hashes, one of which may be in a table twice, 12 placements in 6 cells; 5 schemas, 60 parameter choices, all names; 2 publishers, 3 keys | tables say what is in the collection (`TableExact`), `peel` finds the difference, also through the run-length code, and ends (`PeelExact`, `PeelEnds`); builder and validator of names agree (`NamesExact`); a ring of keys decrypts what its keys encrypted (`DecryptsRing`) |
| `ppaead_keys` | 2 publishers, 3 key pairs | a violation of `Decrypts`, see section 6 |

`algorithms` runs one of three unrelated sequential modules at a time; they share a run, not a state.

**Bounds, and why they are enough.** Two nodes have every role of the exchange
(publisher, receiver, peer with the same iblt, so that one PIT entry is both
expressed and from the network); a third only adds further packets, and what is
in the set of packets may be received at any time and again. With two publications
`have` and `need` can both be non-empty and a cAdd can be full (`CAddCap` 1).
`IgnoreMax` bounds how often one hash is being ignored at a time: once in SyncPS, while in
PubTimers, where the timers of the same hash differ in their deadlines, it happens several times. In `face_tables` two names share a prefix, and two
queued handlers are one more than a re-armed entry needs; a DIT of 2 evicts. The
skew is larger than the lifetime in `pub_timers`, which makes every order of
timestamp, arrival and timers occur within 7 ticks: a publication with the latest
acceptable timestamp can arrive, expire, be erased and come again. In `mbps` bodies of
5 and 3 units with 2 to a segment have a last segment of another length, whose order
of arrival matters; the first has as many segments as the bitmap has bits, the second fewer. The empty
message, which Mbps has too, is in no run. In the key distributor two candidates and a
member are the smallest group with a disputed role and someone to be served;
key lists of one record split the list of two members.

In `certs` the longer chain has three certs that may arrive in any order, so that a cert waits for one
that waits itself; the shorter one is signed by the anchor directly. Time has three values: before, in and
after the moment at which one pair expires and its successor becomes valid. In `relay` each network has two DeftTs, so every
publication is carried at most once; the schemas differ in a kind of publication each way and in a kind of
signer. The clock stands still there, since expiry is a matter of `certs`. In `algorithms` the placements
make keys share one or two entries, in chains, and hide each other completely; a cell in the code's table (57 in three
sub-tables) is shared in the same ways. A run of empty cells cannot get to the limit of 128 there or here.
The schemas have templates that are merged, that are disjoint, that differ in their distinguishing component and that have none.
Three keys are one more than a list holds.

Deadlock is checked in the runs of SyncPS and in `algorithms`, which never stop. In the others it is
not: a node's collection, face, messages, certs or key distributor may really come to rest
(everything confirmed, all timers fired, or a bound on clock or keys reached).

## 4. Fairness

`SyncPS!Fairness`: timers fire (`WF` of `CStateTimer`, and of `PitTimeout` for an entry the
node expressed). Such an entry is re-armed only by an interest of the same name,
which a peer sends once per refresh, so weak fairness is not too much to ask of
its timer. A packet that is sent again and again is received in the end (`SF`), and this
only for the two that every refresh sends again: the cState that describes the sender's
present collection and the cAdds that answer it. A network that loses every copy of
these can prevent any protocol from converging.

`DistGKey!Fairness`: set-up and elections end, the refresh timer of a pending request fires, key
lists, which live for a key's lifetime, arrive, and are confirmed, and a request that is refreshed for ever
arrives in the end.

`DCTModel!Fairness`: applications start, key distributors connect (`AllKeyed`), certs of a running peer arrive and are confirmed, which
is what `Converges` and `Confirms` show of the collection they are in. Timers of new signing pairs need no fairness: time does not
pass them.

`algorithms`: `peel` is a loop, so its next step is taken.

## 5. The proofs

The theorems hold for any number of nodes, publications, names and nonces, for any
lifetimes and either network, from the `ASSUME`s of the modules, which TLC
evaluates in every run. Hypotheses beyond these are part of the statement.

**SyncPS_proofs.** The inductive invariant `IInv` joins
`TypeOK`, `ConfirmTruthful` and two parts that are needed to carry them:

- `NodesInv`: at every node the iblt is the map and the ignored hashes, entries of
  `pubCbs_` are local and active, the node is alive in the sense of
  `RefreshAlive`, and each PIT entry that came from the network is named by a *vouched* iblt;
- `NetInv`: the name of each cState in flight is vouched, and a cAdd carries what some
  other node owns and has published.

An iblt is vouched for a node when each publication of that node it contains was taken by
some other node. That is what makes confirmations true: `handleCState` infers from such a
name that a publication arrived, at once for a received cState and later for an
entry in the PIT. The lemmas on operators say how each C++ function changes one
node's state (`Moves`); `StepInv` shows that a permitted change preserves `IInv`, and each
action is shown to make one. From it follow `TypeCorrect`, `CollectionsConsistent`,
`RefreshNeverStops`, `ConfirmationsTruthful` and `Refinement`, the last one with
`has` mapped to what a node published or took from a cAdd. `CallbacksSafe` is an action property: while `onCAdd` runs, with
whatever its subscribers publish, the PIT entry whose callback it is stays (`RecvCAddKeeps`), since `onCAdd` only erases entries of pending cStates that it answers
(`OnCAddPit`), and one whose deletion is deferred is not among them (`DeferredKept`).

**Timers_proofs**, on DirectFace. `FaceInv` adds to the checked properties that every interest the
application expressed or was given is in the DIT or was evicted (`Remembered`), which is why
a repeated one is noticed. Theorems: `FaceTypeCorrect`, `EntriesTimed`, `InterestsOnce`, `FlowBalanced`.

**Timers_proofs**, on PubTimers. `BInv`: the iblt has each active entry once, plus one for each running ignore
timer (the set of timers is finite, so that they can be counted). `TInv`: as
long as a callback waits, the timeout of its publication is set and comes before the
deactivation and the erasure, which is why nobody is forgotten. `DInv`: the
erasure of an entry is set for a time when `isExpired_` refuses the publication, if `GB >= 2 * Skew`
(a timestamp may be `Skew` ahead of the arrival, and copies are accepted until `Lifetime + Skew`
after it). Theorems: `TypeCorrect`, `IbltMatchesMap`, `CallbacksExact`, `NoRedelivery`.

**Mbps_proofs.** After the arithmetic of segments (how `publish` cuts a message, and that `sCnt` tells how many segments there are and
which one it is), there is one invariant for each side. `SendInv`, per message: the bits that are set are those of the segments confirmed
so far, the handler is registered until it is called, and the call that was made agrees with what became of the Publications. `RecvInv`, per node and message: the
buffer holds each segment that has come in its place, whichever came first and sized the buffer, and the bits say which; a buffer that has them all is the body.
Theorems: `BitsInside`, `ConfirmsExactly`, `ConfirmsAlways`, `DeliversExactly`.

**DistGKey_node_proofs**, **DistGKey_proofs.** The first is about the handlers of one node, the second about the nodes together and, in its second part, about a single candidate. Lemmas on the operators say what a callback may do to its node (`Goes`, `Takes`, `Makes`) and what an
event may (`Acts`); each action is shown to be such a step or the loss of a publication (`Handled`, `Lapses`). The invariant `Inv` has for each node what key, epoch, election and
publications have to do with each other (`NodeOK`), and for two nodes `Warned`: when two have won overlapping elections, a key list of the one with the larger thumbprint is on its
way to the other, or in its collection if it has not subscribed yet. This is why one is left (`OneMakerLeft`), and it holds because `setup` reads the lists that are
there before it makes a key, and whoever makes a key publishes a list. From `Inv` follow also `BestWins` and `KeyedWhenConnected`.
`MembersKeyed` and `KeysOnlyNewer` have a hypothesis, `Sole`: at most one node can be key maker. It is needed: with two, a member that resets its creation time for the other
one takes whatever list comes next, and `KeyAdopted` is false (section 6). Their invariant `SoleInv` says that a member on the list has the current
key or a list with it on the way whose range covers it, and has asked, so that it listens and will take it; and that no list is newer than the key maker's key.

**DCTModel_proofs.** `FoundedAssumption` (key locators are hashes of the signer's cert, so they make no circles) gives an induction up the signing
chain, with which chains are shown to be linear and to end at a trust anchor; `SchemaAssumption` is what `readChain` checks of a compiled schema. Each
operation has a lemma on what it changes (`...Effect`) and one on what it keeps (`...Good`). The invariant `IInv`, per DeftT: the store has the signer of each cert it has and only
certs that match the schema (`StoreOK`), validators are those of the signing certs it admitted (`PvOK`), what arrived and is not in
the store for lack of a signer is pending (`PendOK`), and `initDone` was run once and when due (`StartOK`). `Admission` needs one more induction: the first missing cert of a
chain, counted from the anchor, would be pending with its signer in the store. Theorems: `CompleteChains`, `ExactValidators`, `Admission`, `StartsOnce`.

**Relay_proofs.** For any number of processes, each with any number of DeftTs. Within one event, `Recving` and `Passing` hold between the calls of `chainRecv`: every store is sound, and a signing cert
in one store of the process is still to be passed on or is in each of the others that may have it. What is to be passed on together with the certs that stores still lack
(`Left`) gets smaller with every call, which is why the calls end (`RecvEnds`, with `RelayAssumption`: there are finitely many DeftTs) and leave the stores in step. Between
events the invariant `RInv` has `IInv` of DCTModel for all DeftTs, that those of a process start and end together (`Together`), that their stores are in step (`InStep`, which speaks
of the certs in the store and of those that were relayed, and is stronger than `StoresInStep`), that what came from the network has its signer in the store (`NetSigned`), and the checked
invariants. Theorems: `RelayStores`, `RelayWithinSchema`, `RelayNoneStranded`, and `RelayMembers`: all that is proved of a DeftT by itself holds when it is part of a relay.
`RelayFirstHop` has a hypothesis, `TwoOnNetwork`, which says what "a network of two" in `FirstHopAccepts` means: neighbours come in pairs with one schema and one trust anchor, have pairs of
their own and chains whose certs outlast the run, and applications publish what their schema has. The instance of the run satisfies it (checked by TLC). Its invariant `HopInv` adds
that a cert of the first chain that is not waited for any more has got to the neighbour (`Begun`), and that whatever is in a collection was published by an
application whose DeftT was through with that (`Published`); `Admission` then says that the neighbour has admitted the whole chain.

**Algorithms_proofs.** For any hashes, placements and size of the table. `TablesExact`: a table is that of its collection (`TableOf`), so `badPeers` finds no fault with a hash that is
there. `RoundTrip`: the invariant of the loop of `rlEncode` is that what it has written so far decodes to the entries seen so far. `PeelsExactly`: as long as the collections differ by at most one insertion of each
hash, the entries left in `peel`'s copy are exactly the table of the hashes not found yet (`LeftExact`), so a pure entry is one hash, on the side its count says; when
no entry is pure, each hash that is left shares all its entries, which is what `Core` is. `SizeAssumption` has the two limits that the comments
of `iblt.hpp` state: fewer than 128 entries, and counts that fit the byte they are encoded in. `RingDecrypts`: a receiver has at most two keys, and what the index points to is one of them.
`NamesAgree`: the invariant `NamesInv` says that the templates made so far are those of the discriminators seen so far and have exactly their values (`MadeOf`), which merging and sorting keep. So
a template matches if and only if a discriminator allows the parameters (`UsableExact`), a name that is built matches the template it was built from, and a name that is
accepted matches a template which its own components select. Two hypotheses are part of the statement, and the schemas of the run satisfy them. `StringsDistinguish`: distinguishing parameters are given as
strings (section 6). `OneShape`: for one signing chain, the templates of a publication do not differ outside its parameters. The compiler does not ensure it: a component that is not a parameter may be a
definition with alternatives. Parameters then do not tell the templates apart, and the builder always takes the first one that matches, while the validator accepts all; without the hypothesis the last
part of `NamesExact` does not hold.

Inductions over data (entries of a table, items of an encoding, publications of a subscription, certs of a chain) are made with sets: the numbers for which the claim fails would have
a least one (lemma `UpTo`, from the well-founded order of finite sets in the library, `FS_StrictSubsetOrderingWellFounded`); where a definition is a recursive
function, a first lemma (`EncodingDef`, `DecodingDef`, `DeliveringDef`, `ChainOfDef`, `AddingDef`, `ChainRecvsDef`, `AllNamesAre`) shows that there is a function as it asks for.

The invariants are definitions of the proof modules. Each was also checked by TLC on the instance of the component's run.

Only model-checked: the liveness properties (`Converges`, `Confirms`, `AllKeyed`,
`Connects`, `PeelEnds`), which need fairness and are beyond the prover.
Every other property of a passing run is a theorem.

## 6. Where code and comments disagree

One is a run of its own, with the details under `findings`:

- `ppaead_keys`: a subscriber that keeps two key pairs cannot decrypt a message under the older one if it is the first of its
  publisher (`sigmgr_ppaead.hpp:233`, and the same in `sigmgr_ppaeadsgn.hpp`). `computeDecKey` uses pair 0, the search starts at `m_decryptIndex`,
  which `addKey` has set to 1, so "the other pair" is 0 again. TLC's counterexample has 8 states: keys `<<2, 1>>`, index 1, a message
  under key 1 is tried twice with key 2. The comments say "start with last successful key" (line 245) and "try next
  key pair if there is one" (255). The ring of symmetric keys has no such case (`DecryptsRing`).

Three have a configuration that shows them; TLC reports the property violated:

- `tlc -config PubTimers_replay.cfg PubTimers` (`DeliveredOnce`): `pubExpirationGB` (`syncps.hpp:563`) accepts the clock skew as guard
  band. An entry from an origin whose clock is ahead is then erased `lifetime + skew` after its arrival, while `isExpired_` (line 186)
  accepts copies until `lifetime + skew` after its timestamp, which is later: it comes back and is delivered again. The comment at line 229
  says that entries are kept "to prevent a peer with a late clock giving it back to us as soon as we delete it". The
  default, twice the skew, is enough (theorem `NoRedelivery`).
- `tlc -config Mbps_full.cfg MCMbps` (`ConfirmCalled`): the sender marks segment k as bit k of a `bitset<64>` (`mbps.hpp:241`), so the last
  segment of a message of `MAX_SEGS` = 64 segments throws; `publish` accepts such a message ("64 fits in an int bitset", line 303), and
  line 270 promises that the handler "gets called either when all segments of a message were published or if any segments timed out".
- `tlc -config DistGKey_adopt.cfg MCDistGKey` (`KeyAdopted`): a key maker that resigns (`dist_gkey.hpp:239`) stores the other one's
  thumbprint but keeps the creation time of its own key, so the test at 269 does not reset it and an older key of its successor is refused at 302.
  The comment at 266 says "if so, (re)set my saved value and cur key ct so I get a new key".

The others are smaller:

- `ignorePub` (`syncps.hpp:510`) puts a hash in the iblt but not in the map, and
  again when it comes again; the comment at line 106 promises that they agree, the XXX at 506 knows.
- The confirmation handler of an empty message is not registered (`mbps.hpp:314`): `ConfirmCalled` fails for it too.
- A confirmation after a timeout recreates a bitmap that is never erased (`mbps.hpp:241`, comment at 237).
- A creation time is compared before it is decoded (`dist_gkey.hpp:287`, `dist_sgkey.hpp:318`), so the renewal of a membership it guards never happens.
- `getNewSP` builds an exception for an expired cert and does not throw it (`dct_model.hpp:178`). The delay until a new pair is valid is cut to
  milliseconds (line 202), so its timer may fire early: `cs_.add` then refuses the cert, and the pair is used for signing though the
  store, and so the peers, do not have it. `AddKPDue` has the case; no property asks for the signing cert to be in the store.
- Any accepted cert counts as a peer (`dist_cert.hpp:106`), while the comment at 121-123 asks for the entire signing chain of one. `FirstHopAccepts`
  shows that what the first publications need is there all the same on a network of two.
- More than 64 pending certs drop none (`dct_model.hpp:146-148`). Certs that have expired are never taken out of the store.
- `validateBootstrap` takes the last cert of the identity chain (`validate_bootstrap.hpp:122`) without a test that there is one; every DeftT of the runs has one.
- A publication that arrives before its signer's chain is ignored for as long as it lives, while its sender is told that it arrived. A relay
  avoids it for its own hop (`StoresInStep`); with several hops it can happen to a renewed signing cert (see the condition in `FirstHopAccepts`).
- Hashes that are in one table twice more than in the other are not found by `peel`, and may make it report another key (hence the condition in `PeelExact`).
- `operator==` of iblts compares as many bytes as there are entries (`iblt.hpp:284`); nothing in `syncps.hpp` uses it.
- The builder compares distinguishing parameters as text, the validator as bytes: a number given for one builds a name that is refused. `NamesExact` has
  strings there.
- `newTok` admits an index that looks like an anonymous component, and `pTmplt::vs_` has 64 bits though token values go up to 127 (`buildpub.hpp:170`, `:75`).
- `iso8601` formats the ISO week-based year together with month and day (`rpacket.hpp:228-252`), which differ around New Year.

## 7. What is not modelled, and why

- In SyncPS: the delayed cAdd of others' publications (`syncps.hpp:434-437`), which the default
  `orderPub_` never takes; `abort` on a publication larger than a packet (line 421); collisions of hashes.
  `ignorePub` uses `pubLifetime_` where `addToActive` uses `getLifetime_`: PubTimers has the default, where they are equal.
- In DistGKey: replacement of the signing key (`updateSigningKey`: the thumbprint by which others know a member or the
  key maker changes), `removeGroupMem`, which nothing calls, members whose cert expires, the
  relay's exclusion (line 482); the refusal of epochs above 1 (line 258), which no node produces. `initDone` and the key
  callbacks towards the signature managers are reduced to flags.
- In DCTModel: certs as files and their making (`signed_cert.hpp`, `cert_bundle.hpp`), capability lookup (`capability.hpp`), and that a new
  signing pair is passed to the key distributors. Signatures are genuine.
- In Relay: the counters of delivery confirmations and `skipValidatePubs`, both switched off in `basicRelay.cpp`.
- In PubNames: names with a different number of components, which both sides refuse; parameters that are missing and have no default.
- In SigMgrKeys: nonces and the ciphers.
- In Mbps: the collision of two message ids.
- A subscriber that publishes while `subscribe` iterates over `pubs_` (`syncps.hpp:307`): DistGKey has the case, with the
  iteration undisturbed; what a rehash would do is not defined by the code.
- The schema compiler (`src/tools/compiler`): a batch program; what it computes is the constants of CertSchema and PubNames.
- Reading of the binary schema (`rdschema.hpp`), socket I/O, cryptographic primitives (validation and decryption are inputs), TLV encoding, and
  the tools and examples: sequential code without state that a property could relate, or users of what is modelled.

Most lines under `src/` are not DCT's: of 56,000 lines 39,000 are the libraries `date` and `fmt`, and 7,000 of the rest are
tools, examples and experiments. The modules stand for some 2,770 lines, most of what keeps state in `src/include/dct`.

## 8. Plan

1. `updateSigningKey` of the key distributors, composed with the renewal of signing pairs in DCTModel.
2. Relays in a row and in a ring: at-most-once delivery through several of them.
3. `FirstHopAccepts` on networks of more than two, which asks for what a DeftT may infer from one peer's cState about the others.
