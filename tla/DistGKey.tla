-------------------------------- MODULE DistGKey --------------------------------
(***************************************************************************)
(* The distributors of group keys: of a symmetric key (dist_gkey.hpp) and  *)
(* of the key pair of a subscriber group (dist_sgkey.hpp). A candidate     *)
(* that wins the election (KMElection) makes the key and publishes it,     *)
(* encrypted for each member, in key lists ("gk", or "kr" for a pair);     *)
(* members that find nothing for them in a list ask to be members ("mr").  *)
(* A node without the capability to be in a subscriber group only          *)
(* publishes, and needs no more than the public key, which every list has. *)
(* The distributors differ where the model looks at scheme.                *)
(*                                                                         *)
(* A publication in the distributor's collection reaches every other node  *)
(* once (SyncPS), sooner or later, or not at all when its lifetime is      *)
(* shorter than that. A node's state is a record; functions of the source  *)
(* are operators on it, events of a node's loop are actions. A key stands  *)
(* for its maker and its creation time, taken from one clock.              *)
(***************************************************************************)
EXTENDS KMElection, FiniteSets, Functions

CONSTANTS Schemes,   \* the kinds of distributor ("GK" or "SG"), with the nodes that
                     \* are in the group or have the subscriber group capability
          MaxKR,     \* how many key records fit in a publication
          MaxKeys    \* bound on the keys made

ASSUME KeysAssumption == MaxKR \in Nat \ {0} /\ MaxKeys \in Nat
ASSUME SchemesAssumption ==
    Schemes \subseteq [kind : {"GK"}, subr : {Node}] \cup [kind : {"SG"}, subr : SUBSET Node]

VARIABLES scheme, \* what the schema makes dct_model use (constant)
          node,   \* node[n]: the state of n's DistGKey
          net,    \* net[n]: publications on their way to n's collection
          clock   \* the time of the last key made

vars == <<scheme, node, net, clock>>

NoKey == [km |-> 0, ct |-> 0]

\* m_tp is n itself; priority and epoch of el are those of m_kme. coll: the
\* publications from the net that are active in m_sync; out: those published
\* by the handler being executed; conf: those of its own whose delivery is to be
\* confirmed; met and offered: history (candidates heard
\* before the election was over, key records for n that were looked at).
InitNode(n) ==
    [up |-> FALSE, el |-> [priority |-> 0, epoch |-> 0], electing |-> FALSE,
     keyMaker |-> FALSE, KMepoch |-> 0, init |-> TRUE, mrPending |-> FALSE,
     kmtp |-> 0, curKeyCT |-> 0, curKey |-> NoKey, mbrList |-> {},
     subGk |-> FALSE, subMr |-> FALSE, rekey |-> FALSE,
     coll |-> {}, out |-> {}, conf |-> {}, met |-> {}, offered |-> {}]

Init == /\ scheme \in Schemes
        /\ node = [n \in Node |-> InitNode(n)]
        /\ net = [n \in Node |-> {}]
        /\ clock = 0
-------------------------------------------------------------------------------
\* m_subr, and m_sgMem of a thumbprint
IsSubr(n) == n \in scheme.subr

Candidate(n) == IsSubr(n) /\ Pri[n] > 0

PublishKM(n, s, topic) ==
    [s EXCEPT !.out = @ \cup {[type |-> topic, from |-> n, epoch |-> s.el.epoch]}]

\* publishMembershipReq; the refresh timer runs as long as mrPending
PublishMembershipReq(n, s) ==
    IF ~IsSubr(n) THEN s
    ELSE [s EXCEPT !.mrPending = TRUE,
                   !.out = @ \cup {[type |-> "mr", from |-> n]}]

InitDone(s) == [s EXCEPT !.init = FALSE, !.conf = {}]

\* publishKeyRange of the current key for the members in S, all of them between
\* lo and hi
PublishKeyRange(n, s, lo, hi, S) ==
    [s EXCEPT !.out = @ \cup {[type |-> "gk", from |-> n, epoch |-> s.KMepoch,
                               lo |-> lo, hi |-> hi, ct |-> s.curKeyCT,
                               key |-> s.curKey, tps |-> S]}]

\* The members in the i-th key list
Chunk(S, i) == {m \in S : Cardinality({k \in S : k < m}) \div MaxKR = i}

\* Mutant: the first list only
ChunksFirst(S) == {Chunk(S, 0)}

Chunks(S) == {Chunk(S, i) : i \in 0..Cardinality(S)} \ {{}}

Least(S) == CHOOSE m \in S : \A k \in S : m <= k

Greatest(S) == CHOOSE m \in S : \A k \in S : m >= k

\* The key lists of a key that was just made: an empty one still asserts the key
\* maker's role
KeyLists(n, s) ==
    IF s.mbrList = {} THEN PublishKeyRange(n, s, n, n, {}).out
    ELSE UNION {PublishKeyRange(n, s, Least(c), Greatest(c), c).out : c \in Chunks(s.mbrList)}

NewKey(n, s) == [s EXCEPT !.curKeyCT = clock + 1, !.curKey = [km |-> n, ct |-> clock + 1]]

\* makeGKey
MakeGKey(n, s) ==
    LET made == [NewKey(n, s) EXCEPT !.out = @ \cup KeyLists(n, NewKey(n, s))]
    IN  IF s.mbrList # {} THEN InitDone(made) ELSE made

\* makeSGKey: without members, it is enough that some node has the list
MakeSGKey(n, s) ==
    LET made == [NewKey(n, s) EXCEPT !.out = @ \cup KeyLists(n, NewKey(n, s))]
    IN  IF s.mbrList # {} THEN InitDone(made)
        ELSE [made EXCEPT !.conf = IF s.init THEN @ \cup (made.out \ s.out) ELSE @]

\* gkeyTimeout and sgkeyTimeout
GkeyTimeout(n, s) ==
    IF ~s.keyMaker THEN [s EXCEPT !.rekey = FALSE]
    ELSE [(IF scheme.kind = "GK" THEN MakeGKey(n, s) ELSE MakeSGKey(n, s)) EXCEPT !.rekey = TRUE]

\* A member is added, and gets the key there is
Join(n, s, m) ==
    LET t == [s EXCEPT !.mbrList = @ \cup {m}]
    IN  IF s.curKeyCT = 0 THEN t ELSE InitDone(PublishKeyRange(n, t, m, m, {m}))

Full(s) == Cardinality(s.mbrList) = 80 * MaxKR

\* addGroupMem of DistGKey
AddGroupMem(n, s, p) ==
    IF ~s.keyMaker \/ Full(s) \/ p.from \in s.mbrList THEN s ELSE Join(n, s, p.from)

\* addGroupMem of DistSGKey: a member that asks again gets the key again
AddSGroupMem(n, s, p) ==
    IF ~s.keyMaker \/ Full(s) \/ ~IsSubr(p.from) THEN s ELSE Join(n, s, p.from)

\* receiveGKeyList for a key maker: the largest thumbprint wins
Challenge(n, s, p) ==
    IF n < p.from
    THEN PublishMembershipReq(n, [s EXCEPT !.keyMaker = FALSE, !.kmtp = p.from, !.subMr = FALSE])
    ELSE s

\* The epoch and the key maker of a list
Recognise(s, p) ==
    LET e == IF p.epoch # s.KMepoch THEN [s EXCEPT !.KMepoch = p.epoch, !.kmtp = 0] ELSE s
    IN  IF e.kmtp < p.from THEN [e EXCEPT !.curKeyCT = 0, !.kmtp = p.from] ELSE e

\* Mutants: any key list for n is used, whatever its age; a list is enough to be
\* connected
TakeAnyKey(n, s, p) ==
    IF n \notin p.tps THEN Recognise(s, p)
    ELSE InitDone([Recognise(s, p) EXCEPT !.curKeyCT = p.ct, !.curKey = p.key, !.mrPending = FALSE])

TakeKeyHasty(n, s, p) == InitDone(TakeAnyKey(n, s, p))

\* receiveGKeyList for a member. (A list that has no key for n is meant to make it
\* renew its request, but the test compares with the creation time before that is
\* decoded.)
TakeKey(n, s, p) ==
    LET k == Recognise(s, p)
    IN  IF n < p.lo \/ n > p.hi THEN k
        ELSE LET o == [k EXCEPT !.offered = IF n \in p.tps THEN @ \cup {p.key} ELSE @]
             IN  IF p.ct <= k.curKeyCT \/ n \notin p.tps THEN o
                 ELSE InitDone([o EXCEPT !.curKeyCT = p.ct, !.curKey = p.key,
                                         !.mrPending = FALSE])

ReceiveGKeyList(n, s, p) ==
    IF Pri[p.from] = 0 THEN s
    ELSE IF s.keyMaker THEN Challenge(n, s, p)
    ELSE IF s.init /\ ~s.mrPending THEN PublishMembershipReq(n, s)
    ELSE TakeKey(n, s, p)

\* Mutant: a publisher looks for its own record
TakePublicKeyInRange(n, s, p) ==
    IF n < p.lo \/ n > p.hi THEN Recognise(s, p)
    ELSE InitDone([Recognise(s, p) EXCEPT !.curKeyCT = p.ct, !.curKey = p.key])

\* receiveSGKeyRecords for a node that only publishes: the public key is in each list
TakePublicKey(n, s, p) ==
    LET k == Recognise(s, p)
    IN  IF p.ct <= k.curKeyCT THEN k
        ELSE InitDone([k EXCEPT !.curKeyCT = p.ct, !.curKey = p.key])

ReceiveSGKeyRecords(n, s, p) ==
    IF Pri[p.from] = 0 THEN s
    ELSE IF s.keyMaker THEN Challenge(n, s, p)
    ELSE IF ~IsSubr(n) THEN TakePublicKey(n, s, p)
    ELSE IF s.init /\ ~s.mrPending THEN PublishMembershipReq(n, s)
    ELSE TakeKey(n, s, p)

\* What a subscription does with the publication p
Deliver(n, s, p) ==
    CASE p.type \in {"cand", "elec"} /\ ~Candidate(n) -> s
      [] p.type = "cand" /\ Candidate(n) ->
            [s EXCEPT !.el = HandleKMcand(n, @, p),
                      !.met = IF s.electing THEN @ \cup {p.from} ELSE @]
      [] p.type = "elec" /\ Candidate(n) -> [s EXCEPT !.el = HandleKMelec(@, p)]
      [] p.type = "mr" /\ ~s.subMr -> s
      [] p.type = "gk" /\ ~s.subGk -> s
      [] p.type = "mr" /\ s.subMr ->
            IF scheme.kind = "GK" THEN AddGroupMem(n, s, p) ELSE AddSGroupMem(n, s, p)
      [] p.type = "gk" /\ s.subGk ->
            IF scheme.kind = "GK" THEN ReceiveGKeyList(n, s, p) ELSE ReceiveSGKeyRecords(n, s, p)

OfType(s, type) == {p \in s.coll : p.type = type}

\* The states that n goes through as the publications o[1], o[2], .. o[c] are delivered
Delivering(n, s, o, c) ==
    LET st[i \in 0..c] == IF i = 0 THEN s ELSE Deliver(n, st[i - 1], o[i])
    IN  st

\* The possible states after a new subscription has got what is in the
\* collection, in the order of a hash table
AfterSubscribe(n, s, type) ==
    LET S == OfType(s, type)
        c == Cardinality(S)
    IN  {Delivering(n, s, o, c)[c] : o \in Bijection(1..c, S)}

\* Mutant: only those who lost listen to the key lists
EDoneDeaf(n, s, elected) ==
    LET gk == [s EXCEPT !.electing = FALSE, !.keyMaker = elected,
                        !.KMepoch = s.el.epoch, !.subGk = ~elected]
    IN  IF elected
        THEN {GkeyTimeout(n, u) : u \in AfterSubscribe(n, [gk EXCEPT !.subMr = TRUE], "mr")}
        ELSE AfterSubscribe(n, gk, "gk")

\* eDone. It subscribes to member requests, and starts the cycle of key making,
\* even if a key list in the collection has made it give up its role.
EDone(n, s, elected) ==
    LET gk == [s EXCEPT !.electing = FALSE, !.keyMaker = elected,
                        !.KMepoch = s.el.epoch, !.subGk = TRUE]
    IN  IF elected
        THEN UNION {{GkeyTimeout(n, u) : u \in AfterSubscribe(n, [t EXCEPT !.subMr = TRUE], "mr")} :
                       t \in AfterSubscribe(n, gk, "gk")}
        ELSE AfterSubscribe(n, gk, "gk")
-------------------------------------------------------------------------------
\* A publication matters to node m in state s when m has subscribed to it or
\* will (and, for the election's, when it is not over): others are not followed.
Matters(m, s, p) ==
    CASE p.type \in {"cand", "elec"} -> Candidate(m) /\ (~s.up \/ s.electing)
      [] p.type = "mr" -> Candidate(m) /\ (~s.up \/ s.electing \/ s.subMr)
      [] p.type = "gk" -> TRUE

\* Nor are the publications in a collection that have been delivered
Delivered(s, p) == s.up /\ CASE p.type \in {"cand", "elec"} -> TRUE
                             [] p.type = "mr" -> s.subMr
                             [] p.type = "gk" -> s.subGk

\* The handler leaves n in state s, with the publications in still to come; what
\* it published sets out for the others
Step(n, s, in) ==
    /\ node' = [node EXCEPT ![n] = [s EXCEPT !.out = {},
                   !.coll = {p \in @ : Matters(n, s, p) /\ ~Delivered(s, p)}]]
    /\ net' = [m \in Node |-> IF m = n THEN {p \in in : Matters(n, s, p)}
                              ELSE net[m] \cup {p \in s.out : Matters(m, node[m], p)}]
    /\ clock' = IF s.curKey.ct > clock THEN s.curKey.ct ELSE clock
    /\ UNCHANGED scheme

\* setup: a candidate starts an election, which may be lost at once
Setup(n) ==
    /\ ~node[n].up
    /\ LET s  == [node[n] EXCEPT !.up = TRUE]
           el == ElectionStart(n, OfType(s, "elec"), OfType(s, "cand"))
           c  == [s EXCEPT !.el = el, !.met = {p.from : p \in OfType(s, "cand")}]
       IN  \/ /\ Candidate(n) /\ Won(el)
              /\ Step(n, PublishKM(n, [c EXCEPT !.electing = TRUE], "cand"), net[n])
           \/ /\ Candidate(n) /\ ~Won(el)
              /\ \E t \in EDone(n, c, FALSE) : Step(n, t, net[n])
           \/ /\ ~Candidate(n)
              /\ \E t \in AfterSubscribe(n, [s EXCEPT !.subGk = TRUE], "gk") : Step(n, t, net[n])

\* The timer of the election
ElectionTimer(n) ==
    /\ node[n].electing
    /\ Won(node[n].el) => clock < MaxKeys
    /\ LET el == ElectionDone(node[n].el)
           s  == [node[n] EXCEPT !.el = el]
       IN  \E t \in EDone(n, IF Won(el) THEN PublishKM(n, s, "elec") ELSE s, Won(el)) : Step(n, t, net[n])

\* A publication arrives in n's collection
Arrive(n, p) ==
    /\ p \in net[n]
    /\ LET s == [node[n] EXCEPT !.coll = @ \cup {p}]
       IN  Step(n, IF s.up THEN Deliver(n, s, p) ELSE s, net[n] \ {p})

\* The refresh timer of a membership request
MrRefresh(n) == node[n].mrPending /\ Step(n, PublishMembershipReq(n, node[n]), net[n])

Rekey(n) == node[n].rekey /\ clock < MaxKeys /\ Step(n, GkeyTimeout(n, node[n]), net[n])

\* Candidacies and requests have short lifetimes: they expire on the way, or in
\* the collection
Expire(n, p) ==
    /\ p.type \in {"cand", "mr"}
    /\ \/ /\ p \in net[n]
          /\ net' = [net EXCEPT ![n] = @ \ {p}] /\ UNCHANGED node
       \/ /\ p \in node[n].coll
          /\ node' = [node EXCEPT ![n].coll = @ \ {p}] /\ UNCHANGED net
    /\ UNCHANGED <<scheme, clock>>

\* The delivery callback of an empty list: another node has it
Confirm(n) ==
    \E p \in node[n].conf :
        /\ \E m \in Node \ {n} : p \notin net[m]
        /\ Step(n, InitDone(node[n]), net[n])

Next == \E n \in Node : \/ Setup(n) \/ ElectionTimer(n) \/ MrRefresh(n) \/ Rekey(n) \/ Confirm(n)
                        \/ \E p \in net[n] : Arrive(n, p)
                        \/ \E p \in net[n] \cup node[n].coll : Expire(n, p)

Spec == Init /\ [][Next]_vars
-------------------------------------------------------------------------------
Elected(n) == node[n].up /\ ~node[n].electing /\ Won(node[n].el)

Beats(a, b) == Pri[a] > Pri[b] \/ (Pri[a] = Pri[b] /\ a > b)

\* Who wins an election is better, by priority and then thumbprint, than every
\* candidate it heard of before its election was over (handleKMcand): there are
\* two winners only if one did not hear the other in time.
WinnerIsBest == \A n \in Node : Elected(n) => \A m \in node[n].met : Beats(n, m)

KeyMakers == {n \in Node : node[n].keyMaker}

\* Even then, once the key lists have arrived only one of them is left
\* (receiveGKeyList: "another member claims to be a keyMaker - largest
\* thumbPrint wins").
OneKeyMaker ==
    (\A n \in Node, p \in UNION {net[m] : m \in Node} : p \in net[n] => p.type # "gk")
       => Cardinality(KeyMakers) <= 1

\* A distributor reports that it is connected only when it has a group key
\* (initDone), a maker of symmetric keys also only when it has a member.
ConnectedHasKey ==
    \A n \in Node : ~node[n].init =>
        node[n].curKey # NoKey /\ (scheme.kind = "GK" /\ node[n].keyMaker => node[n].mbrList # {})

\* The lists of the key maker may arrive in any order: a member never goes back
\* to an older key (creation times in receiveGKeyList). This needs a single key
\* maker: with two, a member that resets its creation time for a new maker takes
\* whatever list comes next.
NoOlderKey ==
    [][\A n \in Node : node'[n].curKey.km = node[n].curKey.km =>
                          node'[n].curKey.ct >= node[n].curKey.ct]_vars

\* "check if keymaker has a larger tp than my stored value [...], if so, (re)set
\* my saved value and cur key ct so I get a new key" (receiveGKeyList): a member
\* that was given a key by the key maker it recognises uses a key of that maker.
KeyAdopted ==
    \A n \in Node :
        ~node[n].keyMaker /\ (\E k \in node[n].offered : k.km = node[n].kmtp)
           => node[n].curKey.km = node[n].kmtp

\* Once the key lists have arrived, every member on the key maker's list has the
\* key maker's current key, however the lists are split (makeGKey), whenever it
\* joined (addGroupMem) and in whatever order they came. (One candidate; with two
\* see KeyAdopted.)
MembersHaveKey ==
    \A k \in KeyMakers : \A m \in node[k].mbrList :
        (\A p \in net[m] : p.type # "gk") => node[m].curKey = node[k].curKey

\* Fairness: requests are refreshed and key lists arrive, applications set up and
\* elections end, and a request that is refreshed again and again arrives in the
\* end.
Fairness ==
    \A n \in Node :
        /\ WF_vars(MrRefresh(n)) /\ WF_vars(Setup(n)) /\ WF_vars(ElectionTimer(n))
        /\ WF_vars(Confirm(n))
        /\ WF_vars(\E p \in net[n] : p.type = "gk" /\ Arrive(n, p))
        /\ \A m \in Node : SF_vars(\E p \in net[n] : p = [type |-> "mr", from |-> m] /\ Arrive(n, p))

FairSpec == Spec /\ Fairness

\* With a single candidate every node ends up connected, with the newest key: the
\* refresh of the membership requests (publishMembershipReq) makes up for lost ones, and
\* a subscriber group needs no member but its key maker (publishKeyRange with conf).
AllKeyed == <>[](\E k \in Node : /\ node[k].keyMaker
                                 /\ \A n \in Node : ~node[n].init /\ node[n].curKey = node[k].curKey)
===============================================================================
