------------------------------- MODULE PubTimers -------------------------------
(***************************************************************************)
(* The life of publications in one node's SyncPS, with time: when they     *)
(* expire, how long they are remembered, and how often a subscriber gets   *)
(* them. SyncPS.tla lets timers fire at any moment; here they have the     *)
(* deadlines of syncps.hpp, and a publication has the timestamp that the   *)
(* clock of its origin put in its name.                                    *)
(*                                                                         *)
(* The network may bring any publication at any time, and again. A timer   *)
(* fires at its deadline or later, never before one with an earlier        *)
(* deadline (asio keeps them in a heap).                                   *)
(***************************************************************************)
EXTENDS Collection, FiniteSets

CONSTANTS Own,         \* publications of this node's application
          WithCb,      \* those published with a delivery callback
          Lifetime,    \* pubLifetime_
          Skew,        \* maxClockSkew
          GB,          \* pubExpirationGB_
          MaxNow,      \* bound on the clock
          IgnoreMax    \* bound on the ignorePub timers of a hash

ASSUME OwnsAssumption == Own \subseteq Pub /\ WithCb \subseteq Own
\* pubExpirationGB() sees to GB >= Skew
ASSUME TimesAssumption == /\ Lifetime \in Nat /\ Skew \in Nat \ {0}
                          /\ GB \in Nat /\ GB >= Skew
                          /\ MaxNow \in Nat /\ IgnoreMax \in Nat

VARIABLES now,           \* this node's clock
          st, iblt,      \* pubs_, see Collection
          ts,            \* ts[p]: the timestamp in p's name
          cbs,           \* pubCbs_
          timers,        \* the oneTime timers that have not fired
          subscribed,    \* whether there is a subscription
          got,           \* history: how often the subscription got p
          told           \* history: how often p's delivery callback was called

vars == <<now, st, iblt, ts, cbs, timers, subscribed, got, told>>

Kind == {"timeout", "deactivate", "erase", "unignore"}

\* no tells the ignorePub timers of a hash apart
Timer == [kind : Kind, pub : Pub, at : Int, no : 0..IgnoreMax]

Init == /\ now = 0
        /\ st = [p \in Pub |-> "none"] /\ iblt = [p \in Pub |-> 0]
        /\ ts \in [Pub -> (-Skew)..(MaxNow + Skew)]
        /\ cbs = {} /\ timers = {}
        /\ subscribed = FALSE
        /\ got = [p \in Pub |-> 0] /\ told = [p \in Pub |-> 0]
-------------------------------------------------------------------------------
\* isExpired_
IsExpired(p) == now - ts[p] >= Lifetime + Skew \/ now - ts[p] <= -Skew

After(kind, p, delay) == [kind |-> kind, pub |-> p, at |-> now + delay, no |-> 0]

\* Mutant: the entry is erased when it is deactivated
AddToActiveBrief(p, status) ==
    /\ st' = AddEntries(st, {p}, status)
    /\ iblt' = Insert(iblt, {p})
    /\ timers' = IF Lifetime = 0 THEN timers
                 ELSE timers \cup {After("deactivate", p, Lifetime + Skew),
                                   After("erase", p, Lifetime + Skew)}
                      \cup (IF status = "local" THEN {After("timeout", p, Lifetime)} ELSE {})

\* addToActive
AddToActive(p, status) ==
    /\ st' = AddEntries(st, {p}, status)
    /\ iblt' = Insert(iblt, {p})
    /\ timers' = IF Lifetime = 0 THEN timers
                 ELSE timers \cup {After("deactivate", p, Lifetime + Skew),
                                   After("erase", p, Lifetime + GB)}
                      \cup (IF status = "local" THEN {After("timeout", p, Lifetime)} ELSE {})

\* publish: the application puts the time in the name. A delivery callback is
\* registered once the publication is active.
Publish(p) ==
    /\ p \in Own /\ st[p] = "none" /\ ts[p] = now
    /\ AddToActive(p, "local")
    /\ cbs' = cbs \cup ({p} \cap WithCb)
    /\ UNCHANGED <<now, ts, subscribed, got, told>>

\* ignorePub
IgnorePub(p) ==
    /\ iblt' = Insert(iblt, {p})
    /\ \E no \in 1..IgnoreMax :
          LET t == [After("unignore", p, Lifetime + Skew) EXCEPT !.no = no]
          IN  t \notin timers /\ timers' = timers \cup {t}
    /\ UNCHANGED <<st, got>>

\* onCAdd for a publication that is not in the map
OnCAdd(p, valid) ==
    /\ st[p] \notin Present
    /\ p \in Own => st[p] = "gone"
    /\ IF IsExpired(p) \/ ~valid
       THEN IgnorePub(p)
       ELSE /\ AddToActive(p, "net")
            /\ got' = IF subscribed THEN [got EXCEPT ![p] = @ + 1] ELSE got
    /\ UNCHANGED <<now, ts, cbs, subscribed, told>>

\* subscribe: a new subscription gets the active publications from the net; a
\* repeated one only changes the callback
Subscribe ==
    /\ subscribed' = TRUE
    /\ got' = IF subscribed THEN got
              ELSE [p \in Pub |-> IF st[p] = "net" THEN got[p] + 1 ELSE got[p]]
    /\ UNCHANGED <<now, st, iblt, ts, cbs, timers, told>>

\* unsubscribe; got starts again for the next subscription
Unsubscribe ==
    /\ subscribed' = FALSE
    /\ got' = [p \in Pub |-> 0]
    /\ UNCHANGED <<now, st, iblt, ts, cbs, timers, told>>

\* handleCState sees in a peer's cState that p has arrived: doDeliveryCb
Acknowledge(p) ==
    /\ p \in cbs
    /\ cbs' = cbs \ {p}
    /\ told' = IF st[p] = "local" THEN [told EXCEPT ![p] = @ + 1] ELSE told
    /\ UNCHANGED <<now, st, iblt, ts, timers, subscribed, got>>

\* Mutant: the callback is not called when it is too late for it
TimeoutSilent(p) ==
    /\ cbs' = cbs \ {p}
    /\ UNCHANGED <<st, iblt, told>>

\* What the timers do: doDeliveryCb, deactivate, erase, and ignorePub's
Timeout(p) ==
    /\ cbs' = cbs \ {p}
    /\ told' = IF p \in cbs /\ st[p] = "local" THEN [told EXCEPT ![p] = @ + 1] ELSE told
    /\ UNCHANGED <<st, iblt>>

\* Mutant: the hash stays in the iblt
DeactivateMapOnly(p) ==
    /\ st' = IF st[p] \in Active THEN [st EXCEPT ![p] = "held"] ELSE st
    /\ UNCHANGED <<iblt, cbs, told>>

Deactivate(p) ==
    /\ IF st[p] \in Active
       THEN st' = [st EXCEPT ![p] = "held"] /\ iblt' = Remove(iblt, {p})
       ELSE UNCHANGED <<st, iblt>>
    /\ UNCHANGED <<cbs, told>>

\* Mutant: the iblt is touched although the entry is not active
EraseAlways(p) ==
    /\ st' = IF st[p] \in Present THEN [st EXCEPT ![p] = "gone"] ELSE st
    /\ iblt' = IF st[p] \in Present THEN Remove(iblt, {p}) ELSE iblt
    /\ UNCHANGED <<cbs, told>>

Erase(p) ==
    /\ st' = IF st[p] \in Present THEN [st EXCEPT ![p] = "gone"] ELSE st
    /\ iblt' = IF st[p] \in Active THEN Remove(iblt, {p}) ELSE iblt
    /\ UNCHANGED <<cbs, told>>

Unignore(p) == iblt' = Remove(iblt, {p}) /\ UNCHANGED <<st, cbs, told>>

Fire(t) ==
    /\ t.at <= now
    /\ \A u \in timers : t.at <= u.at
    /\ timers' = timers \ {t}
    /\ \/ t.kind = "timeout" /\ Timeout(t.pub)
       \/ t.kind = "deactivate" /\ Deactivate(t.pub)
       \/ t.kind = "erase" /\ Erase(t.pub)
       \/ t.kind = "unignore" /\ Unignore(t.pub)
    /\ UNCHANGED <<now, ts, subscribed, got>>

Tick == now < MaxNow /\ now' = now + 1
        /\ UNCHANGED <<st, iblt, ts, cbs, timers, subscribed, got, told>>

Next == \/ Tick \/ Subscribe \/ Unsubscribe
        \/ \E p \in Pub : Publish(p) \/ Acknowledge(p)
        \/ \E p \in Pub, valid \in BOOLEAN : OnCAdd(p, valid)
        \/ \E t \in timers : Fire(t)

Spec == Init /\ [][Next]_vars

-------------------------------------------------------------------------------
\* Types of the collection's map, iblt, callbacks and scheduled timers.
TypeOK ==
    /\ now \in 0..MaxNow
    /\ st \in [Pub -> Status] /\ iblt \in Iblt
    /\ ts \in [Pub -> Int]
    /\ cbs \subseteq WithCb
    /\ timers \subseteq Timer
    /\ subscribed \in BOOLEAN
    /\ got \in [Pub -> Nat] /\ told \in [Pub -> Nat]

\* A subscription gets every active publication from the network, including
\* those that were there before it, and none of them twice, however often and
\* late peers send it again; the node's own publications do not come back
\* (onCAdd, isExpired_; an expired publication is kept "to prevent a peer with a
\* late clock giving it back to us as soon as we delete it", addToActive). It
\* takes a guard band of twice the clock skew, which the default is, and not
\* only of the skew, which the setter asks for.
DeliveredOnce ==
    \A p \in Pub : /\ got[p] <= IF p \in Own THEN 0 ELSE 1
                   /\ subscribed /\ st[p] = "net" => got[p] = 1

\* Every timer that removes a hash from the iblt finds it there, and the hashes
\* that remain are the active entries and what is being ignored, even when the
\* timers of an entry fire late or after the entry is gone.
IbltBalanced ==
    \A p \in Pub :
        iblt[p] = (IF st[p] \in Active THEN 1 ELSE 0)
                  + Cardinality({t \in timers : t.kind = "unignore" /\ t.pub = p})

\* A delivery callback is called exactly once while the publication lives: when
\* the publication is no longer active, it has been called ("at least once").
ToldOnce ==
    \A p \in WithCb :
        /\ told[p] <= 1
        /\ p \in cbs <=> st[p] = "local" /\ told[p] = 0
        /\ st[p] \in {"held", "gone"} => told[p] = 1
===============================================================================
