------------------------------ MODULE DirectFace ------------------------------
(***************************************************************************)
(* The face of an application (direct.hpp): its registered (RIT), pending  *)
(* (PIT) and duplicate (DIT) interest tables, with the asio timers behind  *)
(* the PIT.                                                                *)
(*                                                                         *)
(* A timer that has expired puts its completion handler in the queue of    *)
(* the event loop. From then on cancelling the timer has no effect: the    *)
(* handler runs, finds its entry by name, and so meets whatever entry has  *)
(* that name by then. SyncPS.tla relies on what is shown here, that every  *)
(* PIT entry has a timer that will fire.                                   *)
(***************************************************************************)
EXTENDS FaceTables, Sequences

CONSTANTS Name,       \* interest names (sequences of components)
          Prefix,     \* prefixes the application may register
          Nonce,
          DitMax,     \* the size at which the DIT starts to evict
          QueueMax    \* bound on queued completion handlers per name

ASSUME NamesAssumption == Name \subseteq Seq(Nat) /\ Prefix \subseteq Seq(Nat)
ASSUME FaceBounds == DitMax \in Nat \ {0} /\ QueueMax \in Nat \ {0}

VARIABLES cSts_,    \* whether the transport is connected
          rit_,     \* registered prefixes
          ccb_,     \* registrations whose callback waits for the connection
          pit_,     \* see FaceTables; i is the interest the entry was made for
          dit_,     \* recently seen interests
          armed,    \* names whose PIT entry's timer is waiting
          queued,   \* queued[n]: expired timers of n whose handler has to run
          mine,     \* history: interests the application expressed
          upcalls,  \* history: interests given to the application
          repeats,  \* history: those given again, or expressed by itself
          evicted,  \* history: interests evicted from the DIT
          asked     \* history: names of which an interest came, or was
                    \* expressed, since the last data was sent

faceVars == <<cSts_, rit_, ccb_, pit_, dit_, armed, queued, mine, upcalls, repeats,
              evicted, asked>>

tables == <<pit_, dit_, armed, queued, mine, upcalls, repeats, evicted, asked>>

Interest == [name : Name, nonce : Nonce]

\* 'p' is a prefix of 'n'
IsPrefixOf(p, n) == Len(p) <= Len(n) /\ SubSeq(n, 1, Len(p)) = p

\* lpmLT::findLM: the lengths in use are tried from the longest to the shortest
FindLM(lt, n) ==
    LET match == {p \in lt : IsPrefixOf(p, n)}
    IN  {p \in match : \A q \in match : Len(q) <= Len(p)}

FaceInit ==
    /\ cSts_ = "UNCONNECTED" /\ rit_ = {} /\ ccb_ = {}
    /\ pit_ = {} /\ dit_ = {} /\ armed = {}
    /\ queued = [n \in Name |-> 0]
    /\ mine = {} /\ upcalls = {} /\ repeats = {} /\ evicted = {} /\ asked = {}
-------------------------------------------------------------------------------
\* conCb
ConCb ==
    /\ cSts_ # "CONNECTED"
    /\ cSts_' = "CONNECTED" /\ ccb_' = {}
    /\ UNCHANGED <<rit_, tables>>

\* Mutant: only the callback is recorded
AddToRITLate(p) ==
    /\ p \notin rit_
    /\ ccb_' = IF cSts_ = "CONNECTED" THEN ccb_ ELSE ccb_ \cup {p}
    /\ UNCHANGED <<cSts_, rit_, tables>>

\* addToRIT, once per prefix (SyncPS::start)
AddToRIT(p) ==
    /\ p \notin rit_
    /\ rit_' = rit_ \cup {p}
    /\ ccb_' = IF cSts_ = "CONNECTED" THEN ccb_ ELSE ccb_ \cup {p}
    /\ UNCHANGED <<cSts_, tables>>

\* DIT::add, which removes some hash when the table is full
DitAdd(i) ==
    IF Cardinality(dit_) >= DitMax
    THEN \E j \in dit_ : /\ dit_' = (dit_ \ {j}) \cup {i}
                         /\ evicted' = evicted \cup {j}
    ELSE dit_' = dit_ \cup {i} /\ UNCHANGED evicted

\* schedITO: the entry's timer, if any, is cancelled and replaced
SchedITO(n) == armed' = armed \cup {n}

\* express. The nonce is random: nobody used it before.
Express(i) ==
    /\ cSts_ = "CONNECTED" /\ i.nonce \notin {j.nonce : j \in mine \cup upcalls}
    /\ pit_' = PitAddLocal(pit_, i.name, i)
    /\ SchedITO(i.name)
    /\ DitAdd(i)
    /\ mine' = mine \cup {i}
    /\ asked' = asked \cup {i.name}
    /\ UNCHANGED <<cSts_, rit_, ccb_, queued, upcalls, repeats>>

\* Mutant: without the test for a duplicate
HandleAnyInterest(i) ==
    /\ FindLM(rit_, i.name) # {}
    /\ DitAdd(i)
    /\ pit_' = PitAddNet(pit_, i.name, i)
    /\ SchedITO(i.name)
    /\ upcalls' = upcalls \cup {i}
    /\ repeats' = repeats \cup ({i} \cap (mine \cup upcalls))
    /\ asked' = asked \cup {i.name}
    /\ UNCHANGED <<cSts_, rit_, ccb_, queued, mine>>

\* handleInterest, up to the upcall (what the application then sends is an
\* action of its own, before or after anything else). Peers' nonces are
\* random; a multicast copy of one's own interest may come back as well.
HandleInterest(i) ==
    /\ i \notin dit_
    /\ FindLM(rit_, i.name) # {}
    /\ DitAdd(i)
    /\ pit_' = PitAddNet(pit_, i.name, i)
    /\ SchedITO(i.name)
    /\ upcalls' = upcalls \cup {i}
    /\ repeats' = repeats \cup ({i} \cap (mine \cup upcalls))
    /\ asked' = asked \cup {i.name}
    /\ UNCHANGED <<cSts_, rit_, ccb_, queued, mine>>

\* pitErase, and the destruction of an entry: its timer is cancelled
Drop(n) == pit_' = PitErase(pit_, {n}) /\ armed' = armed \ {n}

\* Mutant: the entry stays in the PIT
SendKeeping(n) ==
    /\ n \in PitNames(pit_)
    /\ asked' = asked \ {n}
    /\ UNCHANGED <<cSts_, rit_, ccb_, pit_, armed, dit_, queued, mine, upcalls, repeats, evicted>>

\* send of a data
Send(n) ==
    /\ n \in PitNames(pit_)
    /\ Drop(n)
    /\ asked' = asked \ {n}
    /\ UNCHANGED <<cSts_, rit_, ccb_, dit_, queued, mine, upcalls, repeats, evicted>>

\* Mutant: the deferred delete does not notice that the timer has expired
SchedDEDStop(n) ==
    /\ pit_' = PitDefer(pit_, n)
    /\ armed' = armed \ {n}

\* schedDED: when the timer has expired already (expires_after cancels
\* nothing), its handler is on its way; else the timer is started again
SchedDED(n) ==
    /\ pit_' = PitDefer(pit_, n)
    /\ UNCHANGED armed

\* handleData, up to the callback
HandleData(n) ==
    /\ n \in PitNames(pit_)
    /\ IF n \in Expressed(pit_) THEN SchedDED(n) ELSE Drop(n)
    /\ UNCHANGED <<cSts_, rit_, ccb_, dit_, queued, mine, upcalls, repeats, evicted, asked>>

\* A timer expires: its completion handler is queued
Expire(n) ==
    /\ n \in armed /\ queued[n] < QueueMax
    /\ armed' = armed \ {n}
    /\ queued' = [queued EXCEPT ![n] = @ + 1]
    /\ UNCHANGED <<cSts_, rit_, ccb_, pit_, dit_, mine, upcalls, repeats, evicted, asked>>

\* itoCB, up to the timeout callback (Express)
ItoCB(n) ==
    /\ queued[n] > 0
    /\ queued' = [queued EXCEPT ![n] = @ - 1]
    /\ Drop(n)
    /\ UNCHANGED <<cSts_, rit_, ccb_, dit_, mine, upcalls, repeats, evicted, asked>>

FaceNext == \/ ConCb
        \/ \E p \in Prefix : AddToRIT(p)
        \/ \E i \in Interest : Express(i) \/ HandleInterest(i)
        \/ \E n \in Name : Send(n) \/ HandleData(n) \/ Expire(n) \/ ItoCB(n)

FaceSpec == FaceInit /\ [][FaceNext]_faceVars
-------------------------------------------------------------------------------
\* Types of the tables of DirectFace, its timers and their queued handlers.
FaceTypeOK ==
    /\ cSts_ \in {"UNCONNECTED", "CONNECTED"}
    /\ rit_ \subseteq Prefix /\ ccb_ \subseteq rit_
    /\ pit_ \subseteq PitEntry(Name, Interest)
    /\ dit_ \subseteq Interest /\ evicted \subseteq Interest
    /\ mine \subseteq Interest /\ upcalls \subseteq Interest /\ repeats \subseteq Interest
    /\ armed \subseteq Name /\ asked \subseteq Name
    /\ queued \in [Name -> 0..QueueMax]

\* There is one PIT entry per name, and every one has a timer: one that is
\* waiting, or one that has expired and whose handler is queued (schedITO and
\* schedDED, whatever was in the queue when they ran). No timer waits for an
\* entry that is gone.
PitTimed ==
    /\ \A e, f \in pit_ : e.name = f.name => e = f
    /\ \A e \in pit_ : e.name \in armed \/ queued[e.name] > 0
    /\ armed \subseteq PitNames(pit_)

\* An interest is given to the application once, and not at all when it is the
\* application's own coming back from the network, unless the DIT, which is
\* bounded, had to evict it meanwhile (handleInterest, express, DIT::add).
NoRepeats == repeats \subseteq evicted /\ Cardinality(dit_) <= DitMax

\* Flow balance: between two datas of the same name, an interest in it came or
\* was expressed, because sending one deletes the PIT entry it needs (send).
FlowBalance == PitNames(pit_) \subseteq asked
===============================================================================
