----------------------------- MODULE Timers_proofs -----------------------------
(***************************************************************************)
(* Proofs about the two parts of a node whose state is driven by asio      *)
(* timers: the face's interest tables (DirectFace) and the life of         *)
(* publications in a SyncPS (PubTimers).                                   *)
(*                                                                         *)
(* DirectFace, for every set of names and nonces, every size of the        *)
(* duplicate table and every number of queued timer completions: what an   *)
(* operation does to the PIT is one of four things (lemmas Pit...); with   *)
(* that, PitTimed and FlowBalance are inductive. NoRepeats needs that      *)
(* every interest seen is in the DIT or was evicted (Remembered), and that *)
(* the DIT is finite.                                                      *)
(*                                                                         *)
(* PubTimers, for every lifetime, clock skew and guard band and any number *)
(* of publications: three inductive invariants rest on the types. BInv     *)
(* counts what the ignorePub timers will take out of the iblt; TInv says   *)
(* that a publication's timeout comes before its deactivation and its      *)
(* erasure; DInv that an entry is not erased before its publication has    *)
(* expired for isExpired_, if the guard band is twice the clock skew.      *)
(***************************************************************************)
EXTENDS DirectFace, PubTimers, FiniteSetTheorems, TLAPS

\* Zenon proves the leaves that do not name another prover.
USE Zenon

\* There is one entry per name
Unique(pit) == \A e, f \in pit : e.name = f.name => e = f

Remembered == mine \cup upcalls \subseteq dit_ \cup evicted

FaceInv == FaceTypeOK /\ PitTimed /\ FlowBalance /\ NoRepeats /\ Remembered /\ IsFiniteSet(dit_)

\* PIT::add, of either kind, adds the name and changes no other (lpm_tables.hpp).
LEMMA PitAdds ==
    ASSUME NEW q, q \subseteq PitEntry(Name, Interest), Unique(q),
           NEW n \in Name, NEW i \in Interest,
           NEW r, r = PitAddLocal(q, n, i) \/ r = PitAddNet(q, n, i)
    PROVE  /\ r \subseteq PitEntry(Name, Interest) /\ Unique(r)
           /\ PitNames(r) = PitNames(q) \cup {n}
<1>1. CASE n \in PitNames(q) /\ r = PitAddLocal(q, n, i)
  <2>. DEFINE D(e) == IF e.name = n THEN [e EXCEPT !.loc = TRUE] ELSE e
  <2>1. r = {D(e) : e \in q}
    BY <1>1 DEF PitAddLocal
  <2>2. \A e \in q : D(e) \in PitEntry(Name, Interest) /\ D(e).name = e.name
    BY DEF PitEntry
  <2>. HIDE DEF D
  <2>3. r \subseteq PitEntry(Name, Interest)
    BY <2>1, <2>2
  <2>4. Unique(r)
    BY SMT, <2>1, <2>2 DEF Unique
  <2>5. PitNames(r) = PitNames(q)
    BY SMT, <2>1, <2>2 DEF PitNames
  <2>. QED  BY <1>1, <2>3, <2>4, <2>5
<1>2. CASE n \in PitNames(q) /\ r = PitAddNet(q, n, i)
  <2>. DEFINE D(e) == IF e.name = n THEN [e EXCEPT !.net = TRUE] ELSE e
  <2>1. r = {D(e) : e \in q}
    BY <1>2 DEF PitAddNet
  <2>2. \A e \in q : D(e) \in PitEntry(Name, Interest) /\ D(e).name = e.name
    BY DEF PitEntry
  <2>. HIDE DEF D
  <2>3. r \subseteq PitEntry(Name, Interest)
    BY <2>1, <2>2
  <2>4. Unique(r)
    BY SMT, <2>1, <2>2 DEF Unique
  <2>5. PitNames(r) = PitNames(q)
    BY SMT, <2>1, <2>2 DEF PitNames
  <2>. QED  BY <1>2, <2>3, <2>4, <2>5
<1>3. CASE n \notin PitNames(q)
  <2>1. PICK loc \in BOOLEAN, net \in BOOLEAN : r = q \cup {NewEntry(n, i, loc, net)}
    BY <1>3 DEF PitAddLocal, PitAddNet
  <2>2. NewEntry(n, i, loc, net) \in PitEntry(Name, Interest)
        /\ NewEntry(n, i, loc, net).name = n
    BY DEF NewEntry, PitEntry
  <2>. HIDE DEF NewEntry
  <2>. QED  BY SMT, <1>3, <2>1, <2>2 DEF PitNames, Unique
<1>. QED  BY <1>1, <1>2, <1>3

\* pitErase removes the name and changes no other entry (direct.hpp).
LEMMA PitErases ==
    ASSUME NEW q, q \subseteq PitEntry(Name, Interest), Unique(q), NEW n
    PROVE  /\ PitErase(q, {n}) \subseteq q /\ Unique(PitErase(q, {n}))
           /\ PitNames(PitErase(q, {n})) = PitNames(q) \ {n}
BY DEF PitErase, PitNames, Unique

\* schedDED keeps the names (direct.hpp).
LEMMA PitDefers ==
    ASSUME NEW q, q \subseteq PitEntry(Name, Interest), Unique(q), NEW n
    PROVE  /\ PitDefer(q, n) \subseteq PitEntry(Name, Interest) /\ Unique(PitDefer(q, n))
           /\ PitNames(PitDefer(q, n)) = PitNames(q)
<1>. DEFINE D(e) == IF e.name = n THEN [e EXCEPT !.ded = TRUE] ELSE e
<1>1. PitDefer(q, n) = {D(e) : e \in q}
  BY DEF PitDefer
<1>2. \A e \in q : D(e) \in PitEntry(Name, Interest) /\ D(e).name = e.name
  BY DEF PitEntry
<1>. HIDE DEF D
<1>3. PitDefer(q, n) \subseteq PitEntry(Name, Interest)
  BY <1>1, <1>2
<1>4. Unique(PitDefer(q, n))
  BY SMT, <1>1, <1>2 DEF Unique
<1>5. PitNames(PitDefer(q, n)) = PitNames(q)
  BY SMT, <1>1, <1>2 DEF PitNames
<1>. QED  BY <1>3, <1>4, <1>5

\* The DIT stays within its bound, and forgets only what is then recorded as
\* evicted (DIT::add in lpm_tables.hpp).
LEMMA DitAdds ==
    ASSUME FaceInv, NEW i \in Interest, DitAdd(i)
    PROVE  /\ IsFiniteSet(dit_') /\ Cardinality(dit_') <= DitMax
           /\ dit_' \subseteq Interest /\ evicted' \subseteq Interest
           /\ evicted \subseteq evicted' /\ dit_ \cup {i} \subseteq dit_' \cup evicted'
<1>. USE FaceBounds DEF FaceInv, FaceTypeOK, NoRepeats
<1>1. Cardinality(dit_) \in Nat
  BY FS_CardinalityType
<1>2. CASE Cardinality(dit_) >= DitMax
  <2>1. PICK j \in dit_ : dit_' = (dit_ \ {j}) \cup {i} /\ evicted' = evicted \cup {j}
    BY <1>2 DEF DitAdd
  <2>2. IsFiniteSet(dit_ \ {j}) /\ Cardinality(dit_ \ {j}) = Cardinality(dit_) - 1
    BY FS_RemoveElement
  <2>3. IsFiniteSet(dit_') /\ \/ Cardinality(dit_') = Cardinality(dit_ \ {j})
                              \/ Cardinality(dit_') = Cardinality(dit_ \ {j}) + 1
    BY <2>1, <2>2, FS_AddElement
  <2>. QED  BY SMT, <1>1, <2>1, <2>2, <2>3
<1>3. CASE ~(Cardinality(dit_) >= DitMax)
  <2>1. dit_' = dit_ \cup {i} /\ evicted' = evicted
    BY <1>3 DEF DitAdd
  <2>2. IsFiniteSet(dit_') /\ \/ Cardinality(dit_') = Cardinality(dit_)
                              \/ Cardinality(dit_') = Cardinality(dit_) + 1
    BY <2>1, FS_AddElement
  <2>. QED  BY SMT, <1>1, <1>3, <2>1, <2>2
<1>. QED  BY <1>2, <1>3

\* The empty tables satisfy the invariant.
LEMMA FaceInitInv == FaceInit => FaceInv
<1>. SUFFICES ASSUME FaceInit PROVE FaceInv
  OBVIOUS
<1>1. IsFiniteSet(dit_) /\ Cardinality(dit_) = 0
  BY FS_EmptySet DEF FaceInit
<1>. QED  BY SMT, <1>1, FaceBounds DEF FaceInit, FaceInv, FaceTypeOK, PitTimed, FlowBalance, NoRepeats,
            Remembered, PitNames

\* An entry is added, with a running timer, for an interest that was recorded
\* in the DIT: what express and handleInterest have in common.
LEMMA AddInv ==
    ASSUME FaceInv, NEW i \in Interest, DitAdd(i), SchedITO(i.name),
           pit_' = PitAddLocal(pit_, i.name, i) \/ pit_' = PitAddNet(pit_, i.name, i),
           asked' = asked \cup {i.name},
           UNCHANGED <<cSts_, rit_, ccb_, queued>>,
           mine' \cup upcalls' = mine \cup upcalls \cup {i},
           repeats' = repeats \/ (repeats' = repeats \cup ({i} \cap (mine \cup upcalls)) /\ i \notin dit_)
    PROVE  FaceInv'
<1>1. i.name \in Name /\ Unique(pit_) /\ pit_ \subseteq PitEntry(Name, Interest)
  BY DEF Interest, FaceInv, FaceTypeOK, PitTimed, Unique
<1>2. /\ pit_' \subseteq PitEntry(Name, Interest) /\ Unique(pit_')
      /\ PitNames(pit_') = PitNames(pit_) \cup {i.name}
  BY SMT, <1>1, PitAdds
<1>3. /\ IsFiniteSet(dit_') /\ Cardinality(dit_') <= DitMax
      /\ dit_' \subseteq Interest /\ evicted' \subseteq Interest
      /\ evicted \subseteq evicted' /\ dit_ \cup {i} \subseteq dit_' \cup evicted'
  BY DitAdds
<1>4. armed' = armed \cup {i.name}
  BY DEF SchedITO
<1>5. FaceTypeOK'
  BY <1>1, <1>2, <1>3, <1>4 DEF FaceInv, FaceTypeOK
<1>6. PitTimed'
  BY SMT, <1>1, <1>2, <1>4 DEF FaceInv, PitTimed, Unique, PitNames
<1>7. FlowBalance'
  BY <1>2 DEF FaceInv, FlowBalance
<1>8. Remembered'
  BY <1>3 DEF FaceInv, Remembered
<1>9. NoRepeats'
  BY <1>3 DEF FaceInv, Remembered, NoRepeats
<1>. QED  BY <1>3, <1>5, <1>6, <1>7, <1>8, <1>9 DEF FaceInv

\* An entry, if there is one, is removed together with its timer: what send,
\* handleData and itoCB have in common.
LEMMA DropInv ==
    ASSUME FaceInv, NEW n \in Name, Drop(n),
           asked' = asked \/ asked' = asked \ {n},
           queued' \in [Name -> 0..QueueMax],
           \A m \in Name \ {n} : queued'[m] = queued[m],
           UNCHANGED <<cSts_, rit_, ccb_, dit_, mine, upcalls, repeats, evicted>>
    PROVE  FaceInv'
<1>1. Unique(pit_) /\ pit_ \subseteq PitEntry(Name, Interest)
  BY DEF FaceInv, FaceTypeOK, PitTimed, Unique
<1>2. /\ pit_' \subseteq pit_ /\ Unique(pit_')
      /\ PitNames(pit_') = PitNames(pit_) \ {n}
  BY <1>1, PitErases DEF Drop
<1>3. armed' = armed \ {n}
  BY DEF Drop
<1>4. FaceTypeOK'
  BY <1>1, <1>2, <1>3 DEF FaceInv, FaceTypeOK
<1>5. \A e \in pit_' : e.name \in Name \ {n}
  BY <1>1, <1>2 DEF PitNames, PitEntry
<1>6. PitTimed'
  BY <1>2, <1>3, <1>5 DEF FaceInv, PitTimed, Unique
<1>7. FlowBalance'
  BY <1>2 DEF FaceInv, FlowBalance
<1>. QED  BY <1>4, <1>6, <1>7 DEF FaceInv, NoRepeats, Remembered

\* Every handler of the face preserves the invariant.
LEMMA FaceNextInv == FaceInv /\ [FaceNext]_faceVars => FaceInv'
<1>. SUFFICES ASSUME FaceInv, [FaceNext]_faceVars PROVE FaceInv'
  OBVIOUS
<1>1. CASE ConCb
  BY <1>1 DEF ConCb, tables, FaceInv, FaceTypeOK, PitTimed, FlowBalance, NoRepeats, Remembered
<1>2. ASSUME NEW p \in Prefix, AddToRIT(p) PROVE FaceInv'
  BY <1>2 DEF AddToRIT, tables, FaceInv, FaceTypeOK, PitTimed, FlowBalance, NoRepeats, Remembered
<1>3. ASSUME NEW i \in Interest, Express(i) PROVE FaceInv'
  <2>1. mine' \cup upcalls' = mine \cup upcalls \cup {i} /\ repeats' = repeats
    BY <1>3 DEF Express
  <2>. QED  BY <1>3, <2>1, AddInv DEF Express
<1>4. ASSUME NEW i \in Interest, HandleInterest(i) PROVE FaceInv'
  <2>1. mine' \cup upcalls' = mine \cup upcalls \cup {i}
    BY <1>4 DEF HandleInterest
  <2>. QED  BY <1>4, <2>1, AddInv DEF HandleInterest
<1>5. ASSUME NEW n \in Name, Send(n) PROVE FaceInv'
  BY <1>5, DropInv DEF Send, FaceInv, FaceTypeOK
<1>6. ASSUME NEW n \in Name, HandleData(n) PROVE FaceInv'
  <2>1. CASE n \in Expressed(pit_)
    <3>1. /\ pit_' = PitDefer(pit_, n)
          /\ UNCHANGED <<cSts_, rit_, ccb_, armed, dit_, queued, mine, upcalls,
                         repeats, evicted, asked>>
      BY <1>6, <2>1 DEF HandleData, SchedDED
    <3>2. /\ pit_' \subseteq PitEntry(Name, Interest) /\ Unique(pit_')
          /\ PitNames(pit_') = PitNames(pit_)
      BY <3>1, PitDefers DEF FaceInv, FaceTypeOK, PitTimed, Unique
    <3>3. FaceTypeOK'
      BY <3>1, <3>2 DEF FaceInv, FaceTypeOK
    <3>4. PitTimed'
      BY SMT, <3>1, <3>2 DEF FaceInv, PitTimed, Unique, PitNames
    <3>. QED  BY <3>1, <3>2, <3>3, <3>4 DEF FaceInv, FlowBalance, NoRepeats, Remembered
  <2>2. CASE n \notin Expressed(pit_)
    BY <1>6, <2>2, DropInv DEF HandleData, FaceInv, FaceTypeOK
  <2>. QED  BY <2>1, <2>2
<1>7. ASSUME NEW n \in Name, Expire(n) PROVE FaceInv'
  <2>1. /\ armed' = armed \ {n} /\ queued' = [queued EXCEPT ![n] = @ + 1]
        /\ queued[n] \in 0..QueueMax /\ queued[n] < QueueMax
        /\ UNCHANGED <<cSts_, rit_, ccb_, pit_, dit_, mine, upcalls, repeats, evicted, asked>>
    BY <1>7 DEF Expire, FaceInv, FaceTypeOK
  <2>2. FaceTypeOK'
    BY SMT, <2>1, FaceBounds DEF FaceInv, FaceTypeOK
  <2>3. \A e \in pit_ : e.name \in Name
    BY DEF FaceInv, FaceTypeOK, PitEntry
  <2>4. PitTimed'
    BY SMT, <2>1, <2>3, FaceBounds DEF FaceInv, FaceTypeOK, PitTimed
  <2>. QED  BY <2>1, <2>2, <2>4 DEF FaceInv, FlowBalance, NoRepeats, Remembered
<1>8. ASSUME NEW n \in Name, ItoCB(n) PROVE FaceInv'
  <2>1. /\ queued' \in [Name -> 0..QueueMax]
        /\ \A m \in Name \ {n} : queued'[m] = queued[m]
    BY SMT, <1>8, FaceBounds DEF ItoCB, FaceInv, FaceTypeOK
  <2>. QED  BY <1>8, <2>1, DropInv DEF ItoCB
<1>9. CASE UNCHANGED faceVars
  BY <1>9 DEF faceVars, FaceInv, FaceTypeOK, PitTimed, FlowBalance, NoRepeats, Remembered
<1>. QED  BY <1>1, <1>2, <1>3, <1>4, <1>5, <1>6, <1>7, <1>8, <1>9 DEF FaceNext

\* The inductive invariant holds of the face for any sizes of its tables.
THEOREM FaceInvariance == FaceSpec => []FaceInv
BY FaceInitInv, FaceNextInv, PTL DEF FaceSpec

\* Type correctness of the face's state.
THEOREM FaceTypeCorrect == FaceSpec => []FaceTypeOK
<1>1. FaceInv => FaceTypeOK
  BY DEF FaceInv
<1>. QED  BY <1>1, FaceInvariance, PTL

\* Every PIT entry has a timer that will fire, whatever completions are queued
\* when schedITO, schedDED or pitErase run: no entry stays for ever.
THEOREM EntriesTimed == FaceSpec => []PitTimed
<1>1. FaceInv => PitTimed
  BY DEF FaceInv
<1>. QED  BY <1>1, FaceInvariance, PTL

\* handleInterest gives no interest to the application twice unless the bounded
\* DIT has evicted it.
THEOREM InterestsOnce == FaceSpec => []NoRepeats
<1>1. FaceInv => NoRepeats
  BY DEF FaceInv
<1>. QED  BY <1>1, FaceInvariance, PTL

\* One data is sent for one interest or more, never two for one (send).
THEOREM FlowBalanced == FaceSpec => []FlowBalance
<1>1. FaceInv => FlowBalance
  BY DEF FaceInv
<1>. QED  BY <1>1, FaceInvariance, PTL
-------------------------------------------------------------------------------
Ignoring(p, T) == {t \in T : t.kind = "unignore" /\ t.pub = p}

BInv == TypeOK /\ IsFiniteSet(timers) /\ IbltBalanced

\* What addToActive does to the timers: none or two for the entry, and one for
\* the delivery callback of a local publication, which is the earliest.
LEMMA AddTimers ==
    ASSUME TypeOK, NEW p \in Pub, NEW v \in Active, AddToActive(p, v)
    PROVE  \E N \in SUBSET Timer :
              /\ timers' = timers \cup N /\ IsFiniteSet(N)
              /\ \A t \in N : /\ t.pub = p /\ t.kind # "unignore"
                              /\ t.kind = "erase" => t.at = now + Lifetime + GB
                              /\ v = "local" /\ t.kind \in {"deactivate", "erase"} =>
                                    \E u \in N : u.kind = "timeout" /\ u.at < t.at
<1>. USE TimesAssumption DEF After
<1>. DEFINE d == After("deactivate", p, Lifetime + Skew)
            e == After("erase", p, Lifetime + GB)
            u == After("timeout", p, Lifetime)
<1>1. d \in Timer /\ e \in Timer /\ u \in Timer
  BY SMT DEF Timer, Kind, TypeOK
<1>2. /\ d.kind = "deactivate" /\ e.kind = "erase" /\ u.kind = "timeout"
      /\ d.pub = p /\ e.pub = p /\ u.pub = p
      /\ e.at = now + Lifetime + GB /\ u.at < d.at /\ u.at < e.at
  BY SMT DEF TypeOK
<1>3. timers' = timers \cup {} \/ timers' = timers \cup {d, e}
                \/ timers' = timers \cup {d, e, u}
  BY DEF AddToActive
<1>4. v = "local" => timers' = timers \cup {} \/ timers' = timers \cup {d, e, u}
  BY DEF AddToActive
<1>5. IsFiniteSet({}) /\ IsFiniteSet({d, e}) /\ IsFiniteSet({d, e, u})
  <2>1. IsFiniteSet({}) /\ IsFiniteSet({d})
    BY FS_EmptySet, FS_Singleton
  <2>2. IsFiniteSet({d} \cup {e})
    BY <2>1, FS_AddElement
  <2>3. IsFiniteSet(({d} \cup {e}) \cup {u})
    BY <2>2, FS_AddElement
  <2>4. {d} \cup {e} = {d, e} /\ ({d} \cup {e}) \cup {u} = {d, e, u}
    OBVIOUS
  <2>. QED  BY <2>1, <2>2, <2>3, <2>4
<1>. HIDE DEF d, e, u
<1>6. CASE v = "local"
  <2>1. CASE timers' = timers \cup {}
    BY SMT, <2>1, <1>5
  <2>2. CASE timers' = timers \cup {d, e, u}
    BY SMT, <2>2, <1>1, <1>2, <1>5
  <2>. QED  BY <1>4, <1>6, <2>1, <2>2
<1>7. CASE v # "local"
  <2>1. CASE timers' = timers \cup {}
    BY SMT, <2>1, <1>5
  <2>2. CASE timers' = timers \cup {d, e}
    BY SMT, <2>2, <1>1, <1>2, <1>5, <1>7
  <2>3. CASE timers' = timers \cup {d, e, u}
    BY SMT, <2>3, <1>1, <1>2, <1>5, <1>7
  <2>. QED  BY <1>3, <2>1, <2>2, <2>3
<1>. QED  BY <1>6, <1>7

\* Timers of other kinds do not change what ignorePub has to undo.
LEMMA IgnoringSame ==
    ASSUME NEW T, NEW N, \A t \in N : t.kind # "unignore", NEW p
    PROVE  Ignoring(p, T \cup N) = Ignoring(p, T) /\ Ignoring(p, T \ N) = Ignoring(p, T)
BY DEF Ignoring

\* A new ignorePub timer, or one that has fired, counts for its own hash only.
LEMMA IgnoringOne ==
    ASSUME NEW T, IsFiniteSet(T), NEW t, t.kind = "unignore"
    PROVE  /\ \A p : p # t.pub => /\ Ignoring(p, T \cup {t}) = Ignoring(p, T)
                                  /\ Ignoring(p, T \ {t}) = Ignoring(p, T)
           /\ t \notin T => Cardinality(Ignoring(t.pub, T \cup {t}))
                               = Cardinality(Ignoring(t.pub, T)) + 1
           /\ t \in T => Cardinality(Ignoring(t.pub, T \ {t}))
                            = Cardinality(Ignoring(t.pub, T)) - 1
<1>1. IsFiniteSet(Ignoring(t.pub, T))
  <2>1. Ignoring(t.pub, T) \subseteq T
    BY DEF Ignoring
  <2>. QED  BY <2>1, FS_Subset
<1>2. ASSUME t \notin T
      PROVE  Cardinality(Ignoring(t.pub, T \cup {t})) = Cardinality(Ignoring(t.pub, T)) + 1
  <2>1. Ignoring(t.pub, T \cup {t}) = Ignoring(t.pub, T) \cup {t} /\ t \notin Ignoring(t.pub, T)
    BY <1>2 DEF Ignoring
  <2>. QED  BY <1>1, <2>1, FS_AddElement
<1>3. ASSUME t \in T
      PROVE  Cardinality(Ignoring(t.pub, T \ {t})) = Cardinality(Ignoring(t.pub, T)) - 1
  <2>1. Ignoring(t.pub, T \ {t}) = Ignoring(t.pub, T) \ {t} /\ t \in Ignoring(t.pub, T)
    BY <1>3 DEF Ignoring
  <2>. QED  BY <1>1, <2>1, FS_RemoveElement
<1>4. \A p : p # t.pub => /\ Ignoring(p, T \cup {t}) = Ignoring(p, T)
                          /\ Ignoring(p, T \ {t}) = Ignoring(p, T)
  BY DEF Ignoring
<1>. QED  BY <1>2, <1>3, <1>4

\* The count of a finite set of timers is a natural number.
LEMMA IgnoringNat ==
    ASSUME NEW T, IsFiniteSet(T), NEW p PROVE Cardinality(Ignoring(p, T)) \in Nat
<1>1. Ignoring(p, T) \subseteq T
  BY DEF Ignoring
<1>. QED  BY <1>1, FS_Subset, FS_CardinalityType

\* One more hash in the iblt for a new active entry (addToActive).
LEMMA AddBalanced ==
    ASSUME BInv, NEW p \in Pub, NEW v \in Active, st[p] \notin Present, AddToActive(p, v)
    PROVE  /\ st' \in [Pub -> Status] /\ iblt' \in Iblt /\ timers' \subseteq Timer
           /\ IsFiniteSet(timers') /\ IbltBalanced'
<1>1. PICK N \in SUBSET Timer : /\ timers' = timers \cup N /\ IsFiniteSet(N)
                                /\ \A t \in N : t.kind # "unignore"
  BY SMT, AddTimers DEF BInv
<1>2. /\ st' = [q \in Pub |-> IF q \in {p} THEN v ELSE st[q]]
      /\ iblt' = [q \in Pub |-> IF q \in {p} THEN iblt[q] + 1 ELSE iblt[q]]
  BY DEF AddToActive, AddEntries, Insert
<1>3. timers' \subseteq Timer /\ IsFiniteSet(timers')
  BY <1>1, FS_Union DEF BInv, TypeOK
<1>4. st' \in [Pub -> Status] /\ iblt' \in Iblt
  BY SMT, <1>2 DEF BInv, TypeOK, Iblt, Status, Active
<1>5. \A q \in Pub : Cardinality(Ignoring(q, timers')) = Cardinality(Ignoring(q, timers))
  BY <1>1, IgnoringSame
<1>6. IbltBalanced'
  <2>. SUFFICES ASSUME NEW q \in Pub
                PROVE  iblt'[q] = (IF st'[q] \in Active THEN 1 ELSE 0)
                                  + Cardinality(Ignoring(q, timers'))
    BY DEF IbltBalanced, Ignoring
  <2>1. iblt[q] = (IF st[q] \in Active THEN 1 ELSE 0) + Cardinality(Ignoring(q, timers))
    BY DEF BInv, IbltBalanced, Ignoring
  <2>2. Cardinality(Ignoring(q, timers)) \in Nat
    BY IgnoringNat DEF BInv
  <2>. QED  BY SMT, <1>2, <1>5, <2>1, <2>2 DEF Active, Present
<1>. QED  BY <1>3, <1>4, <1>6

\* One hash less for an entry that stops being active, when its timer fires.
LEMMA FireBalanced ==
    ASSUME BInv, NEW t \in timers, Fire(t)
    PROVE  /\ st' \in [Pub -> Status] /\ iblt' \in Iblt /\ timers' \subseteq Timer
           /\ IsFiniteSet(timers') /\ IbltBalanced'
<1>1. t \in Timer /\ t.pub \in Pub /\ timers' = timers \ {t}
  BY DEF BInv, TypeOK, Fire, Timer
<1>2. timers' \subseteq Timer /\ IsFiniteSet(timers')
  BY <1>1, FS_RemoveElement DEF BInv, TypeOK
<1>3. \A q \in Pub :
         /\ iblt[q] = (IF st[q] \in Active THEN 1 ELSE 0) + Cardinality(Ignoring(q, timers))
         /\ Cardinality(Ignoring(q, timers)) \in Nat
         /\ Cardinality(Ignoring(q, timers')) \in Nat
  BY <1>2, IgnoringNat DEF BInv, IbltBalanced, Ignoring
<1>4. st \in [Pub -> Status] /\ iblt \in [Pub -> Nat]
  BY DEF BInv, TypeOK, Iblt
<1>5. CASE t.kind # "unignore"
  <2>1. \A q \in Pub : Cardinality(Ignoring(q, timers')) = Cardinality(Ignoring(q, timers))
    BY <1>1, <1>5, IgnoringSame
  <2>2. \/ st' = st /\ iblt' = iblt
        \/ /\ st[t.pub] \in Active
           /\ st' = [st EXCEPT ![t.pub] = "held"] \/ st' = [st EXCEPT ![t.pub] = "gone"]
           /\ iblt' = [q \in Pub |-> IF q \in {t.pub} THEN iblt[q] - 1 ELSE iblt[q]]
        \/ /\ st[t.pub] \notin Active
           /\ st' = [st EXCEPT ![t.pub] = "gone"] /\ iblt' = iblt
    <3>1. CASE Timeout(t.pub)
      BY <3>1 DEF Timeout
    <3>2. CASE Deactivate(t.pub)
      BY <3>2 DEF Deactivate, Remove
    <3>3. CASE Erase(t.pub)
      BY <3>3 DEF Erase, Remove, Active, Present
    <3>. QED  BY <1>5, <3>1, <3>2, <3>3 DEF Fire
  <2>3. st' \in [Pub -> Status]
    BY <1>4, <2>2 DEF Status
  <2>4. \A q \in Pub : iblt'[q] = (IF st'[q] \in Active THEN 1 ELSE 0)
                                  + Cardinality(Ignoring(q, timers'))
    <3>. SUFFICES ASSUME NEW q \in Pub
                  PROVE  iblt'[q] = (IF st'[q] \in Active THEN 1 ELSE 0)
                                    + Cardinality(Ignoring(q, timers))
      BY <2>1
    <3>1. CASE q # t.pub
      BY <1>3, <1>4, <2>2, <3>1
    <3>2. CASE q = t.pub
      BY SMT, <1>1, <1>3, <1>4, <2>2, <3>2 DEF Active
    <3>. QED  BY <3>1, <3>2
  <2>5. iblt' \in Iblt
    BY SMT, <1>3, <1>4, <2>1, <2>2, <2>4 DEF Iblt
  <2>. QED  BY <1>2, <2>3, <2>4, <2>5 DEF IbltBalanced, Ignoring
<1>6. CASE t.kind = "unignore"
  <2>1. st' = st /\ iblt' = [q \in Pub |-> IF q \in {t.pub} THEN iblt[q] - 1 ELSE iblt[q]]
    BY <1>6 DEF Fire, Unignore, Remove
  <2>2. \A q \in Pub : Cardinality(Ignoring(q, timers')) =
            IF q = t.pub THEN Cardinality(Ignoring(q, timers)) - 1
            ELSE Cardinality(Ignoring(q, timers))
    BY SMT, <1>1, <1>6, IgnoringOne DEF BInv
  <2>3. \A q \in Pub : iblt'[q] = (IF st'[q] \in Active THEN 1 ELSE 0)
                                  + Cardinality(Ignoring(q, timers'))
    <3>. SUFFICES ASSUME NEW q \in Pub
                  PROVE  iblt'[q] = (IF st'[q] \in Active THEN 1 ELSE 0)
                                    + Cardinality(Ignoring(q, timers'))
      OBVIOUS
    <3>1. CASE q # t.pub
      BY <1>3, <2>1, <2>2, <3>1
    <3>2. CASE q = t.pub
      <4>1. iblt'[q] = iblt[q] - 1 /\ st'[q] = st[q]
        BY <2>1, <3>2
      <4>2. Cardinality(Ignoring(q, timers')) = Cardinality(Ignoring(q, timers)) - 1
        BY <2>2, <3>2
      <4>. HIDE DEF Ignoring
      <4>. QED  BY SMT, <1>3, <4>1, <4>2
    <3>. QED  BY <3>1, <3>2
  <2>4. iblt' \in Iblt
    BY SMT, <1>3, <1>4, <2>1, <2>3 DEF Iblt
  <2>. QED  BY <1>2, <1>4, <2>1, <2>3, <2>4 DEF IbltBalanced, Ignoring
<1>. QED  BY <1>5, <1>6

\* One more hash in the iblt, and a timer to remove it (ignorePub).
LEMMA IgnoreBalanced ==
    ASSUME BInv, NEW p \in Pub, IgnorePub(p)
    PROVE  /\ iblt' \in Iblt /\ timers' \subseteq Timer
           /\ IsFiniteSet(timers') /\ IbltBalanced'
<1>1. PICK no \in 1..IgnoreMax :
         LET t == [After("unignore", p, Lifetime + Skew) EXCEPT !.no = no]
         IN  t \notin timers /\ timers' = timers \cup {t}
  BY DEF IgnorePub
<1>. DEFINE t == [After("unignore", p, Lifetime + Skew) EXCEPT !.no = no]
<1>2. t \in Timer /\ t.kind = "unignore" /\ t.pub = p
  BY SMT, TimesAssumption DEF After, Timer, Kind, BInv, TypeOK
<1>3. t \notin timers /\ timers' = timers \cup {t}
  BY <1>1
<1>. HIDE DEF t
<1>4. timers' \subseteq Timer /\ IsFiniteSet(timers')
  BY <1>2, <1>3, FS_AddElement DEF BInv, TypeOK
<1>5. st' = st /\ iblt' = [q \in Pub |-> IF q \in {p} THEN iblt[q] + 1 ELSE iblt[q]]
  BY DEF IgnorePub, Insert
<1>6. iblt' \in Iblt
  BY SMT, <1>5 DEF BInv, TypeOK, Iblt
<1>7. ASSUME NEW q \in Pub
      PROVE  iblt'[q] = (IF st'[q] \in Active THEN 1 ELSE 0) + Cardinality(Ignoring(q, timers'))
  <2>1. /\ iblt[q] = (IF st[q] \in Active THEN 1 ELSE 0) + Cardinality(Ignoring(q, timers))
        /\ Cardinality(Ignoring(q, timers)) \in Nat
    BY IgnoringNat DEF BInv, IbltBalanced, Ignoring
  <2>2. CASE q # p
    BY <1>2, <1>3, <1>5, <2>1, <2>2, IgnoringOne DEF BInv
  <2>3. CASE q = p
    <3>1. Cardinality(Ignoring(q, timers')) = Cardinality(Ignoring(q, timers)) + 1
      BY <1>2, <1>3, <2>3, IgnoringOne DEF BInv
    <3>2. iblt'[q] = iblt[q] + 1 /\ st'[q] = st[q]
      BY <1>5, <2>3
    <3>. QED  BY SMT, <2>1, <3>1, <3>2
  <2>. QED  BY <2>2, <2>3
<1>. QED  BY <1>4, <1>6, <1>7 DEF IbltBalanced, Ignoring

\* The empty collection is balanced.
LEMMA InitBalanced == Init => BInv
<1>. SUFFICES ASSUME Init PROVE BInv
  OBVIOUS
<1>1. TypeOK
  <2>1. ts \in [Pub -> Int] /\ now \in 0..MaxNow
    BY SMT, TimesAssumption DEF Init
  <2>. QED  BY <2>1 DEF Init, TypeOK, Status, Iblt
<1>2. \A p \in Pub : Ignoring(p, timers) = {}
  BY DEF Init, Ignoring
<1>3. IsFiniteSet(timers) /\ \A p \in Pub : Cardinality(Ignoring(p, timers)) = 0
  BY <1>2, FS_EmptySet DEF Init
<1>4. IbltBalanced
  <2>1. \A p \in Pub : iblt[p] = (IF st[p] \in Active THEN 1 ELSE 0)
                                 + Cardinality(Ignoring(p, timers))
    <3>. TAKE p \in Pub
    <3>1. iblt[p] = 0 /\ st[p] \notin Active
      BY DEF Init, Active
    <3>2. Cardinality(Ignoring(p, timers)) = 0
      BY <1>3
    <3>. QED  BY SMT, <3>1, <3>2
  <2>. QED  BY <2>1 DEF IbltBalanced, Ignoring
<1>. QED  BY <1>1, <1>3, <1>4 DEF BInv

\* Every call and every timer of the collection keeps the balance.
LEMMA NextBalanced == BInv /\ [Next]_vars => BInv'
<1>. SUFFICES ASSUME BInv, [Next]_vars PROVE BInv'
  OBVIOUS
<1>1. CASE Tick \/ Subscribe \/ Unsubscribe \/ UNCHANGED vars
  <2>1. UNCHANGED <<st, iblt, ts, cbs, timers, told>>
    BY <1>1 DEF Tick, Subscribe, Unsubscribe, vars
  <2>2. now' \in 0..MaxNow /\ subscribed' \in BOOLEAN /\ got' \in [Pub -> Nat]
    <3>1. CASE Tick
      BY SMT, <3>1, TimesAssumption DEF Tick, BInv, TypeOK
    <3>2. CASE Subscribe
      BY SMT, <3>2 DEF Subscribe, BInv, TypeOK
    <3>3. CASE Unsubscribe
      BY <3>3 DEF Unsubscribe, BInv, TypeOK
    <3>. QED  BY <1>1, <3>1, <3>2, <3>3 DEF vars, BInv, TypeOK
  <2>. QED  BY <2>1, <2>2 DEF BInv, TypeOK, IbltBalanced
<1>2. ASSUME NEW p \in Pub, Publish(p) PROVE BInv'
  <2>1. st[p] \notin Present /\ "local" \in Active /\ AddToActive(p, "local")
    BY <1>2 DEF Publish, Present, Active
  <2>2. /\ st' \in [Pub -> Status] /\ iblt' \in Iblt /\ timers' \subseteq Timer
        /\ IsFiniteSet(timers') /\ IbltBalanced'
    BY <2>1, AddBalanced
  <2>. QED  BY <1>2, <2>2 DEF Publish, BInv, TypeOK
<1>3. ASSUME NEW p \in Pub, Acknowledge(p) PROVE BInv'
  <2>1. told' \in [Pub -> Nat] /\ cbs' \subseteq WithCb
    BY SMT, <1>3 DEF Acknowledge, BInv, TypeOK
  <2>. QED  BY <1>3, <2>1 DEF Acknowledge, BInv, TypeOK, IbltBalanced
<1>4. ASSUME NEW p \in Pub, NEW valid \in BOOLEAN, OnCAdd(p, valid) PROVE BInv'
  <2>1. /\ st[p] \notin Present /\ got' \in [Pub -> Nat]
        /\ UNCHANGED <<now, ts, cbs, subscribed, told>>
    BY SMT, <1>4 DEF OnCAdd, IgnorePub, BInv, TypeOK
  <2>2. CASE IgnorePub(p)
    <3>1. st' = st
      BY <2>2 DEF IgnorePub
    <3>. QED  BY <2>1, <2>2, <3>1, IgnoreBalanced DEF BInv, TypeOK
  <2>3. CASE AddToActive(p, "net")
    <3>1. "net" \in Active
      BY DEF Active
    <3>. QED  BY <2>1, <2>3, <3>1, AddBalanced DEF BInv, TypeOK
  <2>. QED  BY <1>4, <2>2, <2>3 DEF OnCAdd
<1>5. ASSUME NEW t \in timers, Fire(t) PROVE BInv'
  <2>1. /\ st' \in [Pub -> Status] /\ iblt' \in Iblt /\ timers' \subseteq Timer
        /\ IsFiniteSet(timers') /\ IbltBalanced'
    BY <1>5, FireBalanced
  <2>2. UNCHANGED <<now, ts, subscribed, got>> /\ told' \in [Pub -> Nat] /\ cbs' \subseteq WithCb
    BY SMT, <1>5 DEF Fire, Timeout, Deactivate, Erase, Unignore, BInv, TypeOK
  <2>. QED  BY <2>1, <2>2 DEF BInv, TypeOK
<1>. QED  BY <1>1, <1>2, <1>3, <1>4, <1>5 DEF Next

\* The first invariant.
THEOREM Balance == Spec => []BInv
BY InitBalanced, NextBalanced, PTL DEF Spec

\* Type correctness of the collection with its timers; in particular no count of
\* a hash in the iblt becomes negative.
THEOREM TypeCorrect == Spec => []TypeOK
<1>1. BInv => TypeOK
  BY DEF BInv
<1>. QED  BY <1>1, Balance, PTL

\* The iblt holds each active entry once and what is being ignored, in whatever
\* order the timers of addToActive and ignorePub fire.
THEOREM IbltMatchesMap == Spec => []IbltBalanced
<1>1. BInv => IbltBalanced
  BY DEF BInv
<1>. QED  BY <1>1, Balance, PTL
-------------------------------------------------------------------------------
\* What the delivery callbacks have been told, by the state of the entry.
ToldBy(p) ==
    /\ told[p] \in {0, 1}
    /\ p \in cbs <=> st[p] = "local" /\ told[p] = 0
    /\ st[p] = "none" => told[p] = 0
    /\ st[p] \notin {"none", "local"} => told[p] = 1

\* While a callback waits, its timeout comes before any other timer of its entry.
TimeoutFirst ==
    \A t \in timers : t.kind \in {"deactivate", "erase"} /\ t.pub \in cbs =>
        \E u \in timers : u.kind = "timeout" /\ u.pub = t.pub /\ u.at < t.at

\* Only the entries that were added have such timers.
EntryTimers ==
    \A t \in timers : t.kind # "unignore" => st[t.pub] # "none"

TInv == /\ \A p \in WithCb : ToldBy(p)
        /\ TimeoutFirst /\ EntryTimers

\* There are no callbacks and no timers at first.
LEMMA InitTold == Init => TInv
BY OwnsAssumption DEF Init, TInv, ToldBy, TimeoutFirst, EntryTimers

\* addToActive keeps the order of the timers, for a publication that is new or
\* has no callback waiting.
LEMMA AddTold ==
    ASSUME BInv, TInv, NEW p \in Pub, NEW v \in Active, AddToActive(p, v),
           st[p] = "none" \/ p \notin cbs', cbs' \subseteq cbs \cup {p}, v # "local" => p \notin cbs'
    PROVE  TimeoutFirst' /\ EntryTimers' /\ st' = [st EXCEPT ![p] = v]
<1>1. PICK N \in SUBSET Timer :
              /\ timers' = timers \cup N
              /\ \A t \in N : /\ t.pub = p /\ t.kind # "unignore"
                              /\ v = "local" /\ t.kind \in {"deactivate", "erase"} =>
                                    \E u \in N : u.kind = "timeout" /\ u.at < t.at
  BY SMT, AddTimers DEF BInv
<1>2. st' = [st EXCEPT ![p] = v]
  BY DEF AddToActive, AddEntries, BInv, TypeOK
<1>3. EntryTimers'
  BY <1>1, <1>2 DEF TInv, EntryTimers, BInv, TypeOK, Active, Timer
<1>4. TimeoutFirst'
  <2>. SUFFICES ASSUME NEW t \in timers', t.kind \in {"deactivate", "erase"}, t.pub \in cbs'
                PROVE  \E u \in timers' : u.kind = "timeout" /\ u.pub = t.pub /\ u.at < t.at
    BY DEF TimeoutFirst
  <2>1. CASE t \in N
    BY <1>1, <2>1
  <2>2. CASE t \in timers
    <3>1. t.pub # p
      BY <2>2 DEF TInv, EntryTimers
    <3>. QED  BY <1>1, <2>2, <3>1 DEF TInv, TimeoutFirst
  <2>. QED  BY <1>1, <2>1, <2>2
<1>. QED  BY <1>2, <1>3, <1>4

\* When a timer that ends an entry fires, no callback of that entry is waiting.
LEMMA FireTold ==
    ASSUME BInv, TInv, NEW t \in timers, Fire(t)
    PROVE  TInv'
<1>1. /\ t \in Timer /\ t.pub \in Pub /\ timers' = timers \ {t}
      /\ \A u \in timers : t.at <= u.at
      /\ \A u \in timers : u.at \in Int
  BY DEF BInv, TypeOK, Fire, Timer
<1>2. t.kind \in {"deactivate", "erase"} => t.pub \notin cbs
  <2>. SUFFICES ASSUME t.kind \in {"deactivate", "erase"}, t.pub \in cbs PROVE FALSE
    OBVIOUS
  <2>1. PICK u \in timers : u.at < t.at
    BY DEF TInv, TimeoutFirst
  <2>. QED  BY SMT, <1>1, <2>1
<1>3. /\ cbs' = cbs \/ (t.kind = "timeout" /\ cbs' = cbs \ {t.pub})
      /\ \A p \in Pub : st[p] # "none" <=> st'[p] # "none"
  BY <1>1 DEF Fire, Timeout, Deactivate, Erase, Unignore, BInv, TypeOK, Active, Present
<1>4. EntryTimers'
  BY <1>1, <1>3 DEF TInv, EntryTimers, BInv, TypeOK, Timer
<1>5. TimeoutFirst'
  <2>. SUFFICES ASSUME NEW r \in timers', r.kind \in {"deactivate", "erase"}, r.pub \in cbs'
                PROVE  \E u \in timers' : u.kind = "timeout" /\ u.pub = r.pub /\ u.at < r.at
    BY DEF TimeoutFirst
  <2>1. PICK u \in timers : u.kind = "timeout" /\ u.pub = r.pub /\ u.at < r.at
    BY <1>1, <1>3 DEF TInv, TimeoutFirst
  <2>2. t.kind = "timeout" => cbs' = cbs \ {t.pub}
    BY DEF Fire, Timeout
  <2>3. u # t
    BY <2>1, <2>2
  <2>. QED  BY <1>1, <2>1, <2>3
<1>6. ASSUME NEW p \in WithCb PROVE ToldBy(p)'
  <2>1. p \in Pub /\ ToldBy(p)
    BY OwnsAssumption DEF TInv
  <2>2. CASE Timeout(t.pub)
    BY SMT, <1>1, <2>1, <2>2 DEF Timeout, ToldBy, BInv, TypeOK
  <2>3. CASE Deactivate(t.pub) /\ t.kind = "deactivate"
    BY <1>1, <1>2, <2>1, <2>3 DEF Deactivate, ToldBy, BInv, TypeOK, Active
  <2>4. CASE Erase(t.pub) /\ t.kind = "erase"
    BY <1>1, <1>2, <2>1, <2>4 DEF Erase, ToldBy, BInv, TypeOK, Present
  <2>5. CASE Unignore(t.pub)
    BY <2>1, <2>5 DEF Unignore, ToldBy
  <2>. QED  BY <2>2, <2>3, <2>4, <2>5 DEF Fire
<1>. QED  BY <1>4, <1>5, <1>6 DEF TInv

\* Every call and every timer keeps the callbacks exact.
LEMMA NextTold == BInv /\ TInv /\ [Next]_vars => TInv'
<1>. SUFFICES ASSUME BInv, TInv, [Next]_vars PROVE TInv'
  OBVIOUS
<1>1. CASE Tick \/ Subscribe \/ Unsubscribe \/ UNCHANGED vars
  <2>1. UNCHANGED <<st, cbs, timers, told>>
    BY <1>1 DEF Tick, Subscribe, Unsubscribe, vars
  <2>. QED  BY <2>1 DEF TInv, ToldBy, TimeoutFirst, EntryTimers
<1>2. ASSUME NEW p \in Pub, Publish(p) PROVE TInv'
  <2>1. /\ st[p] = "none" /\ AddToActive(p, "local") /\ "local" \in Active
        /\ cbs' = cbs \cup ({p} \cap WithCb) /\ told' = told
    BY <1>2 DEF Publish, Active
  <2>2. TimeoutFirst' /\ EntryTimers' /\ st' = [st EXCEPT ![p] = "local"]
    BY <2>1, AddTold
  <2>3. \A q \in WithCb : ToldBy(q)'
    BY <2>1, <2>2, OwnsAssumption DEF TInv, ToldBy, BInv, TypeOK
  <2>. QED  BY <2>2, <2>3 DEF TInv
<1>3. ASSUME NEW p \in Pub, Acknowledge(p) PROVE TInv'
  <2>1. \A q \in WithCb : ToldBy(q)'
    BY SMT, <1>3, OwnsAssumption DEF Acknowledge, TInv, ToldBy, BInv, TypeOK
  <2>2. TimeoutFirst' /\ EntryTimers'
    BY <1>3 DEF Acknowledge, TInv, TimeoutFirst, EntryTimers
  <2>. QED  BY <2>1, <2>2 DEF TInv
<1>4. ASSUME NEW p \in Pub, NEW valid \in BOOLEAN, OnCAdd(p, valid) PROVE TInv'
  <2>1. cbs' = cbs /\ told' = told /\ st[p] \notin Present /\ (p \in Own => st[p] = "gone")
    BY <1>4 DEF OnCAdd
  <2>2. CASE IgnorePub(p)
    <3>1. st' = st /\ \E t \in Timer : t.kind = "unignore" /\ timers' = timers \cup {t}
      BY SMT, <2>2, TimesAssumption DEF IgnorePub, After, Timer, Kind, BInv, TypeOK
    <3>. QED  BY <2>1, <3>1 DEF TInv, ToldBy, TimeoutFirst, EntryTimers
  <2>3. CASE AddToActive(p, "net")
    <3>1. "net" \in Active /\ p \notin cbs
      BY <2>1 DEF Active, Present, TInv, ToldBy, BInv, TypeOK
    <3>2. TimeoutFirst' /\ EntryTimers' /\ st' = [st EXCEPT ![p] = "net"]
      BY <2>1, <2>3, <3>1, AddTold
    <3>3. \A q \in WithCb : ToldBy(q)'
      BY <2>1, <3>2, OwnsAssumption DEF TInv, ToldBy, BInv, TypeOK
    <3>. QED  BY <3>2, <3>3 DEF TInv
  <2>. QED  BY <1>4, <2>2, <2>3 DEF OnCAdd
<1>5. ASSUME NEW t \in timers, Fire(t) PROVE TInv'
  BY <1>5, FireTold
<1>. QED  BY <1>1, <1>2, <1>3, <1>4, <1>5 DEF Next

\* A delivery callback is called once while its publication lives, by the peer's
\* cState or by the timeout, and never after that (publish, doDeliveryCb).
THEOREM CallbacksExact == Spec => []ToldOnce
<1>1. TInv => ToldOnce
  BY SMT, OwnsAssumption DEF TInv, ToldBy, ToldOnce
<1>. QED  BY <1>1, InitTold, NextTold, Balance, PTL DEF Spec
-------------------------------------------------------------------------------
\* An entry is erased when its publication has expired for isExpired_, so that
\* only a publication that is not there yet can become active.
EraseLate ==
    \A t \in timers : t.kind = "erase" => t.at >= ts[t.pub] + Lifetime + Skew

GotBy(p) ==
    /\ st[p] = "gone" => now - ts[p] >= Lifetime + Skew
    /\ p \in Own => st[p] # "net"
    /\ got[p] \in {0, 1}
    /\ st[p] = "none" \/ p \in Own \/ ~subscribed => got[p] = 0
    /\ subscribed /\ st[p] = "net" => got[p] = 1

DInv == EraseLate /\ \A p \in Pub : GotBy(p)

\* Nothing has been received at first.
LEMMA InitOnce == Init => DInv
BY DEF Init, DInv, EraseLate, GotBy

\* Activating a publication whose timestamp is less than the skew ahead of the
\* clock schedules its erasure late enough, with a guard band of twice the skew.
LEMMA AddLate ==
    ASSUME GB >= 2 * Skew, BInv, DInv, NEW p \in Pub, NEW v \in Active, AddToActive(p, v),
           now - ts[p] > -Skew, ts' = ts
    PROVE  EraseLate' /\ st' = [st EXCEPT ![p] = v]
<1>1. PICK N \in SUBSET Timer :
              /\ timers' = timers \cup N
              /\ \A t \in N : t.pub = p /\ (t.kind = "erase" => t.at = now + Lifetime + GB)
  BY SMT, AddTimers DEF BInv
<1>2. now + Lifetime + GB >= ts[p] + Lifetime + Skew
  <2>1. now \in Int /\ ts[p] \in Int /\ Skew \in Int /\ GB \in Int /\ Lifetime \in Int
    BY SMT, TimesAssumption DEF BInv, TypeOK
  <2>. QED  BY SMT, <2>1
<1>3. EraseLate'
  BY <1>1, <1>2 DEF DInv, EraseLate
<1>. QED  BY <1>3 DEF AddToActive, AddEntries, BInv, TypeOK

\* No call and no timer makes a publication active a second time.
LEMMA NextOnce ==
    ASSUME GB >= 2 * Skew PROVE BInv /\ DInv /\ [Next]_vars => DInv'
<1>. SUFFICES ASSUME BInv, DInv, [Next]_vars PROVE DInv'
  OBVIOUS
<1>. USE TimesAssumption, OwnsAssumption
<1>1. CASE Tick
  <2>1. now \in Int /\ now' = now + 1 /\ UNCHANGED <<st, ts, timers, subscribed, got>>
    BY SMT, <1>1 DEF Tick, BInv, TypeOK
  <2>2. \A p \in Pub : ts[p] \in Int
    BY DEF BInv, TypeOK
  <2>. QED  BY SMT, <2>1, <2>2 DEF DInv, EraseLate, GotBy
<1>2. CASE Subscribe
  BY SMT, <1>2 DEF Subscribe, DInv, EraseLate, GotBy, BInv, TypeOK
<1>3. CASE Unsubscribe
  BY <1>3 DEF Unsubscribe, DInv, EraseLate, GotBy
<1>4. CASE UNCHANGED vars
  BY <1>4 DEF vars, DInv, EraseLate, GotBy
<1>5. ASSUME NEW p \in Pub, Acknowledge(p) PROVE DInv'
  BY <1>5 DEF Acknowledge, DInv, EraseLate, GotBy
<1>6. ASSUME NEW p \in Pub, Publish(p) PROVE DInv'
  <2>1. now - ts[p] > -Skew
    BY SMT, <1>6 DEF Publish, BInv, TypeOK
  <2>2. EraseLate' /\ st' = [st EXCEPT ![p] = "local"]
    BY <1>6, <2>1, AddLate DEF Publish, Active
  <2>3. \A q \in Pub : GotBy(q)'
    BY <1>6, <2>2 DEF Publish, DInv, GotBy, BInv, TypeOK
  <2>. QED  BY <2>2, <2>3 DEF DInv
<1>7. ASSUME NEW p \in Pub, NEW valid \in BOOLEAN, OnCAdd(p, valid) PROVE DInv'
  <2>1. /\ UNCHANGED <<now, ts, subscribed>>
        /\ st[p] \notin Present /\ (p \in Own => st[p] = "gone")
    BY <1>7 DEF OnCAdd
  <2>2. CASE IgnorePub(p)
    <3>1. UNCHANGED <<st, got>> /\ \E t \in Timer : t.kind = "unignore" /\ timers' = timers \cup {t}
      BY SMT, <2>2 DEF IgnorePub, After, Timer, Kind, BInv, TypeOK
    <3>. QED  BY <2>1, <3>1 DEF DInv, EraseLate, GotBy
  <2>3. CASE /\ ~IsExpired(p) /\ AddToActive(p, "net")
             /\ got' = IF subscribed THEN [got EXCEPT ![p] = @ + 1] ELSE got
    <3>1. now - ts[p] > -Skew /\ ~(now - ts[p] >= Lifetime + Skew)
      BY SMT, <2>3 DEF IsExpired, BInv, TypeOK
    <3>2. EraseLate' /\ st' = [st EXCEPT ![p] = "net"]
      BY <2>1, <2>3, <3>1, AddLate DEF Active
    <3>3. st[p] = "none" /\ p \notin Own /\ got[p] = 0
      BY <2>1, <3>1 DEF DInv, GotBy, BInv, TypeOK, Status, Present, Active
    <3>4. got' \in [Pub -> Nat] /\ got'[p] = (IF subscribed THEN 1 ELSE 0)
          /\ \A q \in Pub \ {p} : got'[q] = got[q]
      BY SMT, <2>3, <3>3 DEF BInv, TypeOK
    <3>5. \A q \in Pub : GotBy(q)'
      BY <2>1, <3>2, <3>3, <3>4 DEF DInv, GotBy, BInv, TypeOK
    <3>. QED  BY <3>2, <3>5 DEF DInv
  <2>. QED  BY <1>7, <2>2, <2>3 DEF OnCAdd
<1>8. ASSUME NEW t \in timers, Fire(t) PROVE DInv'
  <2>1. /\ t.pub \in Pub /\ t.at \in Int /\ t.at <= now /\ now \in Int /\ ts[t.pub] \in Int
        /\ timers' = timers \ {t} /\ UNCHANGED <<now, ts, subscribed, got>>
    BY SMT, <1>8 DEF Fire, BInv, TypeOK, Timer
  <2>2. \/ st' = st
        \/ st[t.pub] # "none" /\ st' = [st EXCEPT ![t.pub] = "held"]
        \/ st[t.pub] # "none" /\ t.kind = "erase" /\ st' = [st EXCEPT ![t.pub] = "gone"]
    BY <1>8 DEF Fire, Timeout, Deactivate, Erase, Unignore, Active, Present
  <2>3. t.kind = "erase" => now - ts[t.pub] >= Lifetime + Skew
    BY SMT, <2>1 DEF DInv, EraseLate
  <2>4. EraseLate'
    BY <2>1 DEF DInv, EraseLate
  <2>5. \A q \in Pub : GotBy(q)'
    BY <2>1, <2>2, <2>3 DEF DInv, GotBy, BInv, TypeOK
  <2>. QED  BY <2>4, <2>5 DEF DInv
<1>. QED  BY <1>1, <1>2, <1>3, <1>4, <1>5, <1>6, <1>7, <1>8 DEF Next

\* With a guard band of at least twice the clock skew, as the default one is,
\* a subscription gets no publication twice, however often and late it arrives
\* again and however late the timers fire (addToActive, onCAdd).
THEOREM NoRedelivery ==
    ASSUME GB >= 2 * Skew PROVE Spec => []DeliveredOnce
<1>1. DInv => DeliveredOnce
  <2>. SUFFICES ASSUME DInv, NEW p \in Pub
                PROVE  /\ got[p] <= IF p \in Own THEN 0 ELSE 1
                       /\ subscribed /\ st[p] = "net" => got[p] = 1
    BY DEF DeliveredOnce
  <2>1. GotBy(p)
    BY DEF DInv
  <2>2. CASE got[p] = 0
    BY SMT, <2>1, <2>2 DEF GotBy
  <2>3. CASE got[p] = 1
    BY SMT, <2>1, <2>3 DEF GotBy
  <2>. QED  BY <2>1, <2>2, <2>3 DEF GotBy
<1>2. BInv /\ DInv /\ [Next]_vars => DInv'
  BY NextOnce
<1>. QED  BY <1>1, <1>2, InitOnce, Balance, PTL DEF Spec
================================================================================
