--------------------------------- MODULE IBLT ---------------------------------
(***************************************************************************)
(* The invertible Bloom lookup tables that cStates carry (iblt.hpp): a     *)
(* node's table as its collection inserts and erases hashes, the run-      *)
(* length encoding of a table in a cState's name, and peel, which finds    *)
(* what two collections do not have in common. The collection of the other *)
(* modules (Collection) takes the result of peel to be that difference.    *)
(*                                                                         *)
(* keySum and keyCheck are xors: together they are modelled by the set of  *)
(* the keys that went in an odd number of times. So the sum of several     *)
(* keys does not look like one key, which is what keyCheck is for.         *)
(***************************************************************************)
EXTENDS Integers, FiniteSets, Sequences

CONSTANTS Key,      \* hashes of publications
          Twice,    \* those that ignorePub may insert a second time
          StSize,   \* stsize, the size of each of the three sub-tables
          Hashes    \* functions from Key to its three places, one in each sub-table

MAXCNT == 128

Cell == 0..3 * StSize - 1

ASSUME HashesAssumption ==
    StSize \in Nat \ {0} /\ Hashes \subseteq [Key -> [0..2 -> 0..StSize - 1]]

\* nEntries "must be <128", and so must the count of an entry ("encoded as a byte"), with
\* all keys that have a place there in the table twice
ASSUME SizeAssumption ==
    /\ 3 * StSize < MAXCNT
    /\ IsFiniteSet(Key)
    /\ \A h \in Hashes, c \in Cell :
          2 * Cardinality({k \in Key : \E j \in 0..2 : c = 3 * h[k][j] + j}) < MAXCNT

VARIABLES hash,           \* the hash function (constant)
          mine, own,      \* a node's table, and how often each key is in it
          peer,           \* the keys of the peer, as often as they are in its table (constant)
          pc,             \* "idle" or "peel"
          have, need,     \* what peel has found
          peeled, i, some \* its copy of the difference, the entry it looks at, and
                          \* peeledSomething

ibltVars == <<hash, mine, own, peer, pc, have, need, peeled, i, some>>
-------------------------------------------------------------------------------
EmptyTable == [c \in Cell |-> [count |-> 0, sum |-> {}]]

IsPure(e) == e.count \in {1, -1} /\ Cardinality(e.sum) = 1

IsEmpty(e) == e.count = 0 /\ e.sum = {}

Xor(S, T) == (S \cup T) \ (S \cap T)

\* hash
Places(k) == {3 * hash[k][j] + j : j \in 0..2}

\* update, of the three entries of a key
Update(t, n, k) ==
    [c \in Cell |-> IF c \in Places(k)
                    THEN [count |-> t[c].count + n, sum |-> Xor(t[c].sum, {k})] ELSE t[c]]

\* Mutant: any pure entry is one that does not contain the key
BadPeersPure(t, k) == \E c \in Places(k) : IsEmpty(t[c]) \/ IsPure(t[c])

BadPeers(t, k) == \E c \in Places(k) : IsEmpty(t[c]) \/ (IsPure(t[c]) /\ t[c].sum # {k})

Insert(t, k) == Update(t, 1, k)

Erase(t, k) == IF BadPeers(t, k) THEN t ELSE Update(t, -1, k)

\* operator-
Minus(t, u) == [c \in Cell |-> [count |-> t[c].count - u[c].count,
                                sum |-> Xor(t[c].sum, u[c].sum)]]

\* rlEncode, one entry: a byte for the run of empty entries before it, its count and sums
EncodeEntry(e, r) ==
    IF IsEmpty(e) THEN [r EXCEPT !.cnt = @ + 1]
    ELSE [cnt |-> 0,
          rle |-> (IF r.cnt # 0 THEN Append(r.rle, <<r.cnt + MAXCNT, {}>>) ELSE r.rle)
                  \o << <<e.count % (2 * MAXCNT), e.sum>> >>]

Encoding(t) ==
    LET enc[c \in 0..3 * StSize] ==
            IF c = 0 THEN [cnt |-> 0, rle |-> <<>>] ELSE EncodeEntry(t[c - 1], enc[c - 1])
    IN  enc

\* Runs at the end are left out. (A run is shorter than MAXCNT.)
RlEncode(t) ==
    LET end == Encoding(t)[3 * StSize]
    IN  IF end.rle = <<>> THEN << <<end.cnt + MAXCNT, {}>> >> ELSE end.rle

\* rlDecode, a run or an entry
DecodeItem(b, d) ==
    IF b[1] >= MAXCNT
    THEN [d EXCEPT !.i = @ + (IF b[1] > MAXCNT THEN b[1] - MAXCNT ELSE MAXCNT)]
    ELSE [i |-> d.i + 1, t |-> [d.t EXCEPT ![d.i] = [count |-> b[1], sum |-> b[2]]]]

Decoding(rle) ==
    LET dec[j \in 0..Len(rle)] ==
            IF j = 0 THEN [i |-> 0, t |-> EmptyTable] ELSE DecodeItem(rle[j], dec[j - 1])
    IN  dec

RlDecode(rle) == Decoding(rle)[Len(rle)].t

\* What a table should be when each key k is in it bag[k] times: the count of an entry
\* is the number of keys there, and its sum has those that are there an odd number of
\* times
TableOf(bag) ==
    [c \in Cell |->
        LET here == {k \in Key : c \in Places(k)}
        IN  [count |-> Cardinality({k \in here : bag[k] > 0}) + Cardinality({k \in here : bag[k] = 2}),
             sum   |-> {k \in here : bag[k] = 1}]]
-------------------------------------------------------------------------------
IbltInit ==
    /\ hash \in Hashes
    /\ own = [k \in Key |-> 0] /\ mine = EmptyTable
    /\ peer \in {b \in [Key -> 0..2] : \A k \in Key \ Twice : b[k] < 2}
    /\ pc = "idle" /\ have = {} /\ need = {}
    /\ peeled = EmptyTable /\ i = 0 /\ some = FALSE

\* The collection inserts a new hash, or ignorePub one that is there
Add(k) ==
    /\ pc = "idle" /\ own[k] < (IF k \in Twice THEN 2 ELSE 1)
    /\ mine' = Insert(mine, k) /\ own' = [own EXCEPT ![k] = @ + 1]
    /\ UNCHANGED <<hash, peer, pc, have, need, peeled, i, some>>

\* It erases one
Drop(k) ==
    /\ pc = "idle" /\ own[k] > 0
    /\ mine' = Erase(mine, k) /\ own' = [own EXCEPT ![k] = @ - 1]
    /\ UNCHANGED <<hash, peer, pc, have, need, peeled, i, some>>

\* A cState arrives: its table is subtracted from ours, and the rest is peeled. (The
\* peer's table is what it should be, as ours is: TableExact.)
Compare ==
    /\ pc = "idle" /\ pc' = "peel"
    /\ peeled' = Minus(mine, RlDecode(RlEncode(TableOf(peer))))
    /\ have' = {} /\ need' = {} /\ i' = 0 /\ some' = FALSE
    /\ UNCHANGED <<hash, mine, own, peer>>

\* Mutants: a key that was found stays in the table; it is taken out the wrong way
PeelEntryKept ==
    /\ pc = "peel" /\ i \in Cell /\ i' = i + 1
    /\ some' = (some \/ IsPure(peeled[i]))
    /\ UNCHANGED <<hash, mine, own, peer, pc, have, need, peeled>>

PeelEntryBlind ==
    /\ pc = "peel" /\ i \in Cell /\ i' = i + 1
    /\ IF IsPure(peeled[i])
       THEN /\ have' = have \cup peeled[i].sum /\ some' = TRUE
            /\ peeled' = Update(peeled, -1, CHOOSE k \in peeled[i].sum : TRUE)
       ELSE UNCHANGED <<have, some, peeled>>
    /\ UNCHANGED <<hash, mine, own, peer, pc, need>>

\* peel, one entry of a pass: its key is taken out of the table; inconsistent entries
\* end it all
PeelEntry ==
    /\ pc = "peel" /\ i \in Cell
    /\ IF ~IsPure(peeled[i])
       THEN i' = i + 1 /\ UNCHANGED <<pc, have, need, peeled, some>>
       ELSE LET k == CHOOSE k \in peeled[i].sum : TRUE
            IN  IF BadPeers(peeled, k)
                THEN pc' = "idle" /\ UNCHANGED <<have, need, peeled, i, some>>
                ELSE /\ IF peeled[i].count > 0
                        THEN have' = have \cup {k} /\ UNCHANGED need
                        ELSE need' = need \cup {k} /\ UNCHANGED have
                     /\ peeled' = Update(peeled, -peeled[i].count, k)
                     /\ some' = TRUE /\ i' = i + 1 /\ UNCHANGED pc
    /\ UNCHANGED <<hash, mine, own, peer>>

\* The end of a pass: another one if it has found something
PeelPass ==
    /\ pc = "peel" /\ i \notin Cell
    /\ IF some THEN i' = 0 /\ some' = FALSE /\ UNCHANGED pc
       ELSE pc' = "idle" /\ UNCHANGED <<i, some>>
    /\ UNCHANGED <<hash, mine, own, peer, have, need, peeled>>

IbltNext == \/ \E k \in Key : Add(k) \/ Drop(k)
            \/ Compare \/ PeelEntry \/ PeelPass

IbltSpec == IbltInit /\ [][IbltNext]_ibltVars
-------------------------------------------------------------------------------
\* A node's table says at all times what is in its collection. In particular erase
\* never takes a hash that was inserted for an invalid one (badPeers), however others
\* share its entries or are there twice.
TableExact == mine = TableOf(own)

Differ == {k \in Key : own[k] # peer[k]}

\* Keys that hide each other: each entry of one of them has another
Core == UNION {S \in SUBSET Differ :
                  \A k \in S : \A c \in Places(k) : \E l \in S \ {k} : c \in Places(l)}

\* When peel is through, it has found, each on its side, exactly the keys that are
\* in one collection only, except for those that hide each other: no key that both
\* have, none twice, and none missing because of the order of the entries or of
\* the passes, or of how the peer's table was encoded. Collection's Have and Need
\* are this result. (It takes collections that differ by at most one insertion of
\* each key.) And it never stops early because of inconsistent entries ("invalid
\* iblt: badPeers"), whatever is there twice.
PeelExact ==
    /\ pc = "peel" /\ i \notin Cell /\ ~some /\ (\A k \in Key : own[k] - peer[k] \in -1..1)
        => /\ have = {k \in Differ \ Core : own[k] > peer[k]}
           /\ need = {k \in Differ \ Core : own[k] < peer[k]}
    /\ pc = "peel" /\ i \in Cell /\ IsPure(peeled[i])
        => \A k \in peeled[i].sum : ~BadPeers(peeled, k)

\* peel comes to an end, also when hashes that were inserted twice make entries
\* look pure that are not: the node's event loop waits for it.
PeelEnds == pc = "peel" ~> pc = "idle"
===============================================================================
