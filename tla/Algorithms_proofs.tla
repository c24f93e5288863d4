--------------------------- MODULE Algorithms_proofs ---------------------------
(***************************************************************************)
(* The properties of the sequential algorithms of IBLT, PubNames and       *)
(* SigMgrKeys, for any hashes, placements of them in a table of any size,  *)
(* schemas, signing chains, publishers and keys.                           *)
(*                                                                         *)
(* The ring of keys takes a small invariant (KeysInv). The iblt has three  *)
(* parts: a table is that of its collection (TableInv); decoding undoes    *)
(* encoding, by induction over the entries (lemma UpTo and the invariants  *)
(* of the two loops); and peel finds the difference, since what is left in *)
(* the entries is always the table of the keys not found yet (PeelInv).    *)
(* Names: templates have the values of the discriminators they were made   *)
(* from (NamesInv), so builder and validator compare with the same.        *)
(***************************************************************************)
EXTENDS IBLT, PubNames, SigMgrKeys, FiniteSetTheorems, TLAPS

\* Zenon proves the leaves that do not name another prover.
USE Zenon

\* The types of the key managers, the ring having at most two keys, and what a
\* publisher's decryption key can have been computed from while there is but one key
KeysInv ==
    /\ newest \in Nat /\ decryptIndex \in {0, 1}
    /\ encKey \in [Publisher -> Nat] /\ decKeys \in [Publisher -> Nat]
    /\ keyList \in Seq(Nat \ {0}) /\ Len(keyList) <= 2
    /\ sent \subseteq [from : Publisher, key : Nat \ {0}]
    /\ \A p \in Publisher : /\ Len(keyList) = 0 => decKeys[p] = 0
                            /\ Len(keyList) = 1 => decKeys[p] \in {0, keyList[1]}
    /\ DecryptsRing

\* Every new key, publication and decryption keeps the ring in order (addKey, decrypt).
LEMMA KeysNextInv == KeysInv /\ [KeysNext]_keysVars => KeysInv'
<1> SUFFICES ASSUME KeysInv, [KeysNext]_keysVars PROVE KeysInv'
  OBVIOUS
<1>a. keyList \in Seq(Nat \ {0}) /\ Len(keyList) <= 2 /\ decryptIndex \in {0, 1}
  BY DEF KeysInv
<1>b. /\ Len(keyList) \in {0, 1, 2} /\ DOMAIN keyList = 1..Len(keyList)
      /\ \A j \in 1..Len(keyList) : keyList[j] \in Nat \ {0}
  <2>1. Len(keyList) \in Nat /\ Len(keyList) <= 2 BY SMT, <1>a
  <2>2. Len(keyList) \in {0, 1, 2}
    <3> DEFINE n == Len(keyList)
    <3>1. n \in Nat /\ n <= 2 BY <2>1
    <3> HIDE DEF n
    <3>2. n \in {0, 1, 2} BY SMT, <3>1
    <3> QED BY <3>2 DEF n
  <2>3. DOMAIN keyList = 1..Len(keyList) BY SMT, <1>a
  <2>4. \A j \in 1..Len(keyList) : keyList[j] \in Nat \ {0} BY SMT, <1>a
  <2> QED BY <2>2, <2>3, <2>4
<1>1. CASE MakeKey
  BY SMT, <1>1 DEF MakeKey, KeysInv, DecryptsRing, Kept
<1>2. ASSUME NEW k \in 1..newest, AddKey(k) PROVE KeysInv'
  <2>1. k \in Nat \ {0} BY SMT DEF KeysInv
  <2>2. last'.key = 0 /\ last'.ok BY <1>2 DEF AddKey, Nothing
  <2>3. DecryptsRing' BY <2>2 DEF DecryptsRing
  <2>4. /\ newest' = newest /\ encKey' = encKey /\ decKeys' = decKeys /\ sent' = sent
        /\ decryptIndex' \in {0, 1}
    BY <1>2 DEF AddKey
  <2>5. CASE keyList = <<>>
    <3>1. keyList' = <<k>> /\ Len(keyList) = 0 BY <1>2, <2>5 DEF AddKey
    <3>2. keyList' \in Seq(Nat \ {0}) /\ Len(keyList') = 1 BY SMT, <2>1, <3>1
    <3>3. \A p \in Publisher : decKeys[p] = 0 BY <3>1 DEF KeysInv
    <3> QED BY SMT, <2>3, <2>4, <3>2, <3>3 DEF KeysInv
  <2>6. CASE keyList # <<>>
    <3>1. keyList' = <<k, keyList[1]>> /\ keyList[1] \in Nat \ {0} BY SMT, <1>2, <2>6 DEF AddKey, KeysInv
    <3>2. keyList' \in Seq(Nat \ {0}) /\ Len(keyList') = 2 BY SMT, <2>1, <3>1
    <3> QED BY SMT, <2>3, <2>4, <3>2 DEF KeysInv
  <2> QED BY <2>5, <2>6
<1>3. ASSUME NEW k \in 1..newest, NEW p \in Publisher, NewEncKey(p, k) PROVE KeysInv'
  BY SMT, <1>3 DEF NewEncKey, KeysInv, DecryptsRing, Kept
<1>4. ASSUME NEW p \in Publisher, Sign(p) PROVE KeysInv'
  <2>1. encKey[p] \in Nat BY DEF KeysInv
  <2>2. encKey[p] > 0 /\ sent' = sent \cup {[from |-> p, key |-> encKey[p]]} BY <1>4 DEF Sign
  <2>3. sent' \subseteq [from : Publisher, key : Nat \ {0}] BY SMT, <2>1, <2>2 DEF KeysInv
  <2>4. UNCHANGED <<kind, newest, encKey, keyList, decryptIndex, decKeys, last>> BY <1>4 DEF Sign
  <2> QED BY <2>3, <2>4 DEF KeysInv, DecryptsRing, Kept
<1>5. ASSUME NEW m \in sent, Ring(m) PROVE KeysInv'
  <2>1. /\ newest' = newest /\ encKey' = encKey /\ decKeys' = decKeys /\ sent' = sent
        /\ keyList' = keyList /\ last'.key = m.key
    BY SMT, <1>5 DEF Ring, Result
  <2>2. decryptIndex' = decryptIndex \/ decryptIndex' \in 0..Len(keyList) - 1 BY <1>5 DEF Ring
  <2>3. decryptIndex' \in {0, 1} BY SMT, <1>a, <1>b, <2>2
  <2>4. last'.ok \/ m.key \notin Kept BY SMT, <1>5 DEF Ring, Result, Kept
  <2>5. DecryptsRing' BY <2>1, <2>4 DEF DecryptsRing, Kept
  <2> QED BY <2>1, <2>3, <2>5 DEF KeysInv
<1>6. ASSUME NEW m \in sent, DecKey(m) PROVE KeysInv'
  <2> DEFINE cur == IF decKeys[m.from] = 0 THEN keyList[1] ELSE decKeys[m.from]
             other == keyList[(1 - decryptIndex) + 1]
  <2>1. /\ newest' = newest /\ encKey' = encKey /\ sent' = sent /\ kind' = kind
        /\ keyList' = keyList /\ last'.key = m.key /\ keyList # <<>> /\ kind = "PPAEAD"
    BY SMT, <1>6 DEF DecKey, Result
  <2>2. m.from \in Publisher /\ decKeys[m.from] \in Nat BY DEF KeysInv
  <2>3. CASE Len(keyList) = 1
    <3>a. keyList[1] \in Nat /\ DOMAIN keyList = {1} BY SMT, <1>b, <2>3
    <3>b. decKeys[m.from] \in {0, keyList[1]} BY <2>2, <2>3 DEF KeysInv
    <3>1. cur = keyList[1] /\ cur \in Nat /\ Kept = {cur} BY <3>a, <3>b DEF Kept
    <3>2. /\ decKeys' = [decKeys EXCEPT ![m.from] = cur] /\ decryptIndex' = decryptIndex
          /\ last'.ok \/ m.key # cur
      BY SMT, <1>6, <2>3 DEF DecKey, Result
    <3> HIDE DEF cur
    <3>3. DecryptsRing' BY <2>1, <3>1, <3>2 DEF DecryptsRing, Kept
    <3> QED BY SMT, <2>1, <2>2, <2>3, <3>1, <3>2, <3>3 DEF KeysInv
  <2>4. CASE Len(keyList) # 1
    <3>1. /\ Len(keyList) = 2 /\ keyList[1] \in Nat /\ keyList[2] \in Nat BY SMT, <1>a, <1>b, <2>1, <2>4
    <3>2. cur \in Nat /\ other \in Nat BY SMT, <1>a, <2>2, <3>1
    <3>3. /\ decryptIndex' \in {decryptIndex, 1 - decryptIndex}
          /\ \/ decKeys' = [decKeys EXCEPT ![m.from] = cur]
             \/ decKeys' = [decKeys EXCEPT ![m.from] = other]
      BY <1>6 DEF DecKey
    <3> HIDE DEF cur, other
    <3>a. decKeys \in [Publisher -> Nat] BY DEF KeysInv
    <3>4. decKeys' \in [Publisher -> Nat] BY <3>a, <3>2, <3>3
    <3>b. decryptIndex' \in {0, 1} BY SMT, <1>a, <3>3
    <3>5. DecryptsRing' BY SMT, <2>1, <3>1 DEF DecryptsRing
    <3> QED BY SMT, <2>1, <3>1, <3>4, <3>b, <3>5 DEF KeysInv
  <2> QED BY <2>3, <2>4
<1>7. ASSUME NEW m \in sent, Lose(m) PROVE KeysInv'
  BY <1>7 DEF Lose, KeysInv, DecryptsRing, Kept
<1>8. CASE UNCHANGED keysVars
  BY <1>8 DEF keysVars, KeysInv, DecryptsRing, Kept
<1> QED BY <1>1, <1>2, <1>3, <1>4, <1>5, <1>6, <1>7, <1>8 DEF KeysNext

\* While keys are replaced, publishers change to the new one at any time and messages
\* come late or in any order, one that was encrypted with either of the two newest
\* keys the receiver has is decrypted (validateDecrypt of SigMgrAEAD); for subscriber
\* groups, as long as there is one key only (SigMgrPPAEAD).
THEOREM RingDecrypts == KeysSpec => []DecryptsRing
<1>1. KeysInit => KeysInv
  <2> SUFFICES ASSUME KeysInit PROVE KeysInv
    OBVIOUS
  <2>1. keyList \in Seq(Nat \ {0}) /\ Len(keyList) = 0 BY SMT DEF KeysInit
  <2>2. DecryptsRing BY DEF KeysInit, DecryptsRing, Nothing
  <2> QED BY SMT, <2>1, <2>2 DEF KeysInit, KeysInv
<1>2. KeysInv => DecryptsRing
  BY DEF KeysInv
<1> QED BY <1>1, <1>2, KeysNextInv, PTL DEF KeysSpec
-------------------------------------------------------------------------------
\* The keys in an entry
At(c) == {k \in Key : c \in Places(k)}

\* A key's places are entries of the table.
LEMMA PlacesType ==
    ASSUME hash \in Hashes, NEW k \in Key
    PROVE  Places(k) \subseteq Cell
<1>1. \A j \in 0..2 : hash[k][j] \in 0..StSize - 1
  BY HashesAssumption
<1> SUFFICES ASSUME NEW j \in 0..2 PROVE 3 * hash[k][j] + j \in Cell
  BY DEF Places
<1>2. hash[k][j] \in Int /\ 0 <= hash[k][j] /\ hash[k][j] <= StSize - 1
  BY SMT, <1>1, HashesAssumption
<1> DEFINE h == hash[k][j]
<1> HIDE DEF h
<1>3. h \in Int /\ 0 <= h /\ h <= StSize - 1 BY <1>2 DEF h
<1>4. 3 * h + j \in 0..3 * StSize - 1 BY SMT, <1>3, HashesAssumption
<1> QED BY <1>4 DEF h, Cell

\* Subsets of the keys are finite.
LEMMA KeysFinite ==
    ASSUME NEW S, S \subseteq Key
    PROVE  IsFiniteSet(S) /\ Cardinality(S) \in Nat
BY FS_Subset, FS_CardinalityType, SizeAssumption

\* The types of a node's own table, whose entries have what was put there.
TableInv ==
    /\ hash \in Hashes
    /\ own \in [Key -> 0..2]
    /\ peer \in [Key -> 0..2]
    /\ TableExact

\* Erase finds no fault with a key that is in the table.
LEMMA NoBadPeers ==
    ASSUME TableInv, NEW k \in Key, own[k] > 0
    PROVE  ~BadPeers(mine, k)
<1> SUFFICES ASSUME NEW c \in Places(k)
             PROVE  ~IsEmpty(mine[c]) /\ ~(IsPure(mine[c]) /\ mine[c].sum # {k})
  BY DEF BadPeers
<1> DEFINE A == {l \in At(c) : own[l] > 0}
           B == {l \in At(c) : own[l] = 2}
           C == {l \in At(c) : own[l] = 1}
<1>1. c \in Cell /\ own[k] \in 1..2 BY SMT, PlacesType DEF TableInv
<1>2. mine[c] = [count |-> Cardinality(A) + Cardinality(B), sum |-> C]
  BY <1>1 DEF TableInv, TableExact, TableOf, At
<1>3. k \in A /\ (own[k] = 2 => k \in B) /\ (own[k] = 1 => k \in C) /\ B \subseteq A
  BY SMT, <1>1 DEF At
<1>4. IsFiniteSet(A) /\ IsFiniteSet(B) /\ IsFiniteSet(C)
  BY KeysFinite DEF At
<1> HIDE DEF A, B, C
<1>5. Cardinality(A) \in Nat /\ Cardinality(B) \in Nat /\ Cardinality(A) # 0
  BY <1>3, <1>4, FS_CardinalityType, FS_EmptySet
<1>6. ~IsEmpty(mine[c]) BY SMT, <1>2, <1>5 DEF IsEmpty
<1>7. CASE own[k] = 2
  <2>1. Cardinality(B) # 0 BY <1>3, <1>4, <1>7, FS_EmptySet
  <2> QED BY SMT, <1>2, <1>5, <1>6, <2>1 DEF IsPure
<1>8. CASE own[k] = 1
  <2>1. ASSUME Cardinality(C) = 1 PROVE C = {k}
    <3>1. PICK x : C = {x} BY <2>1, <1>4, FS_Singleton
    <3> QED BY <3>1, <1>3, <1>8
  <2> QED BY SMT, <1>2, <1>6, <2>1 DEF IsPure
<1> QED BY SMT, <1>1, <1>7, <1>8

\* A key that is put into an exact table once more, or taken out, leaves it exact.
LEMMA UpdateExact ==
    ASSUME hash \in Hashes, NEW b \in [Key -> 0..2], NEW k \in Key, NEW n \in {1, -1}, b[k] + n \in 0..2
    PROVE  Update(TableOf(b), n, k) = TableOf([b EXCEPT ![k] = @ + n])
<1> DEFINE b2 == [b EXCEPT ![k] = @ + n]
           P(d, c) == {l \in At(c) : d[l] > 0}
           T(d, c) == {l \in At(c) : d[l] = 2}
           O(d, c) == {l \in At(c) : d[l] = 1}
<1>1. SUFFICES ASSUME NEW c \in Cell PROVE Update(TableOf(b), n, k)[c] = TableOf(b2)[c]
  BY DEF Update, TableOf
<1>2. /\ TableOf(b)[c] = [count |-> Cardinality(P(b, c)) + Cardinality(T(b, c)), sum |-> O(b, c)]
      /\ TableOf(b2)[c] = [count |-> Cardinality(P(b2, c)) + Cardinality(T(b2, c)), sum |-> O(b2, c)]
  BY DEF TableOf, At
<1>3. \A l \in Key : b2[l] = IF l = k THEN b[k] + n ELSE b[l]
  OBVIOUS
<1>4. b[k] \in 0..2
  OBVIOUS
<1>5. CASE c \notin Places(k)
  <2>1. \A l \in At(c) : b2[l] = b[l] BY <1>3, <1>5 DEF At
  <2>2. P(b2, c) = P(b, c) /\ T(b2, c) = T(b, c) /\ O(b2, c) = O(b, c) BY <2>1
  <2>3. Update(TableOf(b), n, k)[c] = TableOf(b)[c] BY <1>5 DEF Update
  <2> HIDE DEF P, T, O, b2
  <2> QED BY <1>2, <2>2, <2>3
<1>6. CASE c \in Places(k)
  <2>1. k \in At(c) BY <1>6 DEF At
  <2>2. Update(TableOf(b), n, k)[c] = [count |-> TableOf(b)[c].count + n, sum |-> Xor(TableOf(b)[c].sum, {k})]
    BY <1>6 DEF Update
  <2>3. /\ IsFiniteSet(P(b, c)) /\ Cardinality(P(b, c)) \in Nat
        /\ IsFiniteSet(T(b, c)) /\ Cardinality(T(b, c)) \in Nat
    BY KeysFinite DEF At
  <2>4. O(b2, c) = Xor(O(b, c), {k}) BY SMT, <1>3, <1>4, <2>1 DEF Xor, At
  <2>5. Cardinality(P(b2, c)) + Cardinality(T(b2, c)) = Cardinality(P(b, c)) + Cardinality(T(b, c)) + n
    <3>1. CASE n = 1 /\ b[k] = 0
      <4>1. P(b2, c) = P(b, c) \cup {k} /\ k \notin P(b, c) /\ T(b2, c) = T(b, c)
        BY SMT, <3>1, <1>3, <2>1 DEF At
      <4> HIDE DEF P, T, b2
      <4>2. Cardinality(P(b, c) \cup {k}) = Cardinality(P(b, c)) + 1 BY <4>1, <2>3, FS_AddElement
      <4> QED BY SMT, <4>1, <4>2, <3>1, <2>3
    <3>2. CASE n = 1 /\ b[k] = 1
      <4>1. T(b2, c) = T(b, c) \cup {k} /\ k \notin T(b, c) /\ P(b2, c) = P(b, c)
        BY SMT, <3>2, <1>3, <2>1 DEF At
      <4> HIDE DEF P, T, b2
      <4>2. Cardinality(T(b, c) \cup {k}) = Cardinality(T(b, c)) + 1 BY <4>1, <2>3, FS_AddElement
      <4> QED BY SMT, <4>1, <4>2, <3>2, <2>3
    <3>3. CASE n = -1 /\ b[k] = 1
      <4>1. P(b2, c) = P(b, c) \ {k} /\ k \in P(b, c) /\ T(b2, c) = T(b, c)
        BY SMT, <3>3, <1>3, <2>1 DEF At
      <4> HIDE DEF P, T, b2
      <4>2. Cardinality(P(b, c) \ {k}) = Cardinality(P(b, c)) - 1 BY <4>1, <2>3, FS_RemoveElement
      <4> QED BY SMT, <4>1, <4>2, <3>3, <2>3
    <3>4. CASE n = -1 /\ b[k] = 2
      <4>1. T(b2, c) = T(b, c) \ {k} /\ k \in T(b, c) /\ P(b2, c) = P(b, c)
        BY SMT, <3>4, <1>3, <2>1 DEF At
      <4> HIDE DEF P, T, b2
      <4>2. Cardinality(T(b, c) \ {k}) = Cardinality(T(b, c)) - 1 BY <4>1, <2>3, FS_RemoveElement
      <4> QED BY SMT, <4>1, <4>2, <3>4, <2>3
    <3> QED BY SMT, <1>4, <3>1, <3>2, <3>3, <3>4
  <2> HIDE DEF P, T, O, b2
  <2> QED BY SMT, <1>2, <2>2, <2>4, <2>5
<1> QED BY <1>5, <1>6

\* An empty table is that of an empty collection.
LEMMA EmptyExact == EmptyTable = TableOf([k \in Key |-> 0])
<1> DEFINE b == [k \in Key |-> 0]
<1>1. SUFFICES ASSUME NEW c \in Cell PROVE EmptyTable[c] = TableOf(b)[c]
  BY DEF EmptyTable, TableOf
<1>2. {k \in At(c) : b[k] > 0} = {} /\ {k \in At(c) : b[k] = 2} = {} /\ {k \in At(c) : b[k] = 1} = {}
  BY SMT DEF At
<1>3. TableOf(b)[c] = [count |-> Cardinality({}) + Cardinality({}), sum |-> {}]
  BY <1>2 DEF TableOf, At
<1> QED BY SMT, <1>3, FS_EmptySet DEF EmptyTable

\* A collection begins with an empty table (the constructor of IBLT).
LEMMA IbltInitInv == IbltInit => TableInv
<1> SUFFICES ASSUME IbltInit PROVE TableInv
  OBVIOUS
<1>1. mine = EmptyTable /\ own = [k \in Key |-> 0] /\ hash \in Hashes /\ peer \in [Key -> 0..2]
  BY DEF IbltInit
<1>2. own \in [Key -> 0..2] BY SMT, <1>1
<1> QED BY <1>1, <1>2, EmptyExact DEF TableInv, TableExact

\* insert and erase keep the table exact, and nothing else changes it.
LEMMA IbltNextInv == TableInv /\ [IbltNext]_ibltVars => TableInv'
<1> SUFFICES ASSUME TableInv, [IbltNext]_ibltVars PROVE TableInv'
  OBVIOUS
<1>0. hash \in Hashes /\ own \in [Key -> 0..2] /\ peer \in [Key -> 0..2] /\ mine = TableOf(own)
  BY DEF TableInv, TableExact
<1>1. ASSUME NEW k \in Key, Add(k) PROVE TableInv'
  <2>1. own[k] \in {0, 1} /\ own[k] + 1 \in 0..2 BY SMT, <1>0, <1>1 DEF Add
  <2>2. mine' = Update(TableOf(own), 1, k) /\ own' = [own EXCEPT ![k] = @ + 1]
    BY <1>0, <1>1 DEF Add, Insert
  <2>3. mine' = TableOf(own') BY <1>0, <2>1, <2>2, UpdateExact
  <2>4. hash' = hash /\ peer' = peer BY <1>1 DEF Add
  <2>5. own' \in [Key -> 0..2] BY <1>0, <2>1, <2>2
  <2> QED BY SMT, <1>0, <2>3, <2>4, <2>5 DEF TableInv, TableExact, TableOf, Places
<1>2. ASSUME NEW k \in Key, Drop(k) PROVE TableInv'
  <2>1. own[k] > 0 /\ own[k] \in {1, 2} /\ own[k] + -1 \in 0..2 BY SMT, <1>0, <1>2 DEF Drop
  <2>2. ~BadPeers(mine, k) BY <2>1, NoBadPeers
  <2>3. mine' = Update(TableOf(own), -1, k) BY <1>0, <1>2, <2>2 DEF Drop, Erase
  <2>4. own' = [own EXCEPT ![k] = @ + -1] BY <1>0, <1>2, <2>1 DEF Drop
  <2>5. mine' = TableOf(own') BY <1>0, <2>1, <2>3, <2>4, UpdateExact
  <2>6. hash' = hash /\ peer' = peer BY <1>2 DEF Drop
  <2>7. own' \in [Key -> 0..2] BY <1>0, <2>1, <2>4
  <2> QED BY SMT, <1>0, <2>5, <2>6, <2>7 DEF TableInv, TableExact, TableOf, Places
<1>3. CASE UNCHANGED <<hash, mine, own, peer>>
  BY SMT, <1>3 DEF TableInv, TableExact, TableOf, Places
<1> QED BY <1>1, <1>2, <1>3 DEF IbltNext, ibltVars, Compare, PeelEntry, PeelPass

\* Whatever hashes a collection inserts and erases, in any order and however they
\* share entries, its table has exactly those that are in it: erase never refuses one
\* (badPeers).
THEOREM TablesExact == IbltSpec => []TableExact
<1>1. TableInv => TableExact BY DEF TableInv
<1> QED BY <1>1, IbltInitInv, IbltNextInv, PTL DEF IbltSpec
-------------------------------------------------------------------------------
\* A set that has 0, and with each number less than n also the next one, has all up
\* to n.
LEMMA UpTo ==
    ASSUME NEW n \in Nat, NEW S, 0 \in S, \A c \in 0..n - 1 : c \in S => c + 1 \in S
    PROVE  0..n \subseteq S
<1> DEFINE T == 0..n \ S
           U == {0..c : c \in T}
<1> SUFFICES ASSUME T # {} PROVE FALSE
  OBVIOUS
<1>1. U \subseteq FiniteSubsetsOf(Nat) /\ U # {}
  <2>1. \A c \in T : 0 \in Int /\ c \in Int BY SMT
  <2>2. \A c \in T : IsFiniteSet(0..c) BY <2>1, FS_Interval
  <2>3. \A c \in T : 0..c \subseteq Nat BY SMT
  <2> QED BY <2>2, <2>3 DEF FiniteSubsetsOf
<1>2. PICK X \in U : \A Y \in U : ~(<<Y, X>> \in StrictSubsetOrdering(Nat))
  <2> HIDE DEF U
  <2> QED BY <1>1, FS_StrictSubsetOrderingWellFounded, WFMin
<1>3. PICK c \in T : X = 0..c
  OBVIOUS
<1>4. c # 0 /\ c - 1 \in 0..n - 1
  BY SMT
<1>5. ASSUME c - 1 \in T PROVE FALSE
  <2>1. 0..c - 1 \in U BY <1>5
  <2>2. 0..c - 1 \subseteq 0..c /\ 0..c - 1 # 0..c /\ 0..c \subseteq Nat BY SMT, <1>4
  <2> QED BY <1>2, <1>3, <2>1, <2>2 DEF StrictSubsetOrdering
<1> QED BY SMT, <1>4, <1>5

\* The loop of rlEncode, as a function of the entries seen.
LEMMA EncodingDef ==
    ASSUME NEW t
    PROVE  Encoding(t) = [c \in 0..3 * StSize |->
                            IF c = 0 THEN [cnt |-> 0, rle |-> <<>>]
                            ELSE EncodeEntry(t[c - 1], Encoding(t)[c - 1])]
<1> DEFINE N == 3 * StSize
           start == [cnt |-> 0, rle |-> <<>>]
           Is(g, n) == g = [c \in 0..n |-> IF c = 0 THEN start ELSE EncodeEntry(t[c - 1], g[c - 1])]
           S == {n \in 0..N : \E g : Is(g, n)}
<1>0. N \in Nat BY SMT, HashesAssumption
<1> HIDE DEF start, N
<1>1. 0 \in S
  <2>1. Is([c \in 0..0 |-> start], 0) BY SMT
  <2> HIDE DEF Is
  <2> QED BY SMT, <1>0, <2>1
<1>2. ASSUME NEW n \in 0..N - 1, n \in S PROVE n + 1 \in S
  <2>1. PICK g : Is(g, n) BY <1>2
  <2> DEFINE h == [c \in 0..n + 1 |-> IF c = n + 1 THEN EncodeEntry(t[n], g[n]) ELSE g[c]]
  <2>2. \A c \in 0..n : h[c] = g[c] BY SMT, <1>0
  <2>3. h = [c \in 0..n + 1 |-> IF c = 0 THEN start ELSE EncodeEntry(t[c - 1], h[c - 1])]
    <3>1. SUFFICES ASSUME NEW c \in 0..n + 1
                   PROVE h[c] = IF c = 0 THEN start ELSE EncodeEntry(t[c - 1], h[c - 1])
      OBVIOUS
    <3>2. CASE c = n + 1 
      <4>1. h[c] = EncodeEntry(t[n], g[n]) /\ c # 0 /\ c - 1 = n BY SMT, <3>2
      <4>2. g[n] = h[n] BY SMT, <2>2
      <4> QED BY <3>2, <4>1, <4>2
    <3>3. CASE c \in 0..n
      <4>1. h[c] = IF c = 0 THEN start ELSE EncodeEntry(t[c - 1], g[c - 1]) BY <2>1, <2>2, <3>3
      <4>2. c # 0 => h[c - 1] = g[c - 1] BY SMT, <2>2, <3>3
      <4> QED BY <4>1, <4>2
    <3> QED BY SMT, <3>2, <3>3
  <2>4. Is(h, n + 1) BY <2>3
  <2> HIDE DEF Is, h
  <2> QED BY SMT, <1>0, <2>4
<1>3. N \in S
  <2> HIDE DEF S
  <2>1. 0..N \subseteq S BY <1>0, <1>1, <1>2, UpTo
  <2>2. N \in 0..N BY SMT, <1>0
  <2> QED BY <2>1, <2>2
<1>4. PICK g : Is(g, N) BY <1>3
<1> QED BY <1>4 DEF Encoding, start, N

\* The loop of rlDecode, as a function of the runs and entries decoded.
LEMMA DecodingDef ==
    ASSUME NEW rle, Len(rle) \in Nat
    PROVE  Decoding(rle) = [j \in 0..Len(rle) |->
                              IF j = 0 THEN [i |-> 0, t |-> EmptyTable]
                              ELSE DecodeItem(rle[j], Decoding(rle)[j - 1])]
<1> DEFINE N == Len(rle)
           start == [i |-> 0, t |-> EmptyTable]
           Is(g, n) == g = [j \in 0..n |-> IF j = 0 THEN start ELSE DecodeItem(rle[j], g[j - 1])]
           S == {n \in 0..N : \E g : Is(g, n)}
<1>0. N \in Nat OBVIOUS
<1> HIDE DEF start, N
<1>1. 0 \in S
  <2>1. Is([j \in 0..0 |-> start], 0) BY SMT
  <2> HIDE DEF Is
  <2> QED BY SMT, <1>0, <2>1
<1>2. ASSUME NEW n \in 0..N - 1, n \in S PROVE n + 1 \in S
  <2>1. PICK g : Is(g, n) BY <1>2
  <2> DEFINE h == [j \in 0..n + 1 |-> IF j = n + 1 THEN DecodeItem(rle[n + 1], g[n]) ELSE g[j]]
  <2>2. \A j \in 0..n : h[j] = g[j] BY SMT, <1>0
  <2>3. h = [j \in 0..n + 1 |-> IF j = 0 THEN start ELSE DecodeItem(rle[j], h[j - 1])]
    <3>1. SUFFICES ASSUME NEW j \in 0..n + 1
                   PROVE h[j] = IF j = 0 THEN start ELSE DecodeItem(rle[j], h[j - 1])
      OBVIOUS
    <3>2. CASE j = n + 1
      <4>1. h[j] = DecodeItem(rle[n + 1], g[n]) /\ j # 0 /\ j - 1 = n BY SMT, <3>2
      <4>2. g[n] = h[n] BY SMT, <2>2
      <4> QED BY <3>2, <4>1, <4>2
    <3>3. CASE j \in 0..n
      <4>1. h[j] = IF j = 0 THEN start ELSE DecodeItem(rle[j], g[j - 1]) BY <2>1, <2>2, <3>3
      <4>2. j # 0 => h[j - 1] = g[j - 1] BY SMT, <2>2, <3>3
      <4> QED BY <4>1, <4>2
    <3> QED BY SMT, <3>2, <3>3
  <2>4. Is(h, n + 1) BY <2>3
  <2> HIDE DEF Is, h
  <2> QED BY SMT, <1>0, <2>4
<1>3. N \in S
  <2> HIDE DEF S
  <2>1. 0..N \subseteq S BY <1>0, <1>1, <1>2, UpTo
  <2>2. N \in 0..N BY SMT, <1>0
  <2> QED BY <2>1, <2>2
<1>4. PICK g : Is(g, N) BY <1>3
<1> QED BY <1>4 DEF Decoding, start, N

\* The items of an encoding, a byte and the key sum that may follow it
Item == Int \X SUBSET Key

\* What rlDecode has after all items
Decoded(rle) == Decoding(rle)[Len(rle)]

\* A further item is decoded after those before it.
LEMMA DecodedAppend ==
    ASSUME NEW rle \in Seq(Item), NEW b \in Item
    PROVE  Decoded(Append(rle, b)) = DecodeItem(b, Decoded(rle))
<1> DEFINE a == Append(rle, b)
           n == Len(rle)
           S == {j \in 0..n : Decoding(a)[j] = Decoding(rle)[j]}
<1>1. n \in Nat /\ Len(a) = n + 1 /\ a[n + 1] = b /\ \A j \in 1..n : a[j] = rle[j]
  BY SMT
<1> HIDE DEF a, n
<1>2. /\ Decoding(a)[0] = [i |-> 0, t |-> EmptyTable]
      /\ \A j \in 1..n + 1 : Decoding(a)[j] = DecodeItem(a[j], Decoding(a)[j - 1])
  <2>1. Len(a) \in Nat /\ \A j \in 1..n + 1 : j \in 0..Len(a) /\ j # 0 BY SMT, <1>1
  <2>2. Decoding(a) = [j \in 0..Len(a) |->
                        IF j = 0 THEN [i |-> 0, t |-> EmptyTable]
                        ELSE DecodeItem(a[j], Decoding(a)[j - 1])]
    BY <2>1, DecodingDef
  <2> QED BY SMT, <2>1, <2>2
<1>3. /\ Decoding(rle)[0] = [i |-> 0, t |-> EmptyTable]
      /\ \A j \in 1..n : Decoding(rle)[j] = DecodeItem(rle[j], Decoding(rle)[j - 1])
  BY SMT, <1>1, DecodingDef DEF n
<1>4. 0 \in S BY SMT, <1>1, <1>2, <1>3
<1>5. ASSUME NEW j \in 0..n - 1, j \in S PROVE j + 1 \in S
  <2>1. j + 1 \in 1..n /\ (j + 1) - 1 = j BY SMT, <1>1
  <2>2. Decoding(a)[j + 1] = DecodeItem(a[j + 1], Decoding(a)[j]) BY SMT, <1>1, <1>2, <2>1
  <2>3. Decoding(rle)[j + 1] = DecodeItem(rle[j + 1], Decoding(rle)[j]) BY <1>3, <2>1
  <2> QED BY SMT, <1>1, <1>5, <2>1, <2>2, <2>3
<1>6. n \in S
  <2> HIDE DEF S
  <2>1. n \in Nat /\ n \in 0..n BY SMT, <1>1
  <2>2. 0..n \subseteq S BY <1>4, <1>5, <2>1, UpTo
  <2> QED BY <2>1, <2>2
<1>7. Decoding(a)[n + 1] = DecodeItem(b, Decoding(a)[n])
  BY SMT, <1>1, <1>2
<1> QED BY <1>1, <1>6, <1>7 DEF Decoded, a, n

\* Tables that can be encoded
Table == [Cell -> [count : 0..MAXCNT - 1, sum : SUBSET Key]]

\* The entry that nothing is in
Zero == [count |-> 0, sum |-> {}]

\* A table up to its n-th entry
Part(t, n) == [x \in Cell |-> IF x < n THEN t[x] ELSE Zero]

\* What has been encoded of the first c entries can be decoded: all but the run of
\* empty entries at the end.
EncodedPart(t, c) ==
    LET r == Encoding(t)[c]
    IN  /\ r = [cnt |-> r.cnt, rle |-> r.rle] /\ r.cnt \in 0..c /\ r.rle \in Seq(Item)
        /\ r.rle = <<>> => r.cnt = c
        /\ \A x \in Cell : c - r.cnt <= x /\ x < c => IsEmpty(t[x])
        /\ Decoded(r.rle) = [i |-> c - r.cnt, t |-> Part(t, c - r.cnt)]

\* An entry that is empty is the zero entry.
LEMMA EmptyIsZero ==
    ASSUME NEW t \in Table, NEW x \in Cell, IsEmpty(t[x])
    PROVE  t[x] = Zero
<1>1. t[x] \in [count : 0..MAXCNT - 1, sum : SUBSET Key] BY DEF Table
<1> QED BY <1>1 DEF IsEmpty, Zero

\* An item that stands for a run of empty entries: rlDecode skips as many entries as
\* rlEncode has counted.
LEMMA DecodedRun ==
    ASSUME NEW t \in Table, NEW n \in 0..3 * StSize, NEW m \in 0..n, m # n,
           \A x \in Cell : m <= x /\ x < n => IsEmpty(t[x]),
           NEW s \in Seq(Item), Decoded(s) = [i |-> m, t |-> Part(t, m)]
    PROVE  Decoded(Append(s, <<n - m + MAXCNT, {}>>)) = [i |-> n, t |-> Part(t, n)]
<1> DEFINE b == <<n - m + MAXCNT, {}>>
<1>0. 3 * StSize \in Nat BY SMT, HashesAssumption
<1>1. b \in Item /\ b[1] > MAXCNT /\ b[1] >= MAXCNT /\ b[1] - MAXCNT = n - m
  BY SMT, <1>0 DEF Item, MAXCNT
<1>2. Part(t, m) = Part(t, n)
  <2> SUFFICES ASSUME NEW x \in Cell PROVE (IF x < m THEN t[x] ELSE Zero) = (IF x < n THEN t[x] ELSE Zero)
    BY DEF Part
  <2>1. CASE x < m BY SMT, <1>0, <2>1 DEF Cell
  <2>2. CASE m <= x /\ x < n BY <1>0, <2>2, EmptyIsZero DEF Cell
  <2>3. CASE n <= x BY SMT, <1>0, <2>3 DEF Cell
  <2> QED BY SMT, <1>0, <2>1, <2>2, <2>3 DEF Cell
<1> HIDE DEF b
<1>3. Decoded(Append(s, b)) = DecodeItem(b, [i |-> m, t |-> Part(t, m)])
  BY <1>1, DecodedAppend
<1>4. DecodeItem(b, [i |-> m, t |-> Part(t, m)]) = [i |-> m + (n - m), t |-> Part(t, m)]
  BY <1>1 DEF DecodeItem
<1>5. m + (n - m) = n BY SMT, <1>0
<1> QED BY <1>2, <1>3, <1>4, <1>5 DEF b

\* An item that stands for an entry: rlDecode reads back what rlEncode has written.
LEMMA DecodedEntry ==
    ASSUME NEW t \in Table, NEW n \in Cell,
           NEW s \in Seq(Item), Decoded(s) = [i |-> n, t |-> Part(t, n)]
    PROVE  Decoded(Append(s, <<t[n].count % (2 * MAXCNT), t[n].sum>>)) = [i |-> n + 1, t |-> Part(t, n + 1)]
<1>0. /\ t[n].count \in 0..MAXCNT - 1 /\ t[n].sum \in SUBSET Key
      /\ t[n] = [count |-> t[n].count, sum |-> t[n].sum]
  BY DEF Table
<1> DEFINE k == t[n].count
           b == <<k, t[n].sum>>
<1>1. k % (2 * MAXCNT) = k
  <2> HIDE DEF k
  <2>1. k \in 0..127 BY SMT, <1>0 DEF MAXCNT, k
  <2> QED BY SMT, <2>1 DEF MAXCNT
<1>2. b \in Item /\ ~(b[1] >= MAXCNT)
  <2>0. k \in 0..MAXCNT - 1 BY <1>0
  <2> HIDE DEF k
  <2>1. k \in Int /\ ~(k >= MAXCNT) BY SMT, <2>0 DEF MAXCNT
  <2> QED BY <1>0, <2>1 DEF Item
<1>3. Decoded(Append(s, b)) = DecodeItem(b, [i |-> n, t |-> Part(t, n)])
  <2> HIDE DEF b
  <2> QED BY <1>2, DecodedAppend
<1>4. DecodeItem(b, [i |-> n, t |-> Part(t, n)]) = [i |-> n + 1, t |-> [Part(t, n) EXCEPT ![n] = t[n]]]
  BY <1>0, <1>2 DEF DecodeItem
<1>5. [Part(t, n) EXCEPT ![n] = t[n]] = Part(t, n + 1)
  <2> SUFFICES ASSUME NEW x \in Cell
               PROVE (IF x = n THEN t[n] ELSE IF x < n THEN t[x] ELSE Zero) = (IF x < n + 1 THEN t[x] ELSE Zero)
    BY DEF Part
  <2>1. x \in Int /\ n \in Int BY SMT, HashesAssumption DEF Cell
  <2> QED BY SMT, <2>1
<1> QED BY <1>1, <1>3, <1>4, <1>5

\* The invariant of the loop of rlEncode.
LEMMA EncodedParts ==
    ASSUME NEW t \in Table
    PROVE  \A c \in 0..3 * StSize : EncodedPart(t, c)
<1> DEFINE N == 3 * StSize
           E(c) == Encoding(t)[c]
           S == {c \in 0..N : EncodedPart(t, c)}
<1>0. N \in Nat /\ Cell = 0..N - 1 BY SMT, HashesAssumption DEF Cell
<1>1. /\ E(0) = [cnt |-> 0, rle |-> <<>>]
      /\ \A c \in 0..N - 1 : E(c + 1) = EncodeEntry(t[c], E(c))
  <2>1. Encoding(t) = [c \in 0..N |-> IF c = 0 THEN [cnt |-> 0, rle |-> <<>>]
                                      ELSE EncodeEntry(t[c - 1], Encoding(t)[c - 1])]
    BY EncodingDef
  <2> HIDE DEF N
  <2>2. \A c \in 0..N - 1 : c + 1 \in 0..N /\ c + 1 # 0 /\ (c + 1) - 1 = c BY SMT, <1>0
  <2>3. 0 \in 0..N BY SMT, <1>0
  <2> QED BY <2>1, <2>2, <2>3
<1> HIDE DEF N
<1>2. 0 \in S
  <2>1. E(0).cnt = 0 /\ E(0).rle = <<>> /\ <<>> \in Seq(Item) BY SMT, <1>1
  <2>2. Len(<<>>) = 0 /\ Len(<<>>) \in Nat OBVIOUS
  <2>3. Decoded(<<>>) = [i |-> 0, t |-> EmptyTable]
    BY SMT, <2>2, DecodingDef DEF Decoded
  <2>4. EmptyTable = Part(t, 0)
    <3>1. \A x \in Cell : ~(x < 0) BY SMT, <1>0
    <3> QED BY <3>1 DEF Part, EmptyTable, Zero
  <2>5. \A x \in Cell : ~(0 - 0 <= x /\ x < 0) BY SMT, <1>0
  <2>6. EncodedPart(t, 0) BY SMT, <1>1, <2>1, <2>3, <2>4, <2>5 DEF EncodedPart
  <2> QED BY SMT, <1>0, <2>6
<1>3. ASSUME NEW c \in 0..N - 1, c \in S PROVE c + 1 \in S
  <2> DEFINE n == E(c).cnt
             s == E(c).rle
             m == c - n
  <2>1. /\ E(c) = [cnt |-> n, rle |-> s] /\ n \in 0..c /\ s \in Seq(Item) /\ (s = <<>> => n = c)
        /\ \A x \in Cell : m <= x /\ x < c => IsEmpty(t[x])
        /\ Decoded(s) = [i |-> m, t |-> Part(t, m)]
    BY <1>3 DEF EncodedPart
  <2>2. E(c + 1) = EncodeEntry(t[c], E(c)) /\ c \in Cell /\ c + 1 \in 0..N /\ c \in Nat
    BY SMT, <1>0, <1>1
  <2>3. t[c].count \in Int /\ t[c].sum \in SUBSET Key BY SMT, <2>2 DEF Table
  <2> HIDE DEF n, s
  <2> DEFINE F == E(c + 1)
             b == <<t[c].count % (2 * MAXCNT), t[c].sum>>
  <2>4. CASE IsEmpty(t[c])
    <3>1. F = [cnt |-> n + 1, rle |-> s] BY SMT, <2>1, <2>2, <2>4 DEF EncodeEntry
    <3>2. (c + 1) - (n + 1) = m BY SMT, <2>1, <2>2
    <3>3. \A x \in Cell : m <= x /\ x < c + 1 => IsEmpty(t[x])
      <4>1. \A x \in Cell : x < c + 1 => x < c \/ x = c BY SMT, <1>0
      <4> HIDE DEF m
      <4> QED BY <2>1, <2>4, <4>1
    <3>4. n + 1 \in 0..c + 1 /\ (n = c => n + 1 = c + 1) BY SMT, <2>1, <2>2
    <3> HIDE DEF F, E, m
    <3>5. F.cnt = n + 1 /\ F.rle = s BY <3>1
    <3>6. EncodedPart(t, c + 1) BY <2>1, <3>1, <3>2, <3>3, <3>4, <3>5 DEF EncodedPart, F, E
    <3> QED BY <2>2, <3>6
  <2>5. CASE ~IsEmpty(t[c])
    <3> DEFINE q == IF n # 0 THEN Append(s, <<n + MAXCNT, {}>>) ELSE s
    <3>1. F = [cnt |-> 0, rle |-> q \o <<b>>] BY SMT, <2>1, <2>2, <2>5 DEF EncodeEntry
    <3>2. q \in Seq(Item)
      <4>1. <<n + MAXCNT, {}>> \in Item BY SMT, <2>1, <2>2 DEF Item, MAXCNT
      <4> QED BY SMT, <2>1, <4>1
    <3>3. b \in Item
      <4>1. t[c].count % (2 * MAXCNT) \in Int BY SMT, <2>3 DEF MAXCNT
      <4> QED BY <2>3, <4>1 DEF Item
    <3>4. Decoded(q) = [i |-> c, t |-> Part(t, c)]
      <4>1. CASE n = 0
        <5>1. m = c BY SMT, <2>2, <4>1
        <5> QED BY <2>1, <4>1, <5>1
      <4>2. CASE n # 0
        <5>1. m \in 0..c /\ m # c /\ c \in 0..3 * StSize /\ c - m = n
          BY SMT, <1>0, <2>1, <2>2, <4>2 DEF N
        <5> HIDE DEF m
        <5> QED BY <2>1, <4>2, <5>1, DecodedRun
      <4> QED BY <4>1, <4>2
    <3> HIDE DEF q, b
    <3>5. q \o <<b>> = Append(q, b) /\ Append(q, b) \in Seq(Item) /\ Append(q, b) # <<>>
      BY SMT, <3>2, <3>3
    <3>6. Decoded(Append(q, b)) = [i |-> c + 1, t |-> Part(t, c + 1)]
      BY <2>2, <3>2, <3>4, DecodedEntry DEF b
    <3>7. F.cnt = 0 /\ F.rle = Append(q, b) /\ F = [cnt |-> F.cnt, rle |-> F.rle] BY SMT, <3>1, <3>5
    <3>8. (c + 1) - 0 = c + 1 /\ \A x \in Cell : ~(c + 1 <= x /\ x < c + 1) BY SMT, <1>0, <2>2
    <3>9. 0 \in 0..c + 1 BY SMT, <2>2
    <3> HIDE DEF F, E
    <3>10. EncodedPart(t, c + 1) BY <3>5, <3>6, <3>7, <3>8, <3>9 DEF EncodedPart, F, E
    <3> QED BY <2>2, <3>10
  <2> QED BY <2>4, <2>5
<1>4. 0..N \subseteq S
  <2> HIDE DEF S
  <2> QED BY <1>0, <1>2, <1>3, UpTo
<1> QED BY <1>4 DEF N

\* A cState's encoded table is decoded to the same table, whatever runs of empty
\* entries it has and wherever they are (rlEncode, rlDecode).
THEOREM RoundTrip == \A t \in Table : RlDecode(RlEncode(t)) = t
<1> SUFFICES ASSUME NEW t \in Table PROVE RlDecode(RlEncode(t)) = t
  OBVIOUS
<1> DEFINE N == 3 * StSize
           r == Encoding(t)[N]
           m == N - r.cnt
<1>0. N \in Nat \ {0} /\ Cell = 0..N - 1 BY SMT, HashesAssumption DEF Cell
<1>1. Part(t, N) = t
  <2>1. \A x \in Cell : x < N BY SMT, <1>0
  <2>2. DOMAIN t = Cell /\ t = [x \in Cell |-> t[x]] BY DEF Table
  <2> QED BY <2>1, <2>2 DEF Part
<1>2. EncodedPart(t, N) BY SMT, <1>0, EncodedParts
<1>3. /\ r.cnt \in 0..N /\ r.rle \in Seq(Item) /\ (r.rle = <<>> => r.cnt = N)
      /\ \A x \in Cell : m <= x /\ x < N => IsEmpty(t[x])
      /\ Decoded(r.rle) = [i |-> m, t |-> Part(t, m)]
  BY <1>2 DEF EncodedPart
<1>4. CASE r.rle = <<>>
  <2>1. RlEncode(t) = << <<N + MAXCNT, {}>> >> BY <1>3, <1>4 DEF RlEncode
  <2>2. << <<N + MAXCNT, {}>> >> = Append(<<>>, <<N + MAXCNT, {}>>) BY SMT
  <2>3. m = 0 /\ N - 0 = N /\ 0 \in 0..N /\ N \in 0..N BY SMT, <1>0, <1>3, <1>4
  <2>4. Decoded(Append(<<>>, <<N - 0 + MAXCNT, {}>>)) = [i |-> N, t |-> Part(t, N)]
    <3>1. Decoded(<<>>) = [i |-> 0, t |-> Part(t, 0)] BY <1>3, <1>4, <2>3
    <3>2. \A x \in Cell : 0 <= x /\ x < N => IsEmpty(t[x]) BY <1>3, <2>3
    <3>3. <<>> \in Seq(Item) /\ 0 # N BY SMT, <1>0
    <3> QED BY <2>3, <3>1, <3>2, <3>3, DecodedRun
  <2>5. Decoded(RlEncode(t)) = [i |-> N, t |-> Part(t, N)] BY <2>1, <2>2, <2>3, <2>4
  <2> QED BY SMT, <1>1, <2>5 DEF RlDecode, Decoded
<1>5. CASE r.rle # <<>>
  <2>1. RlDecode(RlEncode(t)) = Part(t, m) BY SMT, <1>3, <1>5 DEF RlEncode, RlDecode, Decoded
  <2>2. Part(t, m) = Part(t, N)
    <3> SUFFICES ASSUME NEW x \in Cell PROVE (IF x < m THEN t[x] ELSE Zero) = (IF x < N THEN t[x] ELSE Zero)
      BY DEF Part
    <3>1. x \in Int /\ x < N /\ m \in Int BY SMT, <1>0, <1>3
    <3>2. CASE x < m BY <3>1, <3>2
    <3>3. CASE ~(x < m)
      <4>1. t[x] = Zero BY SMT, <1>3, <3>1, <3>3, EmptyIsZero
      <4> QED BY <3>1, <3>3, <4>1
    <3> QED BY <3>2, <3>3
  <2> QED BY <1>1, <2>1, <2>2
<1> QED BY <1>4, <1>5
-------------------------------------------------------------------------------
\* The table of a collection can be encoded: no entry's count is too large.
LEMMA TableType ==
    ASSUME hash \in Hashes, NEW b \in [Key -> 0..2]
    PROVE  TableOf(b) \in Table
<1> SUFFICES ASSUME NEW c \in Cell
             PROVE  TableOf(b)[c] \in [count : 0..MAXCNT - 1, sum : SUBSET Key]
  BY DEF TableOf, Table
<1> DEFINE P == {k \in At(c) : b[k] > 0}
           T == {k \in At(c) : b[k] = 2}
           O == {k \in At(c) : b[k] = 1}
<1>1. TableOf(b)[c] = [count |-> Cardinality(P) + Cardinality(T), sum |-> O] BY DEF TableOf, At
<1>2. P \in SUBSET Key /\ T \in SUBSET Key /\ O \in SUBSET Key BY DEF At
<1> HIDE DEF P, T, O
<1>3. /\ IsFiniteSet(At(c)) /\ Cardinality(At(c)) \in Nat /\ 2 * Cardinality(At(c)) < MAXCNT
  <2>1. At(c) = {k \in Key : \E j \in 0..2 : c = 3 * hash[k][j] + j} BY DEF At, Places
  <2>2. 2 * Cardinality(At(c)) < MAXCNT BY <2>1, SizeAssumption
  <2>3. At(c) \subseteq Key BY DEF At
  <2> QED BY <2>2, <2>3, KeysFinite
<1>4. /\ Cardinality(P) <= Cardinality(At(c)) /\ Cardinality(T) <= Cardinality(At(c))
      /\ Cardinality(P) \in Nat /\ Cardinality(T) \in Nat
  <2>1. P \subseteq At(c) /\ T \subseteq At(c) BY DEF P, T
  <2> QED BY <1>2, <1>3, <2>1, FS_Subset, KeysFinite
<1>5. Cardinality(P) + Cardinality(T) \in 0..MAXCNT - 1
  BY SMT, <1>3, <1>4 DEF MAXCNT
<1> QED BY SMT, <1>1, <1>2, <1>5

\* Collections that differ by at most one insertion of each key
Close == \A k \in Key : own[k] - peer[k] \in -1..1

\* Keys of S that are in the own collection more often, ...
More(S) == {k \in S : own[k] > peer[k]}

\* ... or less often, than in the peer's
Less(S) == {k \in S : own[k] < peer[k]}

\* The difference of the numbers of elements is that of those in one set only.
LEMMA CardDiff ==
    ASSUME NEW A, NEW B, IsFiniteSet(A), IsFiniteSet(B)
    PROVE  Cardinality(A) - Cardinality(B) = Cardinality(A \ B) - Cardinality(B \ A)
<1>1. Cardinality(A \ B) = Cardinality(A) - Cardinality(A \cap B) BY FS_Difference
<1>2. Cardinality(B \ A) = Cardinality(B) - Cardinality(B \cap A) BY FS_Difference
<1>3. A \cap B = B \cap A /\ IsFiniteSet(A \cap B) BY FS_Subset
<1>4. Cardinality(A) \in Nat /\ Cardinality(B) \in Nat /\ Cardinality(A \cap B) \in Nat
  BY <1>3, FS_CardinalityType
<1> DEFINE a == Cardinality(A)
           b == Cardinality(B)
           m == Cardinality(A \cap B)
<1>5. a \in Nat /\ b \in Nat /\ m \in Nat BY <1>4
<1>6. Cardinality(A \ B) = a - m /\ Cardinality(B \ A) = b - m BY <1>1, <1>2, <1>3
<1> HIDE DEF a, b, m
<1>7. a - b = (a - m) - (b - m) BY SMT, <1>5
<1> QED BY <1>6, <1>7 DEF a, b

\* The entries of the difference of two tables: the keys that are in one collection
\* only.
LEMMA DifferenceTable ==
    ASSUME TableInv, Close, NEW c \in Cell
    PROVE  LET d == Minus(TableOf(own), TableOf(peer))[c]
           IN  /\ d.sum = Differ \cap At(c)
               /\ d.count = Cardinality(More(Differ \cap At(c))) - Cardinality(Less(Differ \cap At(c)))
<1> DEFINE P(b) == {k \in At(c) : b[k] > 0}
           T(b) == {k \in At(c) : b[k] = 2}
           O(b) == {k \in At(c) : b[k] = 1}
           n(S) == Cardinality(S)
           D == Differ \cap At(c)
<1>1. own \in [Key -> 0..2] /\ peer \in [Key -> 0..2] BY DEF TableInv
<1>2. \A k \in At(c) : k \in Key /\ own[k] \in 0..2 /\ peer[k] \in 0..2 /\ own[k] - peer[k] \in -1..1
  BY <1>1 DEF At, Close
<1>3. Minus(TableOf(own), TableOf(peer))[c] =
          [count |-> (n(P(own)) + n(T(own))) - (n(P(peer)) + n(T(peer))), sum |-> Xor(O(own), O(peer))]
  BY DEF Minus, TableOf, At
<1>4. Xor(O(own), O(peer)) = D
  BY SMT, <1>2 DEF Xor, Differ, At
<1>5. /\ More(D) = (P(own) \ P(peer)) \cup (T(own) \ T(peer))
      /\ (P(own) \ P(peer)) \cap (T(own) \ T(peer)) = {}
  BY SMT, <1>2 DEF More, Differ, At
<1>6. /\ Less(D) = (P(peer) \ P(own)) \cup (T(peer) \ T(own))
      /\ (P(peer) \ P(own)) \cap (T(peer) \ T(own)) = {}
  BY SMT, <1>2 DEF Less, Differ, At
<1>7. P(own) \subseteq Key /\ P(peer) \subseteq Key /\ T(own) \subseteq Key /\ T(peer) \subseteq Key
  BY DEF At
<1> DEFINE po == P(own)
           pp == P(peer)
           to == T(own)
           tp == T(peer)
<1> HIDE DEF po, pp, to, tp, D
<1>8. /\ \A S \in {po, pp, to, tp, po \ pp, to \ tp, pp \ po, tp \ to} : IsFiniteSet(S) /\ n(S) \in Nat
  BY <1>7, KeysFinite DEF po, pp, to, tp
<1>9. n(po) - n(pp) = n(po \ pp) - n(pp \ po) /\ n(to) - n(tp) = n(to \ tp) - n(tp \ to)
  BY <1>8, CardDiff
<1>10. n(More(D)) = n(po \ pp) + n(to \ tp)
  <2> DEFINE x == po \ pp
             y == to \ tp
  <2>1. IsFiniteSet(x) /\ IsFiniteSet(y) /\ n(x) \in Nat /\ n(y) \in Nat /\ x \cap y = {} /\ More(D) = x \cup y
    BY <1>5, <1>8 DEF po, pp, to, tp
  <2> HIDE DEF x, y
  <2>2. n(x \cup y) = n(x) + n(y) - n(x \cap y) BY <2>1, FS_Union
  <2>3. n(x \cap y) = 0 BY <2>1, FS_EmptySet
  <2>4. n(x \cup y) = n(x) + n(y) BY SMT, <2>1, <2>2, <2>3
  <2> QED BY <2>1, <2>4 DEF x, y
<1>11. n(Less(D)) = n(pp \ po) + n(tp \ to)
  <2> DEFINE x == pp \ po
             y == tp \ to
  <2>1. IsFiniteSet(x) /\ IsFiniteSet(y) /\ n(x) \in Nat /\ n(y) \in Nat /\ x \cap y = {} /\ Less(D) = x \cup y
    BY <1>6, <1>8 DEF po, pp, to, tp
  <2> HIDE DEF x, y
  <2>2. n(x \cup y) = n(x) + n(y) - n(x \cap y) BY <2>1, FS_Union
  <2>3. n(x \cap y) = 0 BY <2>1, FS_EmptySet
  <2>4. n(x \cup y) = n(x) + n(y) BY SMT, <2>1, <2>2, <2>3
  <2> QED BY <2>1, <2>4 DEF x, y
<1>12. (n(po) + n(to)) - (n(pp) + n(tp)) = n(More(D)) - n(Less(D))
  <2>1. n(po) \in Nat /\ n(pp) \in Nat /\ n(to) \in Nat /\ n(tp) \in Nat BY <1>8
  <2>2. n(po \ pp) \in Nat /\ n(pp \ po) \in Nat /\ n(to \ tp) \in Nat /\ n(tp \ to) \in Nat BY <1>8
  <2> DEFINE a == n(po)
             b == n(pp)
             d == n(to)
             e == n(tp)
             f == n(po \ pp)
             g == n(pp \ po)
             h == n(to \ tp)
             j == n(tp \ to)
  <2>3. /\ a \in Nat /\ b \in Nat /\ d \in Nat /\ e \in Nat
        /\ f \in Nat /\ g \in Nat /\ h \in Nat /\ j \in Nat
        /\ a - b = f - g /\ d - e = h - j
    BY <1>9, <2>1, <2>2
  <2>4. (a + d) - (b + e) = (f + h) - (g + j)
    <3> HIDE DEF a, b, d, e, f, g, h, j
    <3> QED BY SMT, <2>3
  <2> QED BY <1>10, <1>11, <2>4
<1> QED BY SMT, <1>3, <1>4, <1>12 DEF D, po, pp, to, tp

\* What peel has not found yet
Left == Differ \ (have \cup need)

\* The entries still have what is left, and nothing that hides others has been found
LeftExact ==
    /\ have \subseteq More(Differ) /\ need \subseteq Less(Differ)
    /\ Core \cap (have \cup need) = {}
    /\ \A c \in Cell :
          /\ peeled[c].sum = Left \cap At(c)
          /\ peeled[c].count = Cardinality(More(Left \cap At(c))) - Cardinality(Less(Left \cap At(c)))

\* While it peels: a key is in the sums of all its entries or of none, a pass that has
\* found nothing has seen no pure entry, and the entries are exact if the collections
\* are close.
PeelInv ==
    /\ TableInv
    /\ pc = "peel" =>
          /\ i \in 0..3 * StSize
          /\ \E O \in SUBSET Key : \A c \in Cell : peeled[c].sum = O \cap At(c)
          /\ ~some => \A c \in Cell : c < i => ~IsPure(peeled[c])
          /\ Close => LeftExact

\* A key that is in the sum of one of its entries is in all of them, so that peel
\* finds no inconsistent entries.
LEMMA PureConsistent ==
    ASSUME PeelInv, pc = "peel", NEW c \in Cell, IsPure(peeled[c]), NEW k \in peeled[c].sum
    PROVE  ~BadPeers(peeled, k)
<1>1. PICK O \in SUBSET Key : \A d \in Cell : peeled[d].sum = O \cap At(d) BY DEF PeelInv
<1>2. k \in O /\ k \in Key BY <1>1
<1> SUFFICES ASSUME NEW d \in Places(k)
             PROVE  ~IsEmpty(peeled[d]) /\ ~(IsPure(peeled[d]) /\ peeled[d].sum # {k})
  BY DEF BadPeers
<1>3. d \in Cell BY <1>2, PlacesType DEF PeelInv, TableInv
<1>4. k \in peeled[d].sum BY <1>1, <1>2, <1>3 DEF At
<1>5. ASSUME Cardinality(peeled[d].sum) = 1 PROVE peeled[d].sum = {k}
  <2>1. IsFiniteSet(peeled[d].sum) BY <1>1, <1>3, KeysFinite
  <2>2. PICK x : peeled[d].sum = {x} BY <2>1, <1>5, FS_Singleton
  <2> QED BY <1>4, <2>2
<1> QED BY <1>4, <1>5 DEF IsEmpty, IsPure

\* The only key left in an entry shows there on which side it is.
LEMMA OnlyLeft ==
    ASSUME TableInv, LeftExact, NEW c \in Cell, NEW k \in Key, Left \cap At(c) = {k}
    PROVE  /\ (own[k] > peer[k] /\ peeled[c].count = 1) \/ (own[k] < peer[k] /\ peeled[c].count = -1)
           /\ IsPure(peeled[c])
<1>1. own[k] \in 0..2 /\ peer[k] \in 0..2 /\ own[k] # peer[k] BY DEF TableInv, Left, Differ
<1>2. /\ peeled[c].sum = {k}
      /\ peeled[c].count = Cardinality(More({k})) - Cardinality(Less({k}))
  BY DEF LeftExact
<1>3. Cardinality({}) = 0 /\ Cardinality({k}) = 1 BY FS_EmptySet, FS_Singleton
<1>4. CASE own[k] > peer[k]
  <2>1. More({k}) = {k} /\ Less({k}) = {} BY SMT, <1>1, <1>4 DEF More, Less
  <2> QED BY SMT, <1>2, <1>3, <1>4, <2>1 DEF IsPure
<1>5. CASE own[k] < peer[k]
  <2>1. More({k}) = {} /\ Less({k}) = {k} BY SMT, <1>1, <1>5 DEF More, Less
  <2>2. peeled[c].count = 0 - 1 BY <1>2, <1>3, <2>1
  <2>3. peeled[c].count = -1 BY SMT, <2>2
  <2>4. IsPure(peeled[c]) BY <1>2, <1>3, <2>3 DEF IsPure
  <2> QED BY <1>5, <2>3, <2>4
<1> QED BY SMT, <1>1, <1>4, <1>5

\* When no entry is pure, what is left are keys that hide each other.
LEMMA LeftIsCore ==
    ASSUME TableInv, LeftExact, \A c \in Cell : ~IsPure(peeled[c])
    PROVE  Left = Core
<1>1. Left \in SUBSET Differ BY DEF Left
<1>2. \A k \in Left : \A c \in Places(k) : \E l \in Left \ {k} : c \in Places(l)
  <2> SUFFICES ASSUME NEW k \in Left, NEW c \in Places(k), \A l \in Left \ {k} : c \notin Places(l)
               PROVE  FALSE
    OBVIOUS
  <2>1. k \in Key BY DEF Left, Differ
  <2>2. c \in Cell BY <2>1, PlacesType DEF TableInv
  <2>3. Left \cap At(c) = {k} BY <2>1 DEF At
  <2> QED BY <2>1, <2>2, <2>3, OnlyLeft
<1>3. Left \subseteq Core BY <1>1, <1>2 DEF Core
<1>4. Core \subseteq Differ BY DEF Core
<1> QED BY <1>3, <1>4 DEF Left, LeftExact

\* So it has found the others, each on its side.
LEMMA PeelInvExact == PeelInv => PeelExact
<1> SUFFICES ASSUME PeelInv PROVE PeelExact
  OBVIOUS
<1>1. ASSUME pc = "peel", i \notin Cell, ~some, \A k \in Key : own[k] - peer[k] \in -1..1
      PROVE  /\ have = {k \in Differ \ Core : own[k] > peer[k]}
             /\ need = {k \in Differ \ Core : own[k] < peer[k]}
  <2>1. Close /\ LeftExact /\ TableInv BY <1>1 DEF PeelInv, Close
  <2>2. \A c \in Cell : c < i BY SMT, <1>1, HashesAssumption DEF PeelInv, Cell
  <2>3. \A c \in Cell : ~IsPure(peeled[c]) BY <1>1, <2>2 DEF PeelInv
  <2>4. Left = Core BY <2>1, <2>3, LeftIsCore
  <2>5. have \cup need = Differ \ Core /\ have \subseteq More(Differ) /\ need \subseteq Less(Differ)
    BY <2>1, <2>4 DEF Left, LeftExact, More, Less
  <2>6. \A k \in Differ : own[k] \in 0..2 /\ peer[k] \in 0..2 BY <2>1 DEF TableInv, Differ
  <2>7. have \cap need = {} BY SMT, <2>5, <2>6 DEF More, Less
  <2>8. \A k \in Differ : ~(own[k] > peer[k] /\ own[k] < peer[k]) BY SMT, <2>6
  <2> QED BY <2>5, <2>8 DEF More, Less
<1>2. ASSUME pc = "peel", i \in Cell, IsPure(peeled[i])
      PROVE  \A k \in peeled[i].sum : ~BadPeers(peeled, k)
  BY <1>2, PureConsistent
<1> QED BY <1>1, <1>2 DEF PeelExact

\* Taking a key out of an entry takes one off the number of keys on its side.
LEMMA TakenOut ==
    ASSUME TableInv, NEW S, S \subseteq Key, NEW k \in S, own[k] # peer[k]
    PROVE  LET n == IF own[k] > peer[k] THEN 1 ELSE -1
           IN  Cardinality(More(S \ {k})) - Cardinality(Less(S \ {k})) =
                   Cardinality(More(S)) - Cardinality(Less(S)) - n
<1>1. own[k] \in 0..2 /\ peer[k] \in 0..2 BY DEF TableInv
<1>2. /\ IsFiniteSet(More(S)) /\ Cardinality(More(S)) \in Nat
      /\ IsFiniteSet(Less(S)) /\ Cardinality(Less(S)) \in Nat
  BY KeysFinite DEF More, Less
<1> DEFINE m == Cardinality(More(S))
           l == Cardinality(Less(S))
<1>3. CASE own[k] > peer[k]
  <2>1. More(S \ {k}) = More(S) \ {k} /\ k \in More(S) /\ Less(S \ {k}) = Less(S)
    BY SMT, <1>1, <1>3 DEF More, Less
  <2>2. Cardinality(More(S) \ {k}) = Cardinality(More(S)) - 1 BY <1>2, <2>1, FS_RemoveElement
  <2>3. (m - 1) - l = m - l - 1 BY SMT, <1>2
  <2> QED BY <1>3, <2>1, <2>2, <2>3
<1>4. CASE own[k] < peer[k]
  <2>1. Less(S \ {k}) = Less(S) \ {k} /\ k \in Less(S) /\ More(S \ {k}) = More(S)
    BY SMT, <1>1, <1>4 DEF More, Less
  <2>2. Cardinality(Less(S) \ {k}) = Cardinality(Less(S)) - 1 BY <1>2, <2>1, FS_RemoveElement
  <2>3. ~(own[k] > peer[k]) BY SMT, <1>1, <1>4
  <2>4. m - (l - 1) = m - l - (-1) BY SMT, <1>2
  <2> QED BY <2>1, <2>2, <2>3, <2>4
<1> QED BY SMT, <1>1, <1>3, <1>4

\* The state that peel leaves alone: what it has found is judged as before.
LEMMA SameCollections ==
    ASSUME UNCHANGED <<hash, own, peer>>
    PROVE  /\ Close' = Close /\ Differ' = Differ /\ Core' = Core
           /\ \A c : At(c)' = At(c)
           /\ \A S : More(S)' = More(S) /\ Less(S)' = Less(S)
<1>1. Differ' = Differ BY DEF Differ
<1>2. \A k : Places(k)' = Places(k) BY DEF Places
<1> QED BY SMT, <1>1, <1>2 DEF Close, Core, At, More, Less

\* One entry of a pass, when it is pure.
LEMMA PeelPure ==
    ASSUME PeelInv, PeelEntry, IsPure(peeled[i])
    PROVE  PeelInv'
<1> DEFINE k == CHOOSE x \in peeled[i].sum : TRUE
           n == peeled[i].count
<1>1. pc = "peel" /\ i \in Cell /\ TableInv BY DEF PeelEntry, PeelInv
<1>2. PICK O \in SUBSET Key : \A c \in Cell : peeled[c].sum = O \cap At(c) BY <1>1 DEF PeelInv
<1>3. peeled[i].sum = {k}
  <2>1. IsFiniteSet(peeled[i].sum) BY <1>1, <1>2, KeysFinite
  <2>2. PICK x : peeled[i].sum = {x} BY <2>1, FS_Singleton DEF IsPure
  <2> QED BY <2>2
<1>4. ~BadPeers(peeled, k) BY <1>1, <1>3, PureConsistent
<1>5. /\ n > 0 => have' = have \cup {k} /\ need' = need
      /\ ~(n > 0) => need' = need \cup {k} /\ have' = have
      /\ peeled' = Update(peeled, -n, k) /\ some' = TRUE /\ i' = i + 1 /\ pc' = pc
      /\ UNCHANGED <<hash, mine, own, peer>>
  BY <1>4 DEF PeelEntry
<1>6. n \in {1, -1} BY DEF IsPure
<1> HIDE DEF k, n
<1>7. k \in Key /\ k \in O /\ k \in At(i) BY <1>1, <1>2, <1>3
<1>8. TableInv' BY <1>1, <1>5 DEF TableInv, TableExact, TableOf, Places
<1>9. i' \in 0..3 * StSize
  <2>1. 3 * StSize \in Nat BY SMT, HashesAssumption
  <2> QED BY SMT, <1>1, <1>5, <2>1 DEF Cell
<1>10. \A c \in Cell :
          /\ k \in At(c) => /\ peeled'[c].count = peeled[c].count + -n
                            /\ peeled'[c].sum = Xor(peeled[c].sum, {k})
          /\ k \notin At(c) => peeled'[c] = peeled[c]
  BY <1>5, <1>7 DEF Update, At
<1>11. \E Q \in SUBSET Key : \A c \in Cell : peeled'[c].sum = Q \cap At(c)
  <2> DEFINE Q == O \ {k}
  <2>1. ASSUME NEW c \in Cell PROVE peeled'[c].sum = Q \cap At(c)
    <3>1. peeled[c].sum = O \cap At(c) BY <1>2
    <3>2. CASE k \in At(c)
      <4>1. peeled'[c].sum = Xor(O \cap At(c), {k}) BY <1>10, <3>1, <3>2
      <4> QED BY <1>7, <3>2, <4>1 DEF Xor
    <3>3. CASE k \notin At(c)
      <4>1. peeled'[c].sum = O \cap At(c) BY <1>10, <3>1, <3>3
      <4> QED BY <3>3, <4>1
    <3> QED BY <3>2, <3>3
  <2>2. Q \in SUBSET Key OBVIOUS
  <2> HIDE DEF Q
  <2> QED BY <2>1, <2>2
<1>12. ASSUME Close PROVE LeftExact'
  <2>1. LeftExact BY <1>1, <1>12 DEF PeelInv
  <2>2. Left \cap At(i) = {k} BY <1>1, <1>3, <2>1 DEF LeftExact
  <2>3. k \in Left /\ k \in Differ BY <2>2 DEF Left
  <2>4. (own[k] > peer[k] /\ n = 1) \/ (own[k] < peer[k] /\ n = -1)
    BY <1>1, <1>7, <2>1, <2>2, OnlyLeft DEF n
  <2>5. own[k] \in 0..2 /\ peer[k] \in 0..2 BY <1>1, <1>7 DEF TableInv
  <2>6. /\ have' \subseteq More(Differ) /\ need' \subseteq Less(Differ)
        /\ have' \cup need' = (have \cup need) \cup {k}
    BY SMT, <1>5, <2>1, <2>3, <2>4, <2>5 DEF LeftExact, More, Less
  <2>7. k \notin Core
    <3> SUFFICES ASSUME k \in Core PROVE FALSE
      OBVIOUS
    <3>1. PICK S \in SUBSET Differ : /\ k \in S
                                     /\ \A l \in S : \A c \in Places(l) : \E m \in S \ {l} : c \in Places(m)
      BY DEF Core
    <3>2. S \subseteq Core BY <3>1 DEF Core
    <3>3. i \in Places(k) BY <1>7 DEF At
    <3>4. PICK m \in S \ {k} : i \in Places(m) BY <3>1, <3>3
    <3>5. m \in Left /\ m \in At(i) BY <2>1, <3>2, <3>4 DEF LeftExact, Left, At, Differ
    <3> QED BY <2>2, <3>4, <3>5
  <2>8. Core \cap (have' \cup need') = {} BY <2>1, <2>6, <2>7 DEF LeftExact
  <2> DEFINE L == Left \ {k}
  <2>9. Left' = L BY <1>5, <2>6 DEF Left, Differ
  <2>10. ASSUME NEW c \in Cell
         PROVE  /\ peeled'[c].sum = L \cap At(c)
                /\ peeled'[c].count = Cardinality(More(L \cap At(c))) - Cardinality(Less(L \cap At(c)))
    <3> DEFINE S == Left \cap At(c)
    <3>1. /\ peeled[c].sum = S /\ S \subseteq Key
          /\ peeled[c].count = Cardinality(More(S)) - Cardinality(Less(S))
      BY <2>1 DEF LeftExact, At
    <3>2. CASE k \in At(c)
      <4>1. k \in S /\ L \cap At(c) = S \ {k} BY <2>3, <3>2
      <4>2. own[k] # peer[k] BY <2>3 DEF Differ
      <4> HIDE DEF S
      <4>3. Cardinality(More(S \ {k})) - Cardinality(Less(S \ {k})) = Cardinality(More(S)) - Cardinality(Less(S)) - n
        BY SMT, <1>1, <2>4, <2>5, <3>1, <4>1, <4>2, TakenOut
      <4>4. Cardinality(More(S)) \in Nat /\ Cardinality(Less(S)) \in Nat
        BY <3>1, KeysFinite DEF More, Less
      <4>5. peeled[c].count + -n = peeled[c].count - n BY <1>6, <3>1, <4>4
      <4>6. Xor(S, {k}) = S \ {k} BY <4>1 DEF Xor
      <4>7. peeled'[c].count = peeled[c].count + -n /\ peeled'[c].sum = Xor(peeled[c].sum, {k})
        BY <1>10, <3>2
      <4> QED BY <3>1, <4>1, <4>3, <4>5, <4>6, <4>7
    <3>3. CASE k \notin At(c)
      <4>1. L \cap At(c) = S BY <3>3
      <4>2. peeled'[c] = peeled[c] BY <1>10, <3>3
      <4> HIDE DEF S, L
      <4> QED BY <3>1, <4>1, <4>2
    <3> QED BY <3>2, <3>3
  <2> HIDE DEF L
  <2> QED BY <1>5, <2>6, <2>8, <2>9, <2>10, SameCollections DEF LeftExact
<1>13. Close' = Close /\ (\A c : At(c)' = At(c)) BY <1>5, SameCollections
<1> QED BY <1>5, <1>8, <1>9, <1>11, <1>12, <1>13 DEF PeelInv

\* A step that finds no key leaves the entries exact (an entry that is not pure, or
\* the end of a pass of peel).
LEMMA SameLeft ==
    ASSUME UNCHANGED <<hash, own, peer, have, need, peeled>>, LeftExact
    PROVE  LeftExact'
<1>1. /\ Differ' = Differ /\ Core' = Core /\ (\A c : At(c)' = At(c))
      /\ \A S : More(S)' = More(S) /\ Less(S)' = Less(S)
  BY SameCollections
<1>2. Left' = Left BY <1>1 DEF Left
<1>3. \A c : (Left \cap At(c))' = Left \cap At(c) BY <1>1, <1>2
<1>4. \A c : More(Left \cap At(c))' = More(Left \cap At(c)) /\ Less(Left \cap At(c))' = Less(Left \cap At(c))
  BY <1>1, <1>3 DEF More, Less
<1> QED BY <1>1, <1>3, <1>4 DEF LeftExact

\* Each entry that a pass of peel looks at, and the end of the pass, keeps PeelInv.
LEMMA PeelNextInv == PeelInv /\ [IbltNext]_ibltVars => PeelInv'
<1> SUFFICES ASSUME PeelInv, [IbltNext]_ibltVars PROVE PeelInv'
  OBVIOUS
<1>0. TableInv /\ TableInv' BY IbltNextInv DEF PeelInv
<1>1. ASSUME NEW k \in Key, Add(k) \/ Drop(k) PROVE PeelInv'
  BY <1>0, <1>1 DEF Add, Drop, PeelInv
<1>2. CASE Compare
  <2> DEFINE d == Minus(TableOf(own), TableOf(peer))
  <2>1. TableOf(peer) \in Table BY <1>0, TableType DEF TableInv
  <2>2. /\ peeled' = d /\ have' = {} /\ need' = {} /\ i' = 0
        /\ UNCHANGED <<hash, own, peer>>
    BY <1>0, <1>2, <2>1, RoundTrip DEF Compare, TableInv, TableExact
  <2>3. /\ Close' = Close /\ Differ' = Differ /\ Core' = Core /\ (\A c : At(c)' = At(c))
        /\ \A S : More(S)' = More(S) /\ Less(S)' = Less(S)
    BY <2>2, SameCollections
  <2>4. \E O \in SUBSET Key : \A c \in Cell : d[c].sum = O \cap At(c)
    <3> DEFINE A == {k \in Key : own[k] = 1}
               B == {k \in Key : peer[k] = 1}
    <3>1. \A c \in Cell : d[c].sum = Xor(A, B) \cap At(c) BY DEF Minus, TableOf, At, Xor
    <3>2. Xor(A, B) \in SUBSET Key BY DEF Xor
    <3> HIDE DEF A, B, d
    <3> QED BY <3>1, <3>2
  <2>5. i' \in 0..3 * StSize /\ \A c \in Cell : ~(c < i') BY SMT, <2>2, HashesAssumption DEF Cell
  <2>6. ASSUME Close PROVE LeftExact'
    <3>1. Left' = Differ BY <2>2, <2>3 DEF Left
    <3>2. \A c \in Cell :
              /\ d[c].sum = Differ \cap At(c)
              /\ d[c].count = Cardinality(More(Differ \cap At(c))) - Cardinality(Less(Differ \cap At(c)))
      BY <1>0, <2>6, DifferenceTable
    <3>3. \A c \in Cell :
              /\ peeled'[c].sum = (Left \cap At(c))'
              /\ peeled'[c].count = Cardinality(More(Left \cap At(c))') - Cardinality(Less(Left \cap At(c))')
      BY <2>2, <2>3, <3>1, <3>2
    <3>4. have' = {} /\ need' = {} BY <2>2
    <3> QED BY <3>3, <3>4 DEF LeftExact
  <2> HIDE DEF d
  <2> QED BY <1>0, <2>2, <2>3, <2>4, <2>5, <2>6 DEF PeelInv
<1>3. CASE PeelEntry
  <2>1. CASE IsPure(peeled[i]) BY <1>3, <2>1, PeelPure
  <2>2. CASE ~IsPure(peeled[i])
    <3>1. /\ pc = "peel" /\ i \in Cell /\ i' = i + 1
          /\ UNCHANGED <<pc, have, need, peeled, some, hash, own, peer>>
      BY <1>3, <2>2 DEF PeelEntry
    <3>2. Close' = Close /\ (LeftExact => LeftExact') /\ (\A c : At(c)' = At(c))
      BY <3>1, SameCollections, SameLeft
    <3>3. i' \in 0..3 * StSize /\ \A c \in Cell : c < i' => c < i \/ c = i
      BY SMT, <3>1, HashesAssumption DEF Cell
    <3>4. ~some => \A c \in Cell : c < i' => ~IsPure(peeled[c]) BY <2>2, <3>1, <3>3 DEF PeelInv
    <3> QED BY <1>0, <3>1, <3>2, <3>3, <3>4 DEF PeelInv
  <2> QED BY <2>1, <2>2
<1>4. CASE PeelPass
  <2>1. UNCHANGED <<have, need, peeled, hash, own, peer>> /\ pc = "peel" BY <1>4 DEF PeelPass
  <2>2. Close' = Close /\ (LeftExact => LeftExact') /\ (\A c : At(c)' = At(c))
    BY <2>1, SameCollections, SameLeft
  <2>3. CASE some
    <3>1. i' = 0 /\ pc' = pc BY <1>4, <2>3 DEF PeelPass
    <3>2. i' \in 0..3 * StSize /\ \A c \in Cell : ~(c < i') BY SMT, <3>1, HashesAssumption DEF Cell
    <3> QED BY <1>0, <2>1, <2>2, <3>1, <3>2 DEF PeelInv
  <2>4. CASE ~some
    <3>1. pc' = "idle" BY <1>4, <2>4 DEF PeelPass
    <3> QED BY <1>0, <3>1 DEF PeelInv
  <2> QED BY <2>3, <2>4
<1>5. CASE UNCHANGED ibltVars
  <2>1. UNCHANGED <<have, need, peeled, hash, own, peer, i, some, pc>> BY <1>5 DEF ibltVars
  <2>2. Close' = Close /\ (LeftExact => LeftExact') /\ (\A c : At(c)' = At(c))
    BY <2>1, SameCollections, SameLeft
  <2> QED BY <1>0, <2>1, <2>2 DEF PeelInv
<1> QED BY <1>1, <1>2, <1>3, <1>4, <1>5 DEF IbltNext

\* For all collections and hash functions: when peel is through, it has found exactly
\* the hashes that are in one collection only, each on its side, except for those
\* that hide each other, and it has stopped early for none ("badPeers").
THEOREM PeelsExactly == IbltSpec => []PeelExact
<1>1. IbltInit => PeelInv BY IbltInitInv DEF IbltInit, PeelInv
<1> QED BY <1>1, PeelNextInv, PeelInvExact, PTL DEF IbltSpec
-------------------------------------------------------------------------------
(* Names of publications *)

\* d has t as its template, whatever their values
FitsTo(d, t) == Template(signer, d).tmplt = t.tmplt /\ d.comp = t.dpar

\* The templates are those of the discriminators in S, and have the values of these
MadeOf(S) ==
    /\ \A j \in DOMAIN pt :
          /\ \E d \in S : FitsTo(d, pt[j]) /\ d.vals \subseteq pt[j].vs
          /\ \A v \in pt[j].vs : \E d \in S : FitsTo(d, pt[j]) /\ v \in d.vals
    /\ \A d \in S : \E j \in DOMAIN pt : FitsTo(d, pt[j]) /\ d.vals \subseteq pt[j].vs

Tmplt == [tmplt : {Template(s, d).tmplt : s \in Cert, d \in UNION {Discrim[b] : b \in Schema}},
          dpar : Comp \cup {NoComp}, vs : SUBSET UNION {d.vals : d \in UNION {Discrim[b] : b \in Schema}}]

NamesInv ==
    /\ schema \in Schema /\ signer \in Cert /\ phase \in {"make", "ready"}
    /\ pt \in Seq(Tmplt) /\ left \subseteq DiscrimsFor(schema, signer)
    /\ phase = "ready" => left = {}
    /\ MadeOf(DiscrimsFor(schema, signer) \ left)

\* A template that addTemplate makes has its parts' types.
LEMMA TemplateType ==
    ASSUME NEW b \in Schema, NEW s \in Cert, NEW d \in DiscrimsFor(b, s)
    PROVE  /\ Template(s, d) \in Tmplt /\ d \in Discrim[b]
           /\ \A c \in Comp :
                 LET t == TypeOf(Template(s, d).tmplt, c)
                 IN  /\ t \in {"lit", "param", "call"} /\ (t = "param" <=> TypeOf(d.tmplt, c) = "param")
                     /\ (t = "call" <=> TypeOf(d.tmplt, c) = "call")
<1>1. d \in Discrim[b] /\ Compiled(d) BY DiscrimAssumption DEF DiscrimsFor
<1>2. /\ d.comp \in Comp \cup {NoComp}
      /\ d.vals \subseteq UNION {e.vals : e \in UNION {Discrim[a] : a \in Schema}}
  BY <1>1, DiscrimAssumption DEF Compiled
<1>3. Template(s, d).tmplt \in {Template(r, e).tmplt : r \in Cert, e \in UNION {Discrim[a] : a \in Schema}}
  BY SMT, <1>1
<1>4. Template(s, d) \in Tmplt BY SMT, <1>2, <1>3 DEF Template, Tmplt
<1>5. ASSUME NEW c \in Comp
      PROVE  LET t == TypeOf(Template(s, d).tmplt, c)
             IN  /\ t \in {"lit", "param", "call"} /\ (t = "param" <=> TypeOf(d.tmplt, c) = "param")
                 /\ (t = "call" <=> TypeOf(d.tmplt, c) = "call")
  <2>1. Template(s, d).tmplt[c] = IF TypeOf(d.tmplt, c) = "cor" THEN MapCor(s, d, c) ELSE d.tmplt[c]
    BY DEF Template
  <2>2. MapCor(s, d, c).type = "lit" BY DEF MapCor, Lit
  <2>3. TypeOf(d.tmplt, c) \in {"lit", "cor", "param", "call"} BY <1>1 DEF Compiled
  <2> QED BY <2>1, <2>2, <2>3 DEF TypeOf
<1> QED BY <1>1, <1>4, <1>5

\* Templates are made from none.
LEMMA InitNames == NamesInit => NamesInv
<1> SUFFICES ASSUME NamesInit PROVE NamesInv
  OBVIOUS
<1>1. signer \in Cert BY DEF NamesInit, IsSigningCert
<1>2. pt \in Seq(Tmplt) /\ DOMAIN pt = {} BY SMT DEF NamesInit
<1> QED BY <1>1, <1>2 DEF NamesInit, NamesInv, MadeOf

\* addTemplate adds a discriminator's template, or its values to the template that exists.
LEMMA AddTemplateNames ==
    ASSUME NamesInv, NEW d \in left, AddTemplate(d)
    PROVE  NamesInv'
<1> DEFINE new == Template(signer, d)
           S == DiscrimsFor(schema, signer) \ left
<1>1. /\ phase = "make" /\ left' = left \ {d} /\ schema' = schema /\ signer' = signer /\ phase' = phase
      /\ schema \in Schema /\ signer \in Cert /\ pt \in Seq(Tmplt) /\ d \in DiscrimsFor(schema, signer)
      /\ left \subseteq DiscrimsFor(schema, signer) /\ MadeOf(S)
  BY DEF AddTemplate, NamesInv
<1>2. new \in Tmplt /\ new.vs = d.vals /\ new.dpar = d.comp BY <1>1, TemplateType DEF Template
<1>3. DiscrimsFor(schema, signer)' \ left' = S \cup {d} BY <1>1 DEF DiscrimsFor
<1>4. \A e, t : FitsTo(e, t)' <=> FitsTo(e, t) BY <1>1 DEF FitsTo, Template, MapCor
<1>5. FitsTo(d, new) BY <1>2 DEF FitsTo
<1> HIDE DEF new, S
<1>6. CASE Same(new) = {}
  <2>1. pt' = Append(pt, new) BY <1>6 DEF AddTemplate, new
  <2>2. /\ pt' \in Seq(Tmplt) /\ DOMAIN pt' = DOMAIN pt \cup {Len(pt) + 1} /\ pt'[Len(pt) + 1] = new
        /\ \A j \in DOMAIN pt : pt'[j] = pt[j]
    BY SMT, <1>1, <1>2, <2>1
  <2>3. \A j \in DOMAIN pt' :
           /\ \E e \in S \cup {d} : FitsTo(e, pt'[j]) /\ e.vals \subseteq pt'[j].vs
           /\ \A v \in pt'[j].vs : \E e \in S \cup {d} : FitsTo(e, pt'[j]) /\ v \in e.vals
    BY <1>1, <1>2, <1>5, <2>2 DEF MadeOf
  <2>4. ASSUME NEW e \in S \cup {d}
        PROVE  \E j \in DOMAIN pt' : FitsTo(e, pt'[j]) /\ e.vals \subseteq pt'[j].vs
    <3>1. CASE e = d
      <4>1. FitsTo(e, pt'[Len(pt) + 1]) /\ e.vals \subseteq pt'[Len(pt) + 1].vs BY <1>2, <1>5, <2>2, <3>1
      <4> QED BY <2>2, <4>1
    <3>2. CASE e \in S
      <4>1. PICK j \in DOMAIN pt : FitsTo(e, pt[j]) /\ e.vals \subseteq pt[j].vs BY <1>1, <3>2 DEF MadeOf
      <4> QED BY <2>2, <4>1
    <3> QED BY <3>1, <3>2
  <2> QED BY <1>1, <1>3, <1>4, <2>2, <2>3, <2>4 DEF NamesInv, MadeOf
<1>7. CASE Same(new) # {}
  <2>1. PICK k \in Same(new) : pt' = [pt EXCEPT ![k].vs = @ \cup new.vs] BY <1>7 DEF AddTemplate, new
  <2>2. k \in DOMAIN pt /\ pt[k].dpar = new.dpar /\ pt[k].tmplt = new.tmplt BY DEF Same
  <2>3. pt[k] \in Tmplt BY SMT, <1>1, <2>2
  <2>4. [pt[k] EXCEPT !.vs = @ \cup new.vs] \in Tmplt BY SMT, <1>2, <2>3 DEF Tmplt
  <2>5. /\ pt' \in Seq(Tmplt) /\ DOMAIN pt' = DOMAIN pt
        /\ \A j \in DOMAIN pt \ {k} : pt'[j] = pt[j]
        /\ pt'[k] = [pt[k] EXCEPT !.vs = @ \cup new.vs]
    BY SMT, <1>1, <2>1, <2>2, <2>4
  <2>6. pt'[k].vs = pt[k].vs \cup d.vals /\ pt'[k].tmplt = pt[k].tmplt /\ pt'[k].dpar = pt[k].dpar
    BY SMT, <1>2, <2>3, <2>5 DEF Tmplt
  <2>7. (\A e : FitsTo(e, pt'[k]) <=> FitsTo(e, pt[k])) /\ FitsTo(d, pt'[k])
    BY <1>5, <2>2, <2>6 DEF FitsTo
  <2>8. ASSUME NEW j \in DOMAIN pt
        PROVE  /\ \E e \in S \cup {d} : FitsTo(e, pt'[j]) /\ e.vals \subseteq pt'[j].vs
               /\ \A v \in pt'[j].vs : \E e \in S \cup {d} : FitsTo(e, pt'[j]) /\ v \in e.vals
    <3>1. /\ \E e \in S : FitsTo(e, pt[j]) /\ e.vals \subseteq pt[j].vs
          /\ \A v \in pt[j].vs : \E e \in S : FitsTo(e, pt[j]) /\ v \in e.vals
      BY <1>1 DEF MadeOf
    <3>2. CASE j = k
      <4>1. \E e \in S \cup {d} : FitsTo(e, pt'[k]) /\ e.vals \subseteq pt'[k].vs BY <2>6, <2>7
      <4>2. ASSUME NEW v \in pt'[k].vs PROVE \E e \in S \cup {d} : FitsTo(e, pt'[k]) /\ v \in e.vals
        <5>1. CASE v \in d.vals BY <2>7, <5>1
        <5>2. CASE v \in pt[k].vs BY <2>7, <3>1, <3>2, <5>2
        <5> QED BY <2>6, <5>1, <5>2
      <4> QED BY <3>2, <4>1, <4>2
    <3>3. CASE j # k
      <4>1. pt'[j] = pt[j] BY <2>5, <3>3
      <4> QED BY <3>1, <4>1
    <3> QED BY <3>2, <3>3
  <2>9. ASSUME NEW e \in S \cup {d}
        PROVE  \E j \in DOMAIN pt : FitsTo(e, pt'[j]) /\ e.vals \subseteq pt'[j].vs
    <3>1. CASE e = d BY <2>2, <2>6, <2>7, <3>1
    <3>2. CASE e \in S
      <4>1. PICK j \in DOMAIN pt : FitsTo(e, pt[j]) /\ e.vals \subseteq pt[j].vs BY <1>1, <3>2 DEF MadeOf
      <4>2. FitsTo(e, pt'[j]) /\ e.vals \subseteq pt'[j].vs
        <5>1. CASE j = k BY <2>6, <2>7, <4>1, <5>1
        <5>2. CASE j # k BY <2>5, <4>1, <5>2
        <5> QED BY <5>1, <5>2
      <4> QED BY <4>2
    <3> QED BY <3>1, <3>2
  <2> QED BY <1>1, <1>3, <1>4, <2>5, <2>8, <2>9 DEF NamesInv, MadeOf
<1> QED BY <1>6, <1>7

\* The sort at the end of makePubTmplts loses no template.
LEMMA SortNames == NamesInv /\ SortTmplts => NamesInv'
<1> SUFFICES ASSUME NamesInv, SortTmplts PROVE NamesInv'
  OBVIOUS
<1> DEFINE S == DiscrimsFor(schema, signer) \ left
<1>1. PICK o \in [DOMAIN pt -> DOMAIN pt] :
         /\ \A k \in DOMAIN pt : \E j \in DOMAIN pt : o[j] = k
         /\ pt' = [j \in DOMAIN pt |-> pt[o[j]]]
  BY DEF SortTmplts
<1>2. left = {} /\ left' = left /\ schema' = schema /\ signer' = signer /\ phase' = "ready" BY DEF SortTmplts
<1>3. DOMAIN pt = 1..Len(pt) /\ Len(pt) \in Nat /\ \A j \in DOMAIN pt : pt[j] \in Tmplt BY SMT DEF NamesInv
<1>4. pt' \in Seq(Tmplt) /\ DOMAIN pt' = DOMAIN pt /\ \A j \in DOMAIN pt : o[j] \in DOMAIN pt /\ pt'[j] = pt[o[j]]
  <2>1. \A j \in 1..Len(pt) : pt[o[j]] \in Tmplt BY <1>1, <1>3
  <2>2. pt' \in [1..Len(pt) -> Tmplt] BY <1>1, <1>3, <2>1
  <2> QED BY SMT, <1>1, <1>3, <2>2
<1>5. \A e, t : FitsTo(e, t)' <=> FitsTo(e, t) BY SMT, <1>2 DEF FitsTo, Template, MapCor
<1>6. DiscrimsFor(schema, signer)' \ left' = S BY <1>2 DEF DiscrimsFor
<1> HIDE DEF S
<1>7. MadeOf(S) BY DEF NamesInv, S
<1>8. ASSUME NEW e \in S PROVE \E j \in DOMAIN pt : FitsTo(e, pt'[j]) /\ e.vals \subseteq pt'[j].vs
  <2>1. PICK k \in DOMAIN pt : FitsTo(e, pt[k]) /\ e.vals \subseteq pt[k].vs BY <1>7 DEF MadeOf
  <2>2. PICK j \in DOMAIN pt : o[j] = k BY <1>1
  <2>3. pt'[j] = pt[k] BY <1>4, <2>2
  <2> QED BY <2>1, <2>3
<1>9. \A j \in DOMAIN pt :
         /\ \E e \in S : FitsTo(e, pt'[j]) /\ e.vals \subseteq pt'[j].vs
         /\ \A v \in pt'[j].vs : \E e \in S : FitsTo(e, pt'[j]) /\ v \in e.vals
  BY <1>4, <1>7 DEF MadeOf
<1> QED BY <1>2, <1>4, <1>5, <1>6, <1>8, <1>9 DEF NamesInv, MadeOf

\* Templates are made anew for each signing chain.
LEMMA NextSignerNames == NamesInv /\ NextSigner => NamesInv'
<1> SUFFICES ASSUME NamesInv, NextSigner PROVE NamesInv'
  OBVIOUS
<1>1. PICK s \in Cert : MayStart(schema, s) BY DEF NextSigner
<1>2. /\ schema' = schema /\ signer' = s /\ phase' = "make" /\ pt' = <<>>
      /\ left' = DiscrimsFor(schema, s)
  BY <1>1 DEF NextSigner, MayStart
<1>3. pt' \in Seq(Tmplt) /\ DOMAIN pt' = {} BY SMT, <1>2
<1>4. DiscrimsFor(schema, signer)' = left' BY <1>2 DEF DiscrimsFor
<1> QED BY <1>2, <1>3, <1>4 DEF NamesInv, MadeOf

\* At each step the templates made are those of the discriminators seen (makePubTmplts).
LEMMA NextNames == NamesInv /\ [NamesNext]_namesVars => NamesInv'
<1> SUFFICES ASSUME NamesInv, [NamesNext]_namesVars PROVE NamesInv'
  OBVIOUS
<1>1. CASE UNCHANGED namesVars
  <2>1. schema' = schema /\ signer' = signer /\ left' = left /\ pt' = pt /\ phase' = phase
    BY <1>1 DEF namesVars
  <2>2. DiscrimsFor(schema, signer)' = DiscrimsFor(schema, signer) BY <2>1 DEF DiscrimsFor
  <2>3. \A e, t : FitsTo(e, t)' <=> FitsTo(e, t) BY SMT, <2>1 DEF FitsTo, Template, MapCor
  <2>4. MadeOf(DiscrimsFor(schema, signer) \ left)' BY <2>1, <2>2, <2>3 DEF NamesInv, MadeOf
  <2> QED BY <2>1, <2>2, <2>4 DEF NamesInv
<1> QED BY <1>1, AddTemplateNames, SortNames, NextSignerNames DEF NamesNext

\* What is known of a template in a finished list
Ready(t) ==
    /\ \A c \in Comp : /\ TypeOf(t.tmplt, c) \in {"lit", "param", "call"}
                       /\ TypeOf(t.tmplt, c) = "param" => c \in Params
                       /\ TypeOf(t.tmplt, c) = "call" => c \notin Params
    /\ t.dpar = NoComp \/ t.dpar \in Params
    /\ t.vs # {} => t.dpar # NoComp /\ TypeOf(t.tmplt, t.dpar) = "param"

\* A template has values for a parameter, or else a literal (addTemplate).
LEMMA TemplatesReady ==
    ASSUME NamesInv, NEW j \in DOMAIN pt
    PROVE  /\ Ready(pt[j])
           /\ \A d \in DiscrimsFor(schema, signer) :
                 FitsTo(d, pt[j]) /\ d.vals = {} => pt[j].dpar = NoComp \/ pt[j].vs = {}
<1> DEFINE S == DiscrimsFor(schema, signer)
           t == pt[j]
<1>1. schema \in Schema /\ signer \in Cert BY DEF NamesInv
<1>2. PICK d \in S : FitsTo(d, t) BY DEF NamesInv, MadeOf
<1>3. \A v \in t.vs : \E e \in S : FitsTo(e, t) /\ v \in e.vals BY DEF NamesInv, MadeOf
<1> HIDE DEF S, t
<1>4. ASSUME NEW e \in S, FitsTo(e, t)
      PROVE  /\ Compiled(e) /\ Template(signer, e).tmplt = t.tmplt /\ e.comp = t.dpar
             /\ \A c \in Comp : /\ TypeOf(t.tmplt, c) \in {"lit", "param", "call"}
                                /\ TypeOf(t.tmplt, c) = "param" <=> TypeOf(e.tmplt, c) = "param"
                                /\ TypeOf(t.tmplt, c) = "call" <=> TypeOf(e.tmplt, c) = "call"
  <2>1. Template(signer, e).tmplt = t.tmplt /\ e.comp = t.dpar BY <1>4 DEF FitsTo
  <2>2. e \in DiscrimsFor(schema, signer) BY DEF S
  <2>3. e \in Discrim[schema] /\ \A c \in Comp :
           LET y == TypeOf(Template(signer, e).tmplt, c)
           IN  /\ y \in {"lit", "param", "call"} /\ (y = "param" <=> TypeOf(e.tmplt, c) = "param")
               /\ (y = "call" <=> TypeOf(e.tmplt, c) = "call")
    BY <1>1, <2>2, TemplateType
  <2> QED BY <1>1, <2>1, <2>3, DiscrimAssumption
<1>5. \A c \in Comp : /\ TypeOf(t.tmplt, c) \in {"lit", "param", "call"}
                      /\ TypeOf(t.tmplt, c) = "param" => c \in Params
                      /\ TypeOf(t.tmplt, c) = "call" => c \notin Params
  <2>1. \A c \in Comp : /\ TypeOf(d.tmplt, c) = "param" => c \in Params
                        /\ TypeOf(d.tmplt, c) = "call" => c \notin Params
    BY <1>2, <1>4 DEF Compiled
  <2> QED BY <1>2, <1>4, <2>1
<1>6. t.dpar = NoComp \/ t.dpar \in Params BY <1>2, <1>4 DEF Compiled
<1>7. ASSUME NEW e \in S, FitsTo(e, t), e.vals # {}
      PROVE  t.dpar \in Params /\ t.dpar # NoComp /\ TypeOf(t.tmplt, t.dpar) = "param"
  <2>1. Compiled(e) /\ e.comp = t.dpar BY <1>4, <1>7
  <2>2. e.comp # NoComp /\ e.comp \in Params /\ TypeOf(e.tmplt, e.comp) = "param"
    BY <1>7, <2>1 DEF Compiled
  <2>3. e.comp \in Comp BY <2>2, DiscrimAssumption
  <2> QED BY <1>4, <1>7, <2>1, <2>2, <2>3
<1>8. t.vs # {} => t.dpar # NoComp /\ TypeOf(t.tmplt, t.dpar) = "param" BY <1>3, <1>7
<1>9. ASSUME NEW e \in S, FitsTo(e, t), e.vals = {}, t.dpar # NoComp PROVE t.vs = {}
  <2>1. Compiled(e) /\ e.comp = t.dpar BY <1>4, <1>9
  <2>2. TypeOf(e.tmplt, e.comp) # "param" /\ e.comp \in Params BY <1>9, <2>1 DEF Compiled
  <2>3. e.comp \in Comp BY <2>2, DiscrimAssumption
  <2> QED BY <1>4, <1>8, <1>9, <2>1, <2>2, <2>3
<1>10. Ready(t) BY <1>5, <1>6, <1>8 DEF Ready
<1> QED BY <1>9, <1>10 DEF S, t

\* Merged and sorted templates accept the parameters that some discriminator does.
LEMMA UsableExact ==
    ASSUME NamesInv, phase = "ready", NEW par
    PROVE  Usable(par) # {} <=> \E d \in DiscrimsFor(schema, signer) : Allows(d, par)
<1> DEFINE S == DiscrimsFor(schema, signer)
<1>1. MadeOf(S) BY DEF NamesInv
<1>2. ASSUME NEW d, NEW t, FitsTo(d, t) PROVE CheckPars(par, Template(signer, d)) <=> CheckPars(par, t)
  BY <1>2 DEF FitsTo, CheckPars
<1>3. ASSUME NEW j \in Usable(par) PROVE \E d \in S : Allows(d, par)
  <2> DEFINE t == pt[j]
  <2>1. j \in DOMAIN pt /\ CheckPars(par, t) /\ (t.dpar = NoComp \/ t.vs = {} \/ par[t.dpar].text \in t.vs)
    BY DEF Usable, MatchesTmplt
  <2>2. /\ \E d \in S : FitsTo(d, t) /\ d.vals \subseteq t.vs
        /\ \A v \in t.vs : \E d \in S : FitsTo(d, t) /\ v \in d.vals
    BY <1>1, <2>1 DEF MadeOf
  <2> HIDE DEF t, S
  <2>3. CASE t.dpar = NoComp \/ t.vs = {}
    <3>1. PICK d \in S : FitsTo(d, t) /\ d.vals \subseteq t.vs BY <2>2
    <3>2. d.comp = NoComp \/ d.vals = {} BY <2>3, <3>1 DEF FitsTo
    <3>3. Allows(d, par) BY <1>2, <2>1, <3>1, <3>2 DEF Allows
    <3> QED BY <3>3
  <2>4. CASE par[t.dpar].text \in t.vs
    <3>1. PICK d \in S : FitsTo(d, t) /\ par[t.dpar].text \in d.vals BY <2>2, <2>4
    <3>2. Allows(d, par) BY <1>2, <2>1, <3>1 DEF Allows, FitsTo
    <3> QED BY <3>2
  <2> QED BY <2>1, <2>3, <2>4
<1>4. ASSUME NEW d \in S, Allows(d, par) PROVE Usable(par) # {}
  <2>1. PICK j \in DOMAIN pt : FitsTo(d, pt[j]) /\ d.vals \subseteq pt[j].vs BY <1>1 DEF MadeOf
  <2>2. d.vals = {} => pt[j].dpar = NoComp \/ pt[j].vs = {} BY <2>1, TemplatesReady
  <2>3. d.comp = pt[j].dpar /\ CheckPars(par, pt[j]) BY <1>2, <1>4, <2>1 DEF FitsTo, Allows
  <2>4. MatchesTmplt(par, pt[j]) BY <1>4, <2>1, <2>2, <2>3 DEF Allows, MatchesTmplt
  <2> QED BY <2>4 DEF Usable
<1> QED BY <1>3, <1>4

\* Numbers that parameters are distinguished by are given as strings, so that the text the
\* builder compares is the bytes the validator compares
StringsDistinguish ==
    \A b \in Schema : \A d \in Discrim[b] : d.vals # {} => \A v \in Values[d.comp] : v.bytes = v.text

\* The templates of a publication differ in its parameters only, for each signing chain
OneShape ==
    \A b \in Schema : \A c \in Comp \ Params :
        /\ \A d, e \in Discrim[b] : TypeOf(d.tmplt, c) = "call" => TypeOf(e.tmplt, c) = "call"
        /\ \A s \in Cert : \A d, e \in DiscrimsFor(b, s) : Template(s, d).tmplt[c] = Template(s, e).tmplt[c]

\* Among the templates that match there is a first.
LEMMA FirstUsable ==
    ASSUME NamesInv, NEW par, Usable(par) # {}
    PROVE  \E j \in Usable(par) : Name(par) = Filled(par, pt[j])
<1> DEFINE U == Usable(par)
           N == Len(pt)
           S == {k \in Nat : \A j \in U : k < j}
<1>1. N \in Nat /\ U \subseteq 1..N BY SMT DEF NamesInv, Usable
<1>2. \E j \in U : \A k \in U : j <= k
  <2> SUFFICES ASSUME \A j \in U : \E k \in U : ~(j <= k) PROVE FALSE
    OBVIOUS
  <2> HIDE DEF U, N
  <2>1. 0 \in S BY SMT, <1>1
  <2>2. ASSUME NEW k \in 0..N - 1, k \in S PROVE k + 1 \in S
    <3>1. k + 1 \notin U
      <4> SUFFICES ASSUME k + 1 \in U PROVE FALSE
        OBVIOUS
      <4>1. PICK j \in U : ~(k + 1 <= j) BY <2>2
      <4>2. k < j /\ j \in 1..N BY <1>1, <2>2
      <4> QED BY SMT, <1>1, <4>1, <4>2
    <3>2. ASSUME NEW j \in U PROVE k + 1 < j
      <4>1. k < j /\ j # k + 1 /\ j \in 1..N BY <1>1, <2>2, <3>1
      <4> QED BY SMT, <1>1, <4>1
    <3> QED BY SMT, <1>1, <3>2
  <2> HIDE DEF S
  <2>3. 0..N \subseteq S BY <1>1, <2>1, <2>2, UpTo
  <2>4. PICK j \in U : TRUE BY DEF U
  <2>5. j \in S BY SMT, <1>1, <2>3
  <2> QED BY SMT, <1>1, <2>4, <2>5 DEF S
<1> QED BY <1>2 DEF Name

\* What the builder makes, the validator accepts (completeTmplt, matchTmplt).
LEMMA BuiltAccepted ==
    ASSUME StringsDistinguish, NamesInv, NEW par \in Pars, Usable(par) # {}
    PROVE  MatchTmplt(Name(par))
<1>1. PICK j \in Usable(par) : Name(par) = Filled(par, pt[j]) BY FirstUsable
<1> DEFINE t == pt[j]
           n == Filled(par, t)
<1>2. j \in DOMAIN pt /\ CheckPars(par, t) /\ (t.dpar = NoComp \/ t.vs = {} \/ par[t.dpar].text \in t.vs)
  BY DEF Usable, MatchesTmplt
<1>3. Ready(t) BY <1>2, TemplatesReady
<1>4. t.vs # {} => \A v \in Values[t.dpar] : v.bytes = v.text
  <2>1. ASSUME NEW v \in t.vs PROVE \E d \in DiscrimsFor(schema, signer) : d.comp = t.dpar /\ d.vals # {}
    BY <1>2 DEF NamesInv, MadeOf, FitsTo
  <2>2. schema \in Schema /\ DiscrimsFor(schema, signer) \subseteq Discrim[schema] BY DEF NamesInv, DiscrimsFor
  <2> QED BY <2>1, <2>2 DEF StringsDistinguish
<1> HIDE DEF t
<1>5. \A c \in Comp : n[c] = CASE TypeOf(t.tmplt, c) = "lit" -> t.tmplt[c].text
                               [] TypeOf(t.tmplt, c) = "param" -> par[c].bytes
                               [] TypeOf(t.tmplt, c) = "call" -> "now"
  BY DEF Filled
<1> HIDE DEF n
<1>6. \A c \in Comp : TypeOf(t.tmplt, c) \in {"param", "call"} \/ n[c] = t.tmplt[c].text
  BY <1>3, <1>5 DEF Ready
<1>7. ASSUME t.vs # {} PROVE n[t.dpar] \in t.vs
  <2>1. t.dpar \in Params /\ t.dpar \in Comp /\ TypeOf(t.tmplt, t.dpar) = "param"
        /\ par[t.dpar].text \in t.vs
    BY <1>2, <1>3, <1>7, DiscrimAssumption DEF Ready
  <2>2. par[t.dpar] \in Values[t.dpar] BY <2>1 DEF Pars
  <2>3. n[t.dpar] = par[t.dpar].bytes BY <1>5, <2>1
  <2> QED BY <1>4, <1>7, <2>1, <2>2, <2>3
<1>8. ValidTmplt(n, t) BY <1>6, <1>7 DEF ValidTmplt
<1> QED BY <1>1, <1>2, <1>8 DEF MatchTmplt, t, n

\* The names that are looked at have all components.
LEMMA AllNamesAre ==
    ASSUME NEW n \in AllNames
    PROVE  n = [c \in Comp |-> n[c]] /\ \A c \in Comp : n[c] \in Bytes(c)
<1> DEFINE Longer(M, c) == {Append(m, x) : m \in M, x \in Bytes(c)}
           none == {<<>>}
           Is(f, k) == f = [c \in 0..k |-> IF c = 0 THEN none ELSE Longer(f[c - 1], c)]
           S == {k \in 0..Size : \E f : Is(f, k)}
           X == UNION {Bytes(c) : c \in Comp}
<1>0. Size \in Nat BY DiscrimAssumption
<1>14. AllNames = (CHOOSE f : Is(f, Size))[Size] BY SMT DEF AllNames
<1> HIDE DEF Longer, none
<1>1. 0 \in S
  <2>1. Is([c \in 0..0 |-> none], 0) BY SMT
  <2> HIDE DEF Is
  <2> QED BY SMT, <1>0, <2>1
<1>2. ASSUME NEW k \in 0..Size - 1, k \in S PROVE k + 1 \in S
  <2>1. PICK f : Is(f, k) BY <1>2
  <2> DEFINE g == [c \in 0..k + 1 |-> IF c = k + 1 THEN Longer(f[k], k + 1) ELSE f[c]]
  <2>2. \A c \in 0..k : g[c] = f[c] BY SMT, <1>0
  <2>3. g = [c \in 0..k + 1 |-> IF c = 0 THEN none ELSE Longer(g[c - 1], c)]
    <3>1. SUFFICES ASSUME NEW c \in 0..k + 1 PROVE g[c] = IF c = 0 THEN none ELSE Longer(g[c - 1], c)
      OBVIOUS
    <3>2. CASE c = k + 1
      <4>1. g[c] = Longer(f[k], k + 1) /\ c # 0 /\ c - 1 = k BY SMT, <3>2
      <4>2. f[k] = g[k] BY SMT, <2>2
      <4> QED BY <3>2, <4>1, <4>2
    <3>3. CASE c \in 0..k
      <4>1. g[c] = IF c = 0 THEN none ELSE Longer(f[c - 1], c) BY <2>1, <2>2, <3>3
      <4>2. c # 0 => g[c - 1] = f[c - 1] BY SMT, <2>2, <3>3
      <4> QED BY <4>1, <4>2
    <3> QED BY SMT, <3>2, <3>3
  <2>4. Is(g, k + 1) BY <2>3
  <2> HIDE DEF Is, g
  <2> QED BY SMT, <1>0, <2>4
<1>3. Size \in S
  <2> HIDE DEF S
  <2>1. 0..Size \subseteq S BY <1>0, <1>1, <1>2, UpTo
  <2> QED BY SMT, <1>0, <2>1
<1>4. PICK f : Is(f, Size) /\ AllNames = f[Size]
  <2> HIDE DEF Is
  <2>1. \E f : Is(f, Size) BY <1>3
  <2> QED BY <1>14, <2>1
<1> DEFINE Whole(k) == \A m \in f[k] : m \in Seq(X) /\ Len(m) = k /\ \A c \in 1..k : m[c] \in Bytes(c)
           T == {k \in 0..Size : Whole(k)}
<1>5. f[0] = none /\ \A k \in 0..Size - 1 : f[k + 1] = Longer(f[k], k + 1)
  <2>1. \A c \in 0..Size : f[c] = IF c = 0 THEN none ELSE Longer(f[c - 1], c)
    BY <1>4
  <2>2. f[0] = none BY SMT, <1>0, <2>1
  <2>3. ASSUME NEW k \in 0..Size - 1 PROVE f[k + 1] = Longer(f[k], k + 1)
    <3>1. k + 1 \in 0..Size /\ k + 1 # 0 /\ (k + 1) - 1 = k BY SMT, <1>0
    <3> QED BY <2>1, <3>1
  <2> QED BY <2>2, <2>3
<1> HIDE DEF Is, X
<1>6. 0 \in T
  <2>1. \A m \in f[0] : m = <<>> BY <1>5 DEF none
  <2>2. <<>> \in Seq(X) /\ Len(<<>>) = 0 BY SMT
  <2>3. 1..0 = {} BY SMT
  <2>4. ASSUME NEW m \in f[0] PROVE m \in Seq(X) /\ Len(m) = 0 /\ \A c \in 1..0 : m[c] \in Bytes(c)
    <3>1. m = <<>> BY <2>1
    <3>2. \A c \in 1..0 : m[c] \in Bytes(c) BY <2>3
    <3> QED BY <2>2, <3>1, <3>2
  <2> QED BY SMT, <1>0, <2>4
<1>7. ASSUME NEW k \in 0..Size - 1, k \in T PROVE k + 1 \in T
  <2>1. k + 1 \in 0..Size /\ k + 1 \in Comp BY SMT, <1>0 DEF Comp
  <2>2. ASSUME NEW m \in f[k + 1]
        PROVE  m \in Seq(X) /\ Len(m) = k + 1 /\ \A c \in 1..k + 1 : m[c] \in Bytes(c)
    <3>1. PICK l \in f[k], x \in Bytes(k + 1) : m = Append(l, x) BY SMT, <1>5 DEF Longer
    <3>2. l \in Seq(X) /\ Len(l) = k /\ \A c \in 1..k : l[c] \in Bytes(c) BY <1>7
    <3>3. x \in X BY <2>1 DEF X
    <3>4. m \in Seq(X) /\ Len(m) = k + 1 BY SMT, <3>1, <3>2, <3>3
    <3>5. (\A c \in 1..k : m[c] = l[c]) /\ m[k + 1] = x BY SMT, <3>1, <3>2, <3>3
    <3>6. \A c \in 1..k + 1 : c \in 1..k \/ c = k + 1 BY SMT, <1>0
    <3> QED BY <3>2, <3>4, <3>5, <3>6
  <2> QED BY <2>1, <2>2
<1>8. Size \in T
  <2> HIDE DEF T
  <2>1. 0..Size \subseteq T BY <1>0, <1>6, <1>7, UpTo
  <2> QED BY SMT, <1>0, <2>1
<1>9. n \in Seq(X) /\ Len(n) = Size /\ \A c \in 1..Size : n[c] \in Bytes(c) BY <1>4, <1>8
<1>10. DOMAIN n = 1..Size /\ n = [c \in DOMAIN n |-> n[c]] BY SMT, <1>9
<1> QED BY <1>9, <1>10 DEF Comp

\* What the validator accepts, the builder makes of the same components.
LEMMA AcceptedBuilt ==
    ASSUME OneShape, NamesInv, NEW n \in AllNames, MatchTmplt(n)
    PROVE  Usable(Given(n)) # {} /\ Name(Given(n)) = n
<1> DEFINE par == Given(n)
<1>1. PICK j \in DOMAIN pt : ValidTmplt(n, pt[j]) BY DEF MatchTmplt
<1> DEFINE t == pt[j]
<1>2. Ready(t) BY TemplatesReady
<1>3. \A c \in Params : par[c].text = n[c] /\ par[c].bytes = n[c] BY DEF Given
<1>4. /\ t.dpar = NoComp \/ t.vs = {} \/ n[t.dpar] \in t.vs
      /\ \A c \in Comp : TypeOf(t.tmplt, c) \in {"param", "call"} \/ n[c] = t.tmplt[c].text
  BY <1>1 DEF ValidTmplt
<1> HIDE DEF t, par
<1>5. CheckPars(par, t)
  <2>1. ASSUME NEW c \in Params PROVE TypeOf(t.tmplt, c) = "param" \/ par[c].text = t.tmplt[c].text
    <3>1. c \in Comp BY DiscrimAssumption
    <3>2. TypeOf(t.tmplt, c) # "call" BY <1>2, <3>1 DEF Ready
    <3> QED BY <1>3, <1>4, <3>1, <3>2
  <2> QED BY <2>1 DEF CheckPars
<1>6. j \in Usable(par)
  <2>1. t.dpar = NoComp \/ t.vs = {} \/ par[t.dpar].text \in t.vs BY <1>2, <1>3, <1>4 DEF Ready
  <2> QED BY <1>5, <2>1 DEF Usable, MatchesTmplt, t
<1>7. PICK k \in Usable(par) : Name(par) = Filled(par, pt[k]) BY <1>6, FirstUsable
<1> DEFINE u == pt[k]
<1>8. k \in DOMAIN pt /\ CheckPars(par, u) BY DEF Usable, MatchesTmplt
<1>9. Ready(u) BY <1>8, TemplatesReady
<1>10. ASSUME NEW c \in Comp \ Params
       PROVE  t.tmplt[c] = u.tmplt[c] /\ (TypeOf(u.tmplt, c) = "call" => n[c] = "now")
  <2> DEFINE S == DiscrimsFor(schema, signer)
  <2>1. schema \in Schema /\ signer \in Cert /\ S \subseteq Discrim[schema] BY DEF NamesInv, DiscrimsFor
  <2>2. PICK d \in S : FitsTo(d, t) BY DEF NamesInv, MadeOf, t
  <2>3. PICK e \in S : FitsTo(e, u) BY <1>8 DEF NamesInv, MadeOf
  <2> HIDE DEF u
  <2>4. t.tmplt[c] = u.tmplt[c] BY <2>1, <2>2, <2>3 DEF FitsTo, OneShape
  <2>5. ASSUME TypeOf(u.tmplt, c) = "call" PROVE n[c] = "now"
    <3>1. TypeOf(Template(signer, e).tmplt, c) = "call" BY <2>3, <2>5 DEF FitsTo
    <3>2. TypeOf(e.tmplt, c) = "call" BY SMT, <2>1, <3>1, TemplateType
    <3>3. \A a \in Discrim[schema] : TypeOf(a.tmplt, c) = "call" BY <2>1, <2>3, <3>2 DEF OneShape
    <3>4. n[c] \in Bytes(c) BY AllNamesAre
    <3> QED BY <3>3, <3>4 DEF Bytes
  <2> QED BY <2>4, <2>5
<1> HIDE DEF u
<1>11. ASSUME NEW c \in Comp
       PROVE  n[c] = CASE TypeOf(u.tmplt, c) = "lit" -> u.tmplt[c].text
                       [] TypeOf(u.tmplt, c) = "param" -> par[c].bytes
                       [] TypeOf(u.tmplt, c) = "call" -> "now"
  <2>1. TypeOf(u.tmplt, c) \in {"lit", "param", "call"} BY <1>9 DEF Ready
  <2>2. CASE TypeOf(u.tmplt, c) = "lit"
    <3>1. CASE c \in Params
      <4>1. par[c].text = u.tmplt[c].text BY <1>8, <2>2, <3>1 DEF CheckPars, u
      <4> QED BY <1>3, <2>2, <3>1, <4>1
    <3>2. CASE c \notin Params
      <4>1. TypeOf(t.tmplt, c) = "lit" BY <1>10, <2>2, <3>2 DEF TypeOf
      <4>2. n[c] = t.tmplt[c].text BY <1>4, <4>1
      <4> QED BY <1>10, <2>2, <3>2, <4>2
    <3> QED BY <3>1, <3>2
  <2>3. CASE TypeOf(u.tmplt, c) = "param"
    <3>1. c \in Params BY <1>9, <2>3 DEF Ready
    <3> QED BY <1>3, <2>3, <3>1
  <2>4. CASE TypeOf(u.tmplt, c) = "call"
    <3>1. c \notin Params BY <1>9, <2>4 DEF Ready
    <3> QED BY <1>10, <2>4, <3>1
  <2> QED BY <2>1, <2>2, <2>3, <2>4
<1>12. n = [c \in Comp |-> n[c]] BY AllNamesAre
<1>13. Filled(par, u) = n BY <1>11, <1>12 DEF Filled
<1> QED BY <1>6, <1>7, <1>13 DEF par, u

\* Builder and validator of names agree for any schema whose publications have one shape,
\* any signing chain, parameters, and names that arrive (pubBldr, pubValidator).
THEOREM NamesAgree ==
    ASSUME StringsDistinguish, OneShape
    PROVE  NamesSpec => []NamesExact
<1>1. NamesInv => NamesExact
  <2> SUFFICES ASSUME NamesInv, phase = "ready" PROVE NamesExact
    BY DEF NamesExact
  <2>1. \A par \in Pars : Usable(par) # {} <=> \E d \in DiscrimsFor(schema, signer) : Allows(d, par)
    BY UsableExact
  <2>2. \A par \in Pars : Usable(par) # {} => MatchTmplt(Name(par)) BY BuiltAccepted
  <2>3. \A n \in AllNames : MatchTmplt(n) => Usable(Given(n)) # {} /\ Name(Given(n)) = n
    BY AcceptedBuilt
  <2> QED BY <2>1, <2>2, <2>3 DEF NamesExact
<1> QED BY <1>1, InitNames, NextNames, PTL DEF NamesSpec

===============================================================================
