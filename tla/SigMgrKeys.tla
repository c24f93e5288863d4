------------------------------ MODULE SigMgrKeys ------------------------------
(***************************************************************************)
(* The group keys in the signature managers of a receiver, while the key   *)
(* maker makes new keys and publishers change to them when they get them:  *)
(* a ring of the two newest symmetric keys (sigmgr_aead.hpp), or of the    *)
(* two newest key pairs of a subscriber group, with the decryption key of  *)
(* each publisher that was last computed from one of them                  *)
(* (sigmgr_ppaead.hpp; sigmgr_ppaeadsgn.hpp decrypts in the same way).     *)
(*                                                                         *)
(* Keys are numbered in the order of their creation. The distributors give *)
(* a manager newer keys only, and may skip some (DistGKey, NoOlderKey).    *)
(* Messages are delayed, reordered and lost. A message is decrypted with   *)
(* the key it was encrypted with and no other.                             *)
(***************************************************************************)
EXTENDS Integers, Sequences

CONSTANTS Publisher,
          Kinds,      \* the signature managers looked at: "AEAD", "PPAEAD"
          MaxKeys     \* bound on the keys made

VARIABLES kind,       \* the receiver's signature manager (constant)
          newest,     \* the newest key
          encKey,     \* encKey[p]: the newest key that p has, 0 if it has none
          keyList,    \* m_keyList of the receiver, the newest first
          decryptIndex,
          decKeys,    \* m_decKeys[p], the key it was computed from, 0 if there is none
          sent,       \* messages on their way, with their publisher and key
          last        \* history: the last message received, and if it was decrypted

keysVars == <<kind, newest, encKey, keyList, decryptIndex, decKeys, sent, last>>

Nothing == [from |-> "", key |-> 0, ok |-> TRUE]

KeysInit ==
    /\ kind \in Kinds
    /\ newest = 0 /\ encKey = [p \in Publisher |-> 0]
    /\ keyList = <<>> /\ decryptIndex = 0
    /\ decKeys = [p \in Publisher |-> 0]
    /\ sent = {} /\ last = Nothing
-------------------------------------------------------------------------------
MakeKey ==
    /\ newest < MaxKeys /\ newest' = newest + 1
    /\ UNCHANGED <<kind, encKey, keyList, decryptIndex, decKeys, sent, last>>

\* addKey: no more than two keys are kept. The next message is tried first with the
\* older one.
AddKey(k) ==
    /\ k <= newest /\ (keyList # <<>> => k > keyList[1])
    /\ keyList' = IF keyList = <<>> THEN <<k>> ELSE <<k, keyList[1]>>
    /\ decryptIndex' = IF keyList = <<>> THEN 0 ELSE 1
    /\ last' = Nothing
    /\ UNCHANGED <<kind, newest, encKey, decKeys, sent>>

\* addKey of a publisher's manager
NewEncKey(p, k) ==
    /\ encKey[p] < k /\ k <= newest
    /\ encKey' = [encKey EXCEPT ![p] = k]
    /\ UNCHANGED <<kind, newest, keyList, decryptIndex, decKeys, sent, last>>

\* sign, always with the newest key
Sign(p) ==
    /\ encKey[p] > 0
    /\ sent' = sent \cup {[from |-> p, key |-> encKey[p]]}
    /\ UNCHANGED <<kind, newest, encKey, keyList, decryptIndex, decKeys, last>>

Result(m, ok) == last' = [from |-> m.from, key |-> m.key, ok |-> ok]

\* Mutant: the ring is not gone round
RingOnce(m) ==
    /\ kind = "AEAD" /\ m \in sent /\ keyList # <<>>
    /\ Result(m, keyList[decryptIndex + 1] = m.key)
    /\ UNCHANGED <<kind, newest, encKey, keyList, decryptIndex, decKeys, sent>>

\* validateDecrypt of SigMgrAEAD: the keys are tried round the ring, beginning with
\* the last successful one
Ring(m) ==
    /\ kind = "AEAD" /\ m \in sent /\ keyList # <<>>
    /\ \/ \E j \in 0..Len(keyList) - 1 :
             keyList[j + 1] = m.key /\ decryptIndex' = j /\ Result(m, TRUE)
       \/ /\ \A j \in DOMAIN keyList : keyList[j] # m.key
          /\ Result(m, FALSE) /\ UNCHANGED decryptIndex
    /\ UNCHANGED <<kind, newest, encKey, keyList, decKeys, sent>>

\* validateDecrypt of SigMgrPPAEAD: the key that the publisher's messages were last
\* tried with, or one computed from the newest pair; then one from the pair that is
\* not at decryptIndex, if there are two
DecKey(m) ==
    /\ kind = "PPAEAD" /\ m \in sent /\ keyList # <<>>
    /\ LET cur   == IF decKeys[m.from] = 0 THEN keyList[1] ELSE decKeys[m.from]
           other == keyList[(1 - decryptIndex) + 1]
       IN  \/ /\ cur = m.key
              /\ decKeys' = [decKeys EXCEPT ![m.from] = cur]
              /\ Result(m, TRUE) /\ UNCHANGED decryptIndex
           \/ /\ cur # m.key /\ Len(keyList) = 1
              /\ decKeys' = [decKeys EXCEPT ![m.from] = cur]
              /\ Result(m, FALSE) /\ UNCHANGED decryptIndex
           \/ /\ cur # m.key /\ Len(keyList) = 2
              /\ decKeys' = [decKeys EXCEPT ![m.from] = other]
              /\ decryptIndex' = IF other = m.key THEN 1 - decryptIndex ELSE decryptIndex
              /\ Result(m, other = m.key)
    /\ UNCHANGED <<kind, newest, encKey, keyList, sent>>

Lose(m) ==
    /\ m \in sent /\ sent' = sent \ {m}
    /\ UNCHANGED <<kind, newest, encKey, keyList, decryptIndex, decKeys, last>>

KeysNext == \/ MakeKey
            \/ \E k \in 1..newest : AddKey(k) \/ \E p \in Publisher : NewEncKey(p, k)
            \/ \E p \in Publisher : Sign(p)
            \/ \E m \in sent : Ring(m) \/ DecKey(m) \/ Lose(m)

KeysSpec == KeysInit /\ [][KeysNext]_keysVars
-------------------------------------------------------------------------------
Kept == {keyList[j] : j \in DOMAIN keyList}

\* A message is decrypted whenever its key is one of those that the receiver keeps,
\* so that late messages, and publishers that get the new key late, lose nothing
\* while a key is replaced: the ring of symmetric keys (SigMgrAEAD) promises that
\* at all times, the subscriber group's only until its key is replaced.
DecryptsRing == (kind = "AEAD" \/ Len(keyList) < 2) /\ last.key \in Kept => last.ok

\* The same for both: "start with last successful key", "try next key pair if there
\* is one" (validateDecrypt of SigMgrPPAEAD).
Decrypts == last.key \in Kept => last.ok
===============================================================================
