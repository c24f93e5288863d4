------------------------------ MODULE Mbps_proofs ------------------------------
(***************************************************************************)
(* The invariants of Mbps, for any messages, sizes, segment size and       *)
(* number of nodes.                                                        *)
(*                                                                         *)
(* First the arithmetic of segments: how a message is cut, and that sCnt   *)
(* tells the number of segments and the index of one. SendInv says of each *)
(* message how handler, bitmap and calls follow from what has become of    *)
(* its Publications; RecvInv, that a buffer holds the segments that have   *)
(* come, each in its place, and that a message is delivered with the last. *)
(***************************************************************************)
EXTENDS Mbps, FiniteSetTheorems, SequenceTheorems, TLAPS

\* Zenon proves the leaves that do not name another prover.
USE Zenon

\* The size of a full segment
MC == MaxContent

\* The number of a message's last Publication
Last(m) == IF Size[m] = 0 THEN 1 ELSE Segs(m)

\* Its i-th Publication
Seg(m, i) == [msgID |-> m, sCnt |-> SCnt(m, i), content |-> Slice(m, i)]

\* Multiplication is monotone (the offsets of segments in a message).
LEMMA MulMono ==
    ASSUME NEW a \in Nat, NEW b \in Nat, NEW c \in Nat, a <= b
    PROVE  a * c <= b * c
BY SMT

\* Division rounds down (the number of segments that publish computes).
LEMMA DivFacts ==
    ASSUME NEW x \in Nat, NEW d \in Nat \ {0}
    PROVE  /\ x \div d \in Nat
           /\ (x \div d) * d <= x
           /\ x < (x \div d) * d + d
BY SMT

\* publish cuts a message into as many segments as are needed, and no more.
LEMMA SegsFacts ==
    ASSUME NEW m \in Msg
    PROVE  /\ Segs(m) \in Nat /\ Size[m] \in Nat /\ MC \in Nat \ {0}
           /\ Size[m] = 0 => Segs(m) = 0
           /\ Size[m] > 0 => /\ Segs(m) >= 1
                             /\ (Segs(m) - 1) * MC < Size[m]
                             /\ Size[m] <= Segs(m) * MC
<1>1. Size[m] \in Nat /\ MC \in Nat \ {0} BY MsgAssumption, SegAssumption DEF MC
<1> DEFINE x == Size[m] + (MC - 1)
           s == x \div MC
<1>2. x \in Nat /\ Segs(m) = s BY SMT, <1>1 DEF Segs, MC
<1>3. s \in Nat /\ s * MC <= x /\ x < s * MC + MC BY <1>1, <1>2, DivFacts
<1> HIDE DEF s
<1>4. (s - 1) * MC = s * MC - MC BY SMT, <1>1, <1>3
<1>5. CASE Size[m] = 0
  <2>1. s * MC < MC BY SMT, <1>1, <1>3, <1>5
  <2>2. s = 0 BY SMT, <1>1, <1>3, <2>1
  <2> QED BY SMT, <1>1, <1>2, <1>5, <2>2
<1>6. CASE Size[m] > 0
  <2>1. s * MC > 0 BY SMT, <1>1, <1>3, <1>6
  <2>2. s >= 1 BY SMT, <1>1, <1>3, <2>1
  <2> QED BY SMT, <1>1, <1>2, <1>3, <1>4, <1>6, <2>2
<1> QED BY SMT, <1>1, <1>5, <1>6

\* The number of segments and the index of one can be read from sCnt, as the number
\* of segments is less than 256.
LEMMA SegFacts ==
    ASSUME NEW m \in Msg, Segs(m) <= MaxSegs, NEW i \in 1..Last(m)
    PROVE  LET p == Seg(m, i)
           IN  /\ p.msgID = m /\ p \in Publications(m) /\ p \in Pub
               /\ Segs(m) <= 1 => p.sCnt = 0 /\ i = 1 /\ Last(m) = 1
               /\ Segs(m) > 1 => p.sCnt # 0 /\ SegNo(p) = i /\ SegOf(p) = Segs(m) /\ Last(m) = Segs(m)
<1> DEFINE n == Segs(m)
<1>1. n \in Nat /\ n <= 255 /\ Size[m] \in Nat /\ (Size[m] = 0 => n = 0)
      /\ (Size[m] > 0 => n >= 1)
  BY SMT, SegsFacts, SegAssumption
<1>2. Seg(m, i).msgID = m /\ Seg(m, i) \in Publications(m) BY DEF Publications, Seg, Last
<1>3. Seg(m, i) \in Pub BY <1>2 DEF Pub
<1>4. CASE n <= 1 BY SMT, <1>1, <1>2, <1>3, <1>4 DEF Seg, SCnt, Last
<1>5. CASE n > 1
  <2> HIDE DEF n
  <2>1. i \in Nat /\ i >= 1 /\ Last(m) = n BY SMT, <1>1, <1>5 DEF Last, n
  <2>2. (n + 256 * i) \div 256 = i /\ (n + 256 * i) % 256 = n /\ n + 256 * i # 0 BY SMT, <1>1, <2>1
  <2>3. Seg(m, i).sCnt = n + 256 * i BY <1>5 DEF Seg, SCnt, n
  <2>4. SegNo(Seg(m, i)) = i /\ SegOf(Seg(m, i)) = n BY <2>2, <2>3 DEF SegNo, SegOf
  <2>5. ~(n <= 1) BY SMT, <1>1, <1>5
  <2> QED BY <1>2, <1>3, <1>5, <2>1, <2>2, <2>3, <2>4, <2>5 DEF n
<1> QED BY SMT, <1>1, <1>4, <1>5

\* Each Publication is a segment of its message.
LEMMA PubIsSeg ==
    ASSUME NEW p \in Pub
    PROVE  /\ p.msgID \in Msg /\ p \in Publications(p.msgID)
           /\ \E i \in 1..Last(p.msgID) : p = Seg(p.msgID, i)
<1>1. PICK m \in Msg : p \in Publications(m) BY DEF Pub
<1>2. PICK i \in 1..Last(m) : p = Seg(m, i) BY <1>1 DEF Publications, Seg, Last
<1>3. p.msgID = m BY <1>2 DEF Seg
<1> QED BY <1>1, <1>2, <1>3

\* A message has a Publication, and each of them is one of its own.
LEMMA PubsOf ==
    ASSUME NEW m \in Msg
    PROVE  /\ Publications(m) \subseteq Pub /\ Publications(m) # {}
           /\ \A p \in Publications(m) : p.msgID = m /\ \E i \in 1..Last(m) : p = Seg(m, i)
           /\ \A i \in 1..Last(m) : Seg(m, i) \in Publications(m)
           /\ Publications(m) \subseteq OwnPubs[From[m]]
<1>1. Publications(m) = {Seg(m, i) : i \in 1..Last(m)} BY DEF Publications, Seg, Last
<1>2. Last(m) \in Nat /\ Last(m) >= 1 BY SMT, SegsFacts DEF Last
<1>3. 1 \in 1..Last(m) BY SMT, <1>2
<1>4. Publications(m) \subseteq Pub BY DEF Pub
<1>5. \A i \in 1..Last(m) : Seg(m, i).msgID = m BY DEF Seg
<1>6. From[m] \in Node BY MsgAssumption
<1>7. Publications(m) \subseteq OwnPubs[From[m]] BY <1>1, <1>4, <1>5, <1>6 DEF OwnPubs
<1> QED BY <1>1, <1>3, <1>4, <1>5, <1>7

\* What a buffer may contain: units of messages, or zeros from resize
Unit == (Msg \X Nat) \cup {0}

\* A function on 1..n is a sequence of length n.
LEMMA FunSeq ==
    ASSUME NEW n \in Nat, NEW S, NEW f \in [1..n -> S]
    PROVE  f \in Seq(S) /\ Len(f) = n
<1>1. f \in Seq(S) BY SMT DEF Seq
<1>2. Len(f) \in Nat /\ DOMAIN f = 1..Len(f) BY SMT, <1>1
<1>3. DOMAIN f = 1..n OBVIOUS
<1>4. 1..Len(f) = 1..n BY <1>2, <1>3
<1>5. Len(f) = n
  <2> DEFINE l == Len(f)
  <2>1. l \in Nat /\ 1..l = 1..n BY <1>2, <1>4
  <2> HIDE DEF l
  <2>2. l \in 1..l \/ l = 0 BY SMT, <2>1
  <2>3. n \in 1..n \/ n = 0 BY SMT
  <2>4. l = n BY SMT, <2>1, <2>2, <2>3
  <2> QED BY <2>4 DEF l
<1> QED BY <1>1, <1>5

\* A message is a sequence of its size.
LEMMA BodyFacts ==
    ASSUME NEW m \in Msg
    PROVE  /\ Body(m) \in [1..Size[m] -> Unit] /\ Body(m) \in Seq(Unit) /\ Len(Body(m)) = Size[m]
<1>1. Body(m) \in [1..Size[m] -> Unit] /\ Size[m] \in Nat BY SMT, SegsFacts DEF Body, Unit
<1> QED BY <1>1, FunSeq

\* The i-th subspan: where it begins, how long it is, and what is in it.
LEMMA SliceFacts ==
    ASSUME NEW m \in Msg, NEW i \in 1..Last(m)
    PROVE  LET off == (i - 1) * MC
               len == IF i < Last(m) THEN MC ELSE Size[m] - off
           IN  /\ off \in Nat /\ len \in Nat /\ off + len <= Size[m]
               /\ Size[m] > 0 => len > 0
               /\ Slice(m, i) \in Seq(Unit) /\ Len(Slice(m, i)) = len
               /\ \A x \in 1..len : Slice(m, i)[x] = Body(m)[off + x]
<1> DEFINE z == Size[m]
           off == (i - 1) * MC
           last == i * MC
           end == IF last < z THEN last ELSE z
           len == IF i < Last(m) THEN MC ELSE z - off
<1>1. z \in Nat /\ MC \in Nat \ {0} /\ i \in Nat /\ i >= 1 /\ Last(m) \in Nat
  BY SMT, SegsFacts DEF Last
<1>2. last = off + MC /\ off \in Nat /\ last \in Nat BY SMT, <1>1
<1>3. end = off + len /\ len \in Nat /\ (z > 0 => len > 0)
  <2>1. CASE z = 0
    <3>1. i = 1 /\ Last(m) = 1 BY SMT, <2>1 DEF Last
    <3>2. off = 0 BY SMT, <1>1, <3>1
    <3> QED BY SMT, <1>1, <1>2, <2>1, <3>1, <3>2
  <2>2. CASE z > 0 /\ i = Last(m)
    <3>1. i = Segs(m) BY SMT, <2>2, <1>1 DEF Last
    <3>2. off < z /\ z <= last BY <2>2, <3>1, SegsFacts
    <3> HIDE DEF off, last
    <3> QED BY SMT, <1>1, <1>2, <2>2, <3>2
  <2>3. CASE z > 0 /\ i < Last(m)
    <3>1. i <= Segs(m) - 1 /\ Segs(m) - 1 \in Nat BY SMT, <1>1, <2>3, SegsFacts DEF Last
    <3>2. i * MC <= (Segs(m) - 1) * MC BY <1>1, <3>1, MulMono
    <3>3. (Segs(m) - 1) * MC < z BY <2>3, SegsFacts
    <3>4. (Segs(m) - 1) * MC \in Nat BY SMT, <1>1, <3>1
    <3>5. last < z BY SMT, <1>1, <1>2, <3>2, <3>3, <3>4
    <3> HIDE DEF off, last
    <3> QED BY SMT, <1>1, <1>2, <2>3, <3>5
  <2> QED BY SMT, <1>1, <2>1, <2>2, <2>3
<1>4. Slice(m, i) = SubSeq(Body(m), last - MC + 1, end) BY DEF Slice, MC
<1>5. last - MC + 1 = off + 1 BY SMT, <1>1, <1>2
<1>6. end <= z /\ end \in Nat BY SMT, <1>1, <1>2
<1> HIDE DEF off, last, end, len, z
<1>7. \A x \in off + 1..end : Body(m)[x] \in Unit
  <2>1. \A x \in off + 1..end : x \in 1..z BY SMT, <1>1, <1>2, <1>6
  <2> QED BY <2>1, BodyFacts DEF z
<1>8. off + 1 \in Int /\ end \in Int BY SMT, <1>2, <1>6
<1> DEFINE s == SubSeq(Body(m), off + 1, end)
<1>9. /\ s \in Seq(Unit) /\ Len(s) = (IF off + 1 <= end THEN end - (off + 1) + 1 ELSE 0)
      /\ \A x \in 1..end - (off + 1) + 1 : s[x] = Body(m)[off + 1 + x - 1]
  BY SMT, <1>7, <1>8, SubSeqProperties
<1>10. end - (off + 1) + 1 = len /\ (off + 1 <= end <=> len > 0) BY SMT, <1>2, <1>3
<1>11. Len(s) = len /\ \A x \in 1..len : s[x] = Body(m)[off + x]
  <2>1. Len(s) = len BY SMT, <1>3, <1>9, <1>10
  <2>2. \A x \in 1..len : off + 1 + x - 1 = off + x BY SMT, <1>2, <1>3
  <2> QED BY <1>9, <1>10, <2>1, <2>2
<1>12. off + len <= z BY <1>3, <1>6
<1> QED BY <1>2, <1>3, <1>4, <1>5, <1>9, <1>11, <1>12 DEF off, len, z
-------------------------------------------------------------------------------
\* The segments of m that the sender's syncps reported as arrived
Arrived(m) == {i \in 1..Segs(m) : told[From[m]][Seg(m, i)] = "arrived"}

\* What ConfirmExact says of a message
CallOK(m) == \/ calls[m] = <<>>
             \/ calls[m] = <<TRUE>> /\ Outcome(m) = {"arrived"}
             \/ calls[m] = <<FALSE>> /\ "timeout" \in Outcome(m)

\* The sender's side of a message: its Publications are published together, a waiting
\* handler has not been called, nothing has timed out, and the bits set are of
\* segments that arrived, of all of them unless one is outside the bitmap.
ConfOK(m) ==
    LET h == has[From[m]]
        t == told[From[m]]
    IN  /\ Publications(m) \subseteq h \/ Publications(m) \cap h = {}
        /\ \A p \in Publications(m) : t[p] # "none" => p \in h
        /\ Publications(m) \cap h = {} => m_pending[m] = {}
        /\ m \in m_msgConfCb =>
              /\ Publications(m) \subseteq h /\ Size[m] > 0 /\ calls[m] = <<>>
              /\ \A p \in Publications(m) : t[p] # "timeout"
              /\ m_pending[m] \subseteq Arrived(m)
              /\ Segs(m) = 1 => t[Seg(m, 1)] = "none"
              /\ Segs(m) > 1 /\ Segs(m) < MaxSegs => /\ m_pending[m] = Arrived(m)
                                                     /\ Arrived(m) # 1..Segs(m)
        /\ m \in Confirmed /\ Size[m] > 0 /\ Publications(m) \subseteq h /\ m \notin m_msgConfCb
              => calls[m] # <<>>
        /\ CallOK(m)

\* Only messages that publish accepts are on their way.
Small == \A n \in Node : \A p \in has[n] : Segs(p.msgID) <= MaxSegs

\* The inductive invariant of the sending side
SendInv == TypeOK /\ calls \in [Msg -> Seq(BOOLEAN)] /\ Small /\ \A m \in Msg : ConfOK(m)

\* What an event of the service does to its state
Effect(n, new, got, arr, late) ==
    /\ \A k \in Node : has'[k] = IF k = n THEN has[n] \cup new \cup got ELSE has[k]
    /\ \A k \in Node, p \in Pub :
          told'[k][p] = IF k = n /\ p \in arr THEN "arrived"
                        ELSE IF k = n /\ p \in late THEN "timeout" ELSE told[k][p]
    /\ has' \in [Node -> SUBSET Pub]
    /\ told' \in [Node -> [Pub -> {"none", "arrived", "timeout"}]]
    /\ \A p \in new \cup got : p \in Pub
    /\ \A p \in got : \E k \in Node : p \in has[k]
    /\ \A p \in arr \cup late : told[n][p] = "none"

\* What the publish/subscribe service may do below the shim, field by field.
LEMMA EventEffect ==
    ASSUME TypeOK, NEW n \in Node, NEW new, NEW got, NEW arr, NEW late,
           Sync!Event(n, new, got, arr, late)
    PROVE  Effect(n, new, got, arr, late)
<1>1. has \in [Node -> SUBSET Pub] /\ told \in [Node -> [Pub -> {"none", "arrived", "timeout"}]]
  BY DEF TypeOK
<1> DEFINE tn == [p \in Pub |-> IF p \in arr THEN "arrived" ELSE IF p \in late THEN "timeout" ELSE told[n][p]]
<1>2. /\ has' = [has EXCEPT ![n] = has[n] \cup new \cup got]
      /\ told' = [told EXCEPT ![n] = tn]
      /\ \A p \in arr \cup late : told[n][p] = "none"
      /\ new \subseteq OwnPubs[n]
      /\ \A p \in got : \E k \in Node : p \in has[k]
  BY SMT, <1>1 DEF Sync!Event, Sync!Elsewhere
<1>3. new \subseteq Pub BY <1>2 DEF OwnPubs
<1>4. got \subseteq Pub BY <1>1, <1>2
<1>5. has' \in [Node -> SUBSET Pub] BY <1>1, <1>2, <1>3, <1>4
<1>6. tn \in [Pub -> {"none", "arrived", "timeout"}] BY <1>1
<1>7. told' \in [Node -> [Pub -> {"none", "arrived", "timeout"}]]
  <2> HIDE DEF tn
  <2> QED BY <1>1, <1>2, <1>6
<1>8. \A k \in Node : has'[k] = IF k = n THEN has[n] \cup new \cup got ELSE has[k] BY <1>1, <1>2
<1>9. \A k \in Node : told'[k] = IF k = n THEN tn ELSE told[k]
  <2> HIDE DEF tn
  <2> QED BY <1>1, <1>2
<1> QED BY <1>2, <1>3, <1>4, <1>5, <1>7, <1>8, <1>9 DEF Effect

\* A step that has nothing to do with a message.
LEMMA SameConf ==
    ASSUME NEW m \in Msg, ConfOK(m),
           \A p \in Publications(m) : /\ p \in has'[From[m]] <=> p \in has[From[m]]
                                      /\ told'[From[m]][p] = told[From[m]][p],
           calls'[m] = calls[m], m_pending'[m] = m_pending[m],
           m \in m_msgConfCb' <=> m \in m_msgConfCb
    PROVE  ConfOK(m)'
<1>0. Last(m) = Segs(m) \/ Size[m] = 0 BY DEF Last
<1>1. Size[m] > 0 => Arrived(m)' = Arrived(m) BY SMT, <1>0, PubsOf, SegsFacts DEF Arrived
<1>2. Outcome(m)' = Outcome(m) BY DEF Outcome
<1>3. Size[m] > 0 /\ Segs(m) = 1 => Seg(m, 1) \in Publications(m) BY SMT, <1>0, PubsOf, SegsFacts
<1> QED BY <1>1, <1>2, <1>3 DEF ConfOK, CallOK

\* What became of a Publication stays so.
LEMMA OutcomeStays ==
    ASSUME NEW m \in Msg, CallOK(m), calls'[m] = calls[m],
           \A p \in Publications(m) : told[From[m]][p] # "none" => told'[From[m]][p] = told[From[m]][p]
    PROVE  CallOK(m)'
<1>1. "timeout" \in Outcome(m) => "timeout" \in Outcome(m)' BY DEF Outcome
<1>2. Outcome(m) = {"arrived"} => Outcome(m)' = {"arrived"} BY SMT, PubsOf DEF Outcome
<1> QED BY <1>1, <1>2 DEF CallOK

\* publish
LEMMA PublishSend ==
    ASSUME SendInv, NEW m \in Msg, Publish(m)
    PROVE  SendInv'
<1> DEFINE n == From[m]
           P == Publications(m)
<1>1. n \in Node /\ P \subseteq Pub /\ P # {} /\ (\A p \in P : p.msgID = m) /\ P \cap has[n] = {}
  BY MsgAssumption, PubsOf DEF Publish
<1>2. Sync!Event(n, P, {}, {}, {}) /\ Segs(m) <= MaxSegs BY DEF Publish
<1>3. UNCHANGED <<m_pending, calls, threw, m_received>>
  BY DEF Publish, receiver
<1>4. m_msgConfCb' = m_msgConfCb \cup (IF Size[m] = 0 THEN {} ELSE {m} \cap Confirmed)
  BY DEF Publish
<1>5. /\ \A k \in Node : has'[k] = IF k = n THEN has[n] \cup P ELSE has[k]
      /\ \A k \in Node, p \in Pub : told'[k][p] = told[k][p]
      /\ has' \in [Node -> SUBSET Pub]
      /\ told' \in [Node -> [Pub -> {"none", "arrived", "timeout"}]]
  <2>1. TypeOK BY DEF SendInv
  <2> HIDE DEF n, P
  <2>2. Effect(n, P, {}, {}, {}) BY <1>1, <1>2, <2>1, EventEffect
  <2> QED BY <2>2 DEF Effect
<1>6. TypeOK' BY <1>3, <1>4, <1>5 DEF SendInv, TypeOK
<1>7. Small' BY <1>1, <1>2, <1>5 DEF SendInv, Small
<1>8. ASSUME NEW l \in Msg, l # m PROVE ConfOK(l)'
  <2>1. From[l] \in Node /\ Publications(l) \subseteq Pub /\ \A p \in Publications(l) : p.msgID = l
    BY MsgAssumption, PubsOf
  <2>2. \A p \in Publications(l) : /\ p \in has'[From[l]] <=> p \in has[From[l]]
                                   /\ told'[From[l]][p] = told[From[l]][p]
    BY SMT, <1>1, <1>5, <1>8, <2>1
  <2>3. l \in m_msgConfCb' <=> l \in m_msgConfCb BY <1>4, <1>8
  <2> QED BY <1>3, <2>2, <2>3, SameConf DEF SendInv
<1>9. ConfOK(m)'
  <2>1. ConfOK(m) BY DEF SendInv
  <2>2. \A p \in P : told[n][p] = "none" /\ told'[n][p] = "none" BY SMT, <1>1, <1>5, <2>1 DEF ConfOK
  <2>3. Outcome(m) = {"none"} BY <1>1, <2>2 DEF Outcome
  <2>4. calls[m] = <<>> BY <2>1, <2>3 DEF ConfOK, CallOK
  <2>5. m \notin m_msgConfCb /\ m_pending[m] = {} BY <1>1, <2>1 DEF ConfOK
  <2>6. P \subseteq has'[n] BY <1>1, <1>5
  <2>7. CallOK(m)' BY <1>3, <2>4 DEF CallOK
  <2>8. Size[m] \in Nat /\ Segs(m) \in Nat BY SegsFacts
  <2>9. ASSUME Size[m] > 0
        PROVE  /\ Arrived(m)' = {} /\ (Segs(m) > 1 => 1..Segs(m) # {})
               /\ told'[n][Seg(m, 1)] = "none"
    <3>1. Segs(m) >= 1 /\ Last(m) = Segs(m) BY SMT, <2>9, SegsFacts DEF Last
    <3>2. \A i \in 1..Segs(m) : Seg(m, i) \in P BY <3>1, PubsOf
    <3>3. 1 \in 1..Segs(m) BY SMT, <2>8, <3>1
    <3> QED BY <2>2, <3>2, <3>3 DEF Arrived
  <2>10. m \in m_msgConfCb' => Size[m] > 0 BY SMT, <1>4, <2>5, <2>8
  <2>11. m \in Confirmed /\ Size[m] > 0 => m \in m_msgConfCb' BY SMT, <1>4, <2>8
  <2> QED BY <1>1, <1>3, <2>2, <2>4, <2>5, <2>6, <2>7, <2>9, <2>10, <2>11 DEF ConfOK
<1> QED BY <1>3, <1>6, <1>7, <1>8, <1>9 DEF SendInv

\* receivePub, and syncps taking a Publication without the shim
LEMMA TakeSend ==
    ASSUME SendInv, NEW n \in Node, NEW p \in Pub, p \notin OwnPubs[n],
           Sync!Event(n, {}, {p}, {}, {}), UNCHANGED sender,
           m_received' \in [Node -> [Msg -> SUBSET Bits]]
    PROVE  SendInv'
<1>1. UNCHANGED <<m_msgConfCb, m_pending, calls, threw>> BY DEF sender
<1>2. /\ \A k \in Node : has'[k] = IF k = n THEN has[n] \cup {p} ELSE has[k]
      /\ \A k \in Node, q \in Pub : told'[k][q] = told[k][q]
      /\ has' \in [Node -> SUBSET Pub]
      /\ told' \in [Node -> [Pub -> {"none", "arrived", "timeout"}]]
      /\ \E k \in Node : p \in has[k]
  <2>1. TypeOK BY DEF SendInv
  <2>2. Effect(n, {}, {p}, {}, {}) BY <2>1, EventEffect
  <2> QED BY <2>2 DEF Effect
<1>3. TypeOK' BY <1>1, <1>2 DEF SendInv, TypeOK
<1>4. Segs(p.msgID) <= MaxSegs BY <1>2 DEF SendInv, Small
<1>5. Small' BY <1>2, <1>4 DEF SendInv, Small
<1>6. ASSUME NEW m \in Msg PROVE ConfOK(m)'
  <2>1. From[m] \in Node /\ Publications(m) \subseteq Pub /\ Publications(m) \subseteq OwnPubs[From[m]]
    BY MsgAssumption, PubsOf
  <2>2. \A q \in Publications(m) : /\ q \in has'[From[m]] <=> q \in has[From[m]]
                                   /\ told'[From[m]][q] = told[From[m]][q]
    <3> SUFFICES ASSUME NEW q \in Publications(m)
                 PROVE  (q \in has'[From[m]] <=> q \in has[From[m]]) /\ told'[From[m]][q] = told[From[m]][q]
      OBVIOUS
    <3>1. q \in Pub /\ q \in OwnPubs[From[m]] BY <2>1
    <3>2. q = p => From[m] # n BY <3>1
    <3> QED BY SMT, <1>2, <2>1, <3>1, <3>2
  <2> QED BY <1>1, <2>2, SameConf DEF SendInv
<1> QED BY <1>1, <1>3, <1>5, <1>6 DEF SendInv

\* The call of the handler, when the outcome it is called with is true.
LEMMA CallConf ==
    ASSUME SendInv, NEW m \in Msg, NEW success \in BOOLEAN, CallConfCb(m, success),
           Publications(m) \subseteq has'[From[m]],
           \A p \in Publications(m) :
              told[From[m]][p] # "none" => told'[From[m]][p] = told[From[m]][p],
           m \in m_msgConfCb => IF success THEN Outcome(m)' = {"arrived"} ELSE "timeout" \in Outcome(m)',
           Publications(m) \subseteq has[From[m]]
    PROVE  ConfOK(m)'
<1>1. ConfOK(m) /\ calls \in [Msg -> Seq(BOOLEAN)] /\ m_pending \in [Msg -> SUBSET (Bits \ {0})]
  BY DEF SendInv, TypeOK
<1>2. /\ m_pending'[m] = {} /\ m \notin m_msgConfCb'
      /\ calls'[m] = IF m \in m_msgConfCb THEN Append(calls[m], success) ELSE calls[m]
  BY <1>1 DEF CallConfCb
<1>3. CASE m \in m_msgConfCb
  <2>1. calls'[m] = <<success>> BY SMT, <1>1, <1>2, <1>3 DEF ConfOK
  <2>2. success => CallOK(m)' BY <1>3, <2>1 DEF CallOK
  <2>3. ~success => CallOK(m)' BY <1>3, <2>1 DEF CallOK
  <2>4. CallOK(m)' BY <2>2, <2>3
  <2>5. calls'[m] # <<>> BY SMT, <2>1
  <2> QED BY <1>2, <2>4, <2>5 DEF ConfOK
<1>4. CASE m \notin m_msgConfCb
  <2>1. CallOK(m)' BY <1>1, <1>2, <1>4, OutcomeStays DEF ConfOK
  <2> QED BY <1>1, <1>2, <1>4, <2>1 DEF ConfOK
<1> QED BY <1>3, <1>4

\* confirmPublication of a segment that arrived
LEMMA ConfirmSeg ==
    ASSUME SendInv, NEW m \in Msg, Segs(m) <= MaxSegs, NEW i \in 1..Last(m),
           ConfirmArrived(Seg(m, i)), Publications(m) \subseteq has[From[m]],
           Publications(m) \subseteq has'[From[m]],
           told[From[m]][Seg(m, i)] = "none", told'[From[m]][Seg(m, i)] = "arrived",
           \A p \in Publications(m) : p # Seg(m, i) => told'[From[m]][p] = told[From[m]][p]
    PROVE  ConfOK(m)'
<1> DEFINE p == Seg(m, i)
           t == told[From[m]]
           got == m_pending[m] \cup {i}
<1>0. /\ ConfOK(m) /\ Segs(m) \in Nat /\ Size[m] \in Nat /\ MaxSegs \in 1..255
      /\ (Size[m] = 0 <=> Segs(m) = 0) /\ (Size[m] > 0 => Last(m) = Segs(m))
  BY SMT, SegsFacts, SegAssumption DEF SendInv, Last
<1>1. /\ p.msgID = m /\ (Segs(m) <= 1 => p.sCnt = 0 /\ i = 1 /\ Last(m) = 1)
      /\ (Segs(m) > 1 => p.sCnt # 0 /\ SegNo(p) = i /\ SegOf(p) = Segs(m) /\ Last(m) = Segs(m))
  BY SegFacts
<1>2. \A q \in Publications(m) : t[q] # "none" => told'[From[m]][q] = t[q]
  OBVIOUS
<1>3. CASE Segs(m) <= 1
  <2>1. CallConfCb(m, TRUE) BY <1>1, <1>3 DEF ConfirmArrived
  <2>2. \A q \in Publications(m) : q = p BY SMT, <1>1, <1>3, PubsOf
  <2>3. Outcome(m)' = {"arrived"} BY SMT, <2>2, PubsOf DEF Outcome
  <2> QED BY <1>2, <2>1, <2>3, CallConf
<1>4. CASE Segs(m) > 1
  <2>0. p.sCnt # 0 /\ SegNo(p) = i /\ SegOf(p) = Segs(m) /\ Last(m) = Segs(m) /\ i \in 1..Segs(m)
    BY <1>1, <1>4
  <2>1. \A j \in 1..Segs(m) : Seg(m, j) \in Publications(m) /\ (Seg(m, j) = p => j = i)
    <3>1. \A j \in 1..Segs(m) : SegNo(Seg(m, j)) = j BY <1>4, <2>0, SegFacts
    <3> QED BY <2>0, <3>1, PubsOf
  <2>2. Arrived(m)' = Arrived(m) \cup {i} BY <2>0, <2>1 DEF Arrived
  <2>3. IsFiniteSet(1..Segs(m)) /\ Cardinality(1..Segs(m)) = Segs(m) BY SMT, <1>0, <1>4, FS_Interval
  <2>4. CASE SegNo(p) \in Bits /\ Cardinality(got) # Segs(m)
    <3>1. m_pending' = [m_pending EXCEPT ![m] = got] /\ UNCHANGED <<m_msgConfCb, calls, threw>>
      BY <1>1, <2>0, <2>4 DEF ConfirmArrived
    <3>2. m_pending'[m] = got BY <3>1 DEF SendInv, TypeOK
    <3>3. CallOK(m)' BY <1>0, <1>2, <3>1, OutcomeStays DEF ConfOK
    <3>4. m \in m_msgConfCb => /\ \A q \in Publications(m) : told'[From[m]][q] # "timeout"
                               /\ got \subseteq Arrived(m)'
      BY <1>0, <2>2 DEF ConfOK
    <3>5. m \in m_msgConfCb /\ Segs(m) < MaxSegs => got = Arrived(m)' BY <1>0, <1>4, <2>2 DEF ConfOK
    <3>6. got # 1..Segs(m) BY <2>3, <2>4
    <3>7. ~(Publications(m) \cap has'[From[m]] = {}) BY PubsOf
    <3> HIDE DEF got
    <3> QED BY SMT, <1>0, <1>4, <3>1, <3>2, <3>3, <3>4, <3>5, <3>6, <3>7 DEF ConfOK
  <2>5. CASE SegNo(p) \in Bits /\ Cardinality(got) = Segs(m)
    <3>1. CallConfCb(m, TRUE) BY <1>1, <2>0, <2>5 DEF ConfirmArrived
    <3>2. ASSUME m \in m_msgConfCb PROVE Outcome(m)' = {"arrived"}
      <4>1. got \subseteq Arrived(m)' /\ got \subseteq 1..Segs(m)
        BY <1>0, <2>0, <2>2, <3>2 DEF ConfOK, Arrived
      <4> HIDE DEF got
      <4> DEFINE all == 1..Segs(m)
      <4>0. IsFiniteSet(all) /\ got \in SUBSET all /\ Cardinality(got) = Cardinality(all)
        BY <2>3, <2>5, <4>1
      <4> HIDE DEF all
      <4>2. got = all BY <4>0, FS_Subset
      <4>3. \A j \in 1..Segs(m) : told'[From[m]][Seg(m, j)] = "arrived"
        BY <4>1, <4>2 DEF Arrived, all
      <4>4. \A q \in Publications(m) : told'[From[m]][q] = "arrived" BY SMT, <2>0, <4>3, PubsOf
      <4> QED BY SMT, <4>4, PubsOf DEF Outcome
    <3> QED BY <1>2, <3>1, <3>2, CallConf
  <2>6. CASE SegNo(p) \notin Bits
    <3>1. UNCHANGED <<m_msgConfCb, m_pending, calls>> BY <1>1, <2>0, <2>6 DEF ConfirmArrived
    <3>2. ~(Segs(m) < MaxSegs) BY SMT, <1>0, <2>0, <2>6 DEF Bits
    <3>3. CallOK(m)' BY <1>0, <1>2, <3>1, OutcomeStays DEF ConfOK
    <3>4. m \in m_msgConfCb => /\ \A q \in Publications(m) : told'[From[m]][q] # "timeout"
                               /\ m_pending[m] \subseteq Arrived(m)'
      BY <1>0, <2>2 DEF ConfOK
    <3>5. ~(Publications(m) \cap has'[From[m]] = {}) BY PubsOf
    <3> QED BY SMT, <1>0, <1>4, <3>1, <3>2, <3>3, <3>4, <3>5 DEF ConfOK
  <2> QED BY <2>4, <2>5, <2>6
<1> QED BY SMT, <1>0, <1>3, <1>4

\* confirmPublication
LEMMA ConfirmSend ==
    ASSUME SendInv, NEW p \in Pub, NEW success \in BOOLEAN, ConfirmPublication(p, success)
    PROVE  SendInv'
<1> DEFINE m == p.msgID
           n == From[m]
           arr == IF success THEN {p} ELSE {}
           late == IF success THEN {} ELSE {p}
<1>1. PICK i \in 1..Last(m) : p = Seg(m, i) BY PubIsSeg
<1>2. m \in Msg /\ n \in Node /\ p \in Publications(m) /\ Publications(m) \subseteq Pub
  BY MsgAssumption, PubIsSeg, PubsOf
<1>3. /\ n \notin threw /\ m \in Confirmed /\ p \in has[n]
      /\ Sync!Event(n, {}, {}, arr, late)
      /\ success => ConfirmArrived(p)
      /\ ~success => CallConfCb(m, FALSE)
      /\ UNCHANGED m_received
  BY DEF ConfirmPublication, receiver
<1>4. /\ \A k \in Node : has'[k] = has[k]
      /\ \A k \in Node, q \in Pub : ~(k = n /\ q = p) => told'[k][q] = told[k][q]
      /\ told[n][p] = "none" /\ (success => told'[n][p] = "arrived")
      /\ (~success => told'[n][p] = "timeout")
      /\ has' \in [Node -> SUBSET Pub]
      /\ told' \in [Node -> [Pub -> {"none", "arrived", "timeout"}]]
  <2>1. TypeOK BY DEF SendInv
  <2> HIDE DEF n, arr, late
  <2>2. Effect(n, {}, {}, arr, late) BY <1>2, <1>3, <2>1, EventEffect
  <2> QED BY <1>2, <2>2 DEF Effect, arr, late
<1>5. Segs(m) <= MaxSegs BY <1>2, <1>3 DEF SendInv, Small
<1>6. Publications(m) \subseteq has[n] BY <1>2, <1>3 DEF SendInv, ConfOK
<1> DEFINE Frame ==
             /\ \A l \in Msg : l # m => /\ calls'[l] = calls[l] /\ m_pending'[l] = m_pending[l]
                                        /\ (l \in m_msgConfCb' <=> l \in m_msgConfCb)
             /\ calls' \in [Msg -> Seq(BOOLEAN)] /\ m_msgConfCb' \subseteq Confirmed
             /\ threw' \subseteq Node /\ m_pending' \in [Msg -> SUBSET (Bits \ {0})]
<1>7. Frame
  <2>0. /\ calls \in [Msg -> Seq(BOOLEAN)] /\ m_msgConfCb \subseteq Confirmed /\ threw \subseteq Node
        /\ m_pending \in [Msg -> SUBSET (Bits \ {0})]
    BY DEF SendInv, TypeOK
  <2> HIDE DEF m
  <2>1. ASSUME CallConfCb(m, success) PROVE Frame
    BY SMT, <1>2, <2>0, <2>1 DEF CallConfCb
  <2>2. CASE success /\ p.sCnt # 0 /\ SegNo(p) \in Bits /\ Cardinality(m_pending[m] \cup {SegNo(p)}) # SegOf(p)
    <3>1. m_pending' = [m_pending EXCEPT ![m] = m_pending[m] \cup {SegNo(p)}]
          /\ UNCHANGED <<m_msgConfCb, calls, threw>>
      BY <1>3, <2>2 DEF ConfirmArrived, m
    <3>2. SegNo(p) # 0
      <4>1. Segs(m) <= 1 => p.sCnt = 0 BY <1>1, <1>2, <1>5, SegFacts
      <4>2. Segs(m) > 1 => SegNo(p) = i BY <1>1, <1>2, <1>5, SegFacts
      <4>3. Segs(m) \in Nat BY <1>2, SegsFacts
      <4> QED BY SMT, <2>2, <4>1, <4>2, <4>3
    <3> QED BY <1>2, <2>0, <2>2, <3>1, <3>2
  <2>3. CASE success /\ p.sCnt # 0 /\ SegNo(p) \notin Bits
    <3>1. threw' = threw \cup {n} /\ UNCHANGED <<m_msgConfCb, m_pending, calls>>
      BY <1>3, <2>3 DEF ConfirmArrived, m
    <3> QED BY <1>2, <2>0, <3>1
  <2>4. success => CallConfCb(m, TRUE) \/ (p.sCnt # 0 /\ (SegNo(p) \notin Bits
                   \/ Cardinality(m_pending[m] \cup {SegNo(p)}) # SegOf(p)))
    BY <1>3 DEF ConfirmArrived, m
  <2>5. CASE ~success BY <1>3, <2>1, <2>5
  <2>6. CASE success /\ CallConfCb(m, TRUE) BY <2>1, <2>6
  <2> QED BY <2>2, <2>3, <2>4, <2>5, <2>6
<1>8. TypeOK' BY <1>3, <1>4, <1>7 DEF SendInv, TypeOK
<1>9. Small' BY <1>4 DEF SendInv, Small
<1>10. ASSUME NEW l \in Msg, l # m PROVE ConfOK(l)'
  <2>1. From[l] \in Node /\ Publications(l) \subseteq Pub /\ \A q \in Publications(l) : q.msgID = l
    BY MsgAssumption, PubsOf
  <2>2. \A q \in Publications(l) : /\ q \in has'[From[l]] <=> q \in has[From[l]]
                                   /\ told'[From[l]][q] = told[From[l]][q]
    BY <1>4, <1>10, <2>1
  <2> QED BY <1>7, <1>10, <2>2, SameConf DEF SendInv
<1>11. ConfOK(m)'
  <2>1. \A q \in Publications(m) : q # p => told'[n][q] = told[n][q] BY <1>2, <1>4
  <2>2. Publications(m) \subseteq has'[n] BY <1>2, <1>4, <1>6
  <2>3. CASE success
    <3> HIDE DEF m
    <3>1. ConfirmArrived(Seg(m, i)) /\ told[From[m]][Seg(m, i)] = "none"
          /\ told'[From[m]][Seg(m, i)] = "arrived"
      BY <1>1, <1>3, <1>4, <2>3
    <3>2. \A q \in Publications(m) : q # Seg(m, i) => told'[From[m]][q] = told[From[m]][q]
      BY <1>1, <2>1
    <3> QED BY <1>2, <1>5, <1>6, <2>2, <3>1, <3>2, ConfirmSeg
  <2>4. CASE ~success
    <3>1. "timeout" \in Outcome(m)' BY <1>2, <1>4, <2>4 DEF Outcome
    <3>2. \A q \in Publications(m) : told[n][q] # "none" => told'[n][q] = told[n][q] BY <1>4, <2>1
    <3> HIDE DEF m
    <3>3. CallConfCb(m, FALSE) BY <1>3, <2>4
    <3> QED BY <1>2, <1>6, <2>2, <3>1, <3>2, <3>3, CallConf
  <2> QED BY <2>3, <2>4
<1> QED BY <1>7, <1>8, <1>9, <1>10, <1>11 DEF SendInv

\* No segment's bit is outside the bitmap of receivePub.
LEMMA ReceivedType ==
    ASSUME SendInv, NEW n \in Node, NEW p \in Pub, ReceivePub(n, p)
    PROVE  m_received' \in [Node -> [Msg -> SUBSET Bits]]
<1>1. m_received \in [Node -> [Msg -> SUBSET Bits]] BY DEF SendInv, TypeOK
<1>2. p.msgID \in Msg BY PubIsSeg
<1> DEFINE k == SegNo(p)
           got == m_received[n][p.msgID] \cup {k - 1}
<1>3. \/ UNCHANGED m_received
      \/ /\ k \in 1..SegOf(p) /\ SegOf(p) <= MaxSegs
         /\ \/ m_received' = [m_received EXCEPT ![n][p.msgID] = got]
            \/ m_received' = [m_received EXCEPT ![n][p.msgID] = {}]
  BY DEF ReceivePub
<1>4. CASE UNCHANGED m_received BY <1>1, <1>4
<1>5. CASE /\ k \in 1..SegOf(p) /\ SegOf(p) <= MaxSegs
           /\ \/ m_received' = [m_received EXCEPT ![n][p.msgID] = got]
              \/ m_received' = [m_received EXCEPT ![n][p.msgID] = {}]
  <2>1. k \in Int /\ k >= 1 /\ k <= MaxSegs /\ MaxSegs \in Int
    <3>1. p.sCnt \in Nat
      <4>1. PICK i \in 1..Last(p.msgID) : p = Seg(p.msgID, i) BY PubIsSeg
      <4>2. i \in Nat /\ Segs(p.msgID) \in Nat BY SMT, <1>2, SegsFacts
      <4>3. SCnt(p.msgID, i) \in Nat BY SMT, <4>2 DEF SCnt
      <4> QED BY SMT, <4>1, <4>3 DEF Seg
    <3>2. SegOf(p) \in Nat BY SMT, <3>1 DEF SegOf
    <3> HIDE DEF k
    <3> QED BY SMT, <1>5, <3>2, SegAssumption
  <2>2. k - 1 \in Bits
    <3> HIDE DEF k
    <3> QED BY SMT, <2>1 DEF Bits
  <2>3. got \in SUBSET Bits BY <1>1, <1>2, <2>2
  <2> HIDE DEF got, k
  <2> QED BY SMT, <1>1, <1>2, <1>5, <2>3
<1> QED BY <1>3, <1>4, <1>5

\* Before any message is published.
LEMMA InitSend == Init => SendInv
<1> SUFFICES ASSUME Init PROVE SendInv
  OBVIOUS
<1>1. /\ has = [n \in Node |-> {}] /\ told = [n \in Node |-> [p \in Pub |-> "none"]]
      /\ m_msgConfCb = {} /\ m_pending = [m \in Msg |-> {}] /\ threw = {}
      /\ m_received = [n \in Node |-> [m \in Msg |-> {}]] /\ calls = [m \in Msg |-> <<>>]
  BY DEF Init, Sync!Init
<1>2. TypeOK /\ calls \in [Msg -> Seq(BOOLEAN)] /\ Small BY SMT, <1>1 DEF TypeOK, Small
<1>3. ASSUME NEW m \in Msg PROVE ConfOK(m)
  <2>1. From[m] \in Node /\ Publications(m) \subseteq Pub /\ Publications(m) # {}
    BY MsgAssumption, PubsOf
  <2>2. has[From[m]] = {} /\ \A p \in Publications(m) : told[From[m]][p] = "none" BY <1>1, <2>1
  <2>3. m_pending[m] = {} /\ calls[m] = <<>> /\ m \notin m_msgConfCb BY <1>1
  <2> QED BY <2>1, <2>2, <2>3 DEF ConfOK, CallOK
<1> QED BY <1>2, <1>3 DEF SendInv

\* Each event of publisher and receiver keeps the sender's invariant (publish,
\* confirmPublication, receivePub).
LEMMA NextSend == SendInv /\ [Next]_vars => SendInv'
<1> SUFFICES ASSUME SendInv, [Next]_vars PROVE SendInv'
  OBVIOUS
<1>1. ASSUME NEW m \in Msg, Publish(m) PROVE SendInv'
  BY <1>1, PublishSend
<1>2. ASSUME NEW p \in Pub, NEW success \in BOOLEAN, ConfirmPublication(p, success) PROVE SendInv'
  BY <1>2, ConfirmSend
<1>3. ASSUME NEW n \in Node, NEW p \in Pub, ReceivePub(n, p) PROVE SendInv'
  <2>1. p \notin OwnPubs[n] /\ Sync!Event(n, {}, {p}, {}, {}) /\ UNCHANGED sender
    BY <1>3 DEF ReceivePub
  <2>2. m_received' \in [Node -> [Msg -> SUBSET Bits]] BY <1>3, ReceivedType
  <2> QED BY <2>1, <2>2, TakeSend
<1>4. ASSUME NEW n \in Node, NEW p \in Pub, Miss(n, p) PROVE SendInv'
  <2>1. p \notin OwnPubs[n] /\ Sync!Event(n, {}, {p}, {}, {}) /\ UNCHANGED <<sender, receiver>>
    BY <1>4 DEF Miss
  <2>2. m_received' \in [Node -> [Msg -> SUBSET Bits]] BY <2>1 DEF receiver, SendInv, TypeOK
  <2> QED BY <2>1, <2>2, TakeSend
<1>5. CASE UNCHANGED vars
  <2>1. UNCHANGED <<has, told, m_msgConfCb, m_pending, m_received, threw, calls>> BY <1>5 DEF vars
  <2>2. TypeOK' /\ Small' /\ calls' \in [Msg -> Seq(BOOLEAN)] BY <2>1 DEF SendInv, TypeOK, Small
  <2>3. \A m \in Msg : ConfOK(m)' BY <2>1, SameConf DEF SendInv
  <2> QED BY <2>2, <2>3 DEF SendInv
<1> QED BY <1>1, <1>2, <1>3, <1>4, <1>5 DEF Next

\* mbps.hpp: the bits that confirmPublication and receivePub set are inside the
\* bitmaps of MsgInfo, for any messages, segment size and number of segments.
THEOREM BitsInside == Spec => []TypeOK
<1>1. SendInv => TypeOK BY DEF SendInv
<1> QED BY <1>1, InitSend, NextSend, PTL DEF Spec

\* confirmPublication calls the handler of a message at most once, with 'true' only
\* if all of its segments arrived and with 'false' only if one timed out.
THEOREM ConfirmsExactly == Spec => []ConfirmExact
<1>1. SendInv => ConfirmExact BY DEF SendInv, ConfOK, CallOK, ConfirmExact
<1> QED BY <1>1, InitSend, NextSend, PTL DEF Spec

\* confirmPublication calls the handler of each message, neither empty nor of the largest
\* size, whose segments have all arrived or of which one has timed out.
THEOREM ConfirmsAlways == Spec => []ConfirmCalledInside
<1>1. SendInv => ConfirmCalledInside
  <2> SUFFICES ASSUME SendInv, NEW m \in Confirmed, Segs(m) \in 1..(MaxSegs - 1),
                      Outcome(m) = {"arrived"} \/ "timeout" \in Outcome(m)
               PROVE  calls[m] # <<>>
    BY DEF ConfirmCalledInside, Called
  <2>1. m \in Msg /\ ConfOK(m) BY MsgAssumption DEF SendInv
  <2>2. Segs(m) \in Nat /\ Segs(m) >= 1 /\ Segs(m) < MaxSegs BY SMT, SegAssumption
  <2>3. Size[m] > 0 /\ Last(m) = Segs(m) BY SMT, <2>1, <2>2, SegsFacts DEF Last
  <2>4. \E p \in Publications(m) : told[From[m]][p] # "none" BY DEF Outcome
  <2>5. Publications(m) \subseteq has[From[m]] BY <2>1, <2>4 DEF ConfOK
  <2>6. m \notin m_msgConfCb
    <3> SUFFICES ASSUME m \in m_msgConfCb PROVE FALSE
      BY SMT
    <3>1. "timeout" \notin Outcome(m) BY <2>1 DEF ConfOK, Outcome
    <3>2. \A i \in 1..Segs(m) : told[From[m]][Seg(m, i)] = "arrived"
      <4>1. \A p \in Publications(m) : told[From[m]][p] = "arrived" BY <3>1 DEF Outcome
      <4>2. \A i \in 1..Last(m) : Seg(m, i) \in Publications(m) BY <2>1, PubsOf
      <4> QED BY <2>3, <4>1, <4>2
    <3>3. Arrived(m) = 1..Segs(m) BY <3>2 DEF Arrived
    <3>4. 1 \in 1..Segs(m) BY SMT, <2>2
    <3> QED BY SMT, <2>1, <2>2, <3>2, <3>3, <3>4 DEF ConfOK
  <2> QED BY <2>1, <2>3, <2>5, <2>6 DEF ConfOK
<1> QED BY <1>1, InitSend, NextSend, PTL DEF Spec
-------------------------------------------------------------------------------
\* The length of the i-th segment and where it begins
SliceLen(m, i) == IF i < Last(m) THEN MC ELSE Size[m] - (i - 1) * MC

\* The segments of m that were given to receivePub of n
HeardOf(n, m) == {i \in 1..Segs(m) : Seg(m, i) \in heard[n]}

\* The buffer of a message holds the segments of the set H: it has its final size once the
\* last segment is there, and the size of as many full segments before that.
Holds(buf, m, H) ==
    /\ Len(buf) = IF Segs(m) \in H THEN Size[m] ELSE Segs(m) * MC
    /\ \A j \in H : \A x \in 1..SliceLen(m, j) : buf[(j - 1) * MC + x] = Body(m)[(j - 1) * MC + x]

\* The receiver's side of a message
RecvOK(n, m) ==
    LET all == Publications(m) \subseteq heard[n]
        H == HeardOf(n, m)
    IN  /\ delivered[n][m] = IF all THEN <<Body(m)>> ELSE <<>>
        /\ m_received[n][m] = IF all THEN {} ELSE {i - 1 : i \in H}
        /\ all \/ H = {} => m_reassemble[n][m] = <<>>
        /\ ~all /\ H # {} => Holds(m_reassemble[n][m], m, H)

\* The inductive invariant of the receiving side
RecvInv ==
    /\ heard \in [Node -> SUBSET Pub]
    /\ m_reassemble \in [Node -> [Msg -> Seq(Unit)]]
    /\ delivered \in [Node -> [Msg -> Seq(Seq(Unit))]]
    /\ \A n \in Node : heard[n] \subseteq has[n]
    /\ \A n \in Node, m \in Msg : RecvOK(n, m)

\* std::vector::resize
LEMMA ResizeFacts ==
    ASSUME NEW v \in Seq(Unit), NEW len \in Nat
    PROVE  /\ Resize(v, len) \in Seq(Unit) /\ Len(Resize(v, len)) = len
           /\ \A x \in 1..len : x <= Len(v) => Resize(v, len)[x] = v[x]
<1>1. Len(v) \in Nat /\ \A x \in 1..Len(v) : v[x] \in Unit BY SMT
<1>2. 0 \in Unit BY DEF Unit
<1>3. \A x \in 1..len : x <= Len(v) => x \in 1..Len(v) BY SMT, <1>1
<1>4. Resize(v, len) \in [1..len -> Unit] BY <1>1, <1>2, <1>3 DEF Resize
<1>5. \A x \in 1..len : x <= Len(v) => Resize(v, len)[x] = v[x] BY DEF Resize
<1> QED BY <1>4, <1>5, FunSeq

\* What becomes of the buffer v when segment k of c, of length clen, is put into it as
\* the buffer d
PutInto(d, v, k, c, content, clen) ==
    LET off == (k - 1) * MC
        len == IF k = c THEN off + clen ELSE IF Len(v) = 0 THEN c * MC ELSE Len(v)
    IN  /\ d \in Seq(Unit) /\ Len(d) = len
        /\ \A y \in 1..clen : off + y <= len => d[off + y] = content[y]
        /\ \A x \in 1..len : x <= Len(v) /\ x - off \notin 1..clen => d[x] = v[x]

\* A segment is put into the buffer, which is sized for it, and changes nothing else.
LEMMA ReassembleFacts ==
    ASSUME NEW v \in Seq(Unit), NEW k \in Nat, NEW c \in Nat, k >= 1, k <= c, NEW content \in Seq(Unit)
    PROVE  PutInto(Reassemble(v, k, c, content), v, k, c, content, Len(content))
<1> DEFINE d == Reassemble(v, k, c, content)
           off == (k - 1) * MC
           len == IF k = c THEN off + Len(content) ELSE IF Len(v) = 0 THEN c * MC ELSE Len(v)
           sized == IF k = c THEN Resize(v, (c - 1) * MC + Len(content))
                    ELSE IF Len(v) = 0 THEN Resize(v, c * MC) ELSE v
<1>1. MC \in Nat \ {0} /\ Len(v) \in Nat /\ Len(content) \in Nat BY SMT, SegAssumption DEF MC
<1>2. off \in Nat /\ c * MC \in Nat BY SMT, <1>1
<1>3. len \in Nat BY SMT, <1>1, <1>2
<1>4. /\ sized \in Seq(Unit) /\ Len(sized) = len
      /\ \A x \in 1..len : x <= Len(v) => sized[x] = v[x]
  <2>1. CASE k = c
    <3>1. (c - 1) * MC + Len(content) = len /\ sized = Resize(v, len) BY <2>1
    <3> HIDE DEF len, sized
    <3> QED BY <1>3, <3>1, ResizeFacts
  <2>2. CASE k # c /\ Len(v) = 0
    <3>1. c * MC = len /\ sized = Resize(v, len) BY <2>2
    <3> HIDE DEF len, sized
    <3> QED BY <1>3, <3>1, ResizeFacts
  <2>3. CASE k # c /\ Len(v) # 0 BY <2>3
  <2> QED BY <2>1, <2>2, <2>3
<1>5. d = [x \in 1..Len(sized) |-> IF x - off \in 1..Len(content) THEN content[x - off] ELSE sized[x]]
  BY DEF Reassemble, MC
<1> HIDE DEF d, sized, off, len
<1>6. d = [x \in 1..len |-> IF x - off \in 1..Len(content) THEN content[x - off] ELSE sized[x]]
  BY <1>4, <1>5
<1>7. \A x \in 1..len : sized[x] \in Unit BY SMT, <1>3, <1>4
<1>8. \A y \in 1..Len(content) : content[y] \in Unit BY SMT
<1>9. d \in [1..len -> Unit] BY <1>6, <1>7, <1>8
<1>10. d \in Seq(Unit) /\ Len(d) = len BY <1>3, <1>9, FunSeq
<1>11. \A y \in 1..Len(content) : off + y <= len => d[off + y] = content[y]
  <2> SUFFICES ASSUME NEW y \in 1..Len(content), off + y <= len PROVE d[off + y] = content[y]
    OBVIOUS
  <2> DEFINE x == off + y
  <2>1. x \in 1..len /\ x - off = y BY SMT, <1>1, <1>2, <1>3
  <2> HIDE DEF x
  <2>2. d[x] = content[y] BY <1>6, <2>1
  <2> QED BY <2>2 DEF x
<1>12. \A x \in 1..len : x <= Len(v) /\ x - off \notin 1..Len(content) => d[x] = v[x]
  BY <1>4, <1>6
<1> QED BY <1>10, <1>11, <1>12 DEF d, off, len, PutInto

\* Facts on the sizes of a message of more than one segment
LEMMA Sizes ==
    ASSUME NEW m \in Msg, Segs(m) > 1
    PROVE  /\ Last(m) = Segs(m) /\ Segs(m) \in Nat /\ MC \in Nat \ {0} /\ Size[m] \in Nat /\ Size[m] > 0
           /\ Segs(m) * MC \in Nat /\ Size[m] <= Segs(m) * MC
           /\ \A i \in 1..Segs(m) : /\ (i - 1) * MC \in Nat /\ SliceLen(m, i) \in 1..MC
                                    /\ (i - 1) * MC + SliceLen(m, i) <= Size[m]
                                    /\ i * MC = (i - 1) * MC + MC
           /\ (Segs(m) - 1) * MC + SliceLen(m, Segs(m)) = Size[m]
<1>1. /\ Segs(m) \in Nat /\ MC \in Nat \ {0} /\ Size[m] \in Nat /\ (Size[m] = 0 => Segs(m) = 0)
  BY SegsFacts
<1>2. Size[m] > 0 BY SMT, <1>1
<1>3. Last(m) = Segs(m) BY SMT, <1>2, <1>1 DEF Last
<1>4. (Segs(m) - 1) * MC < Size[m] /\ Size[m] <= Segs(m) * MC BY <1>2, SegsFacts
<1>5. Segs(m) * MC \in Nat /\ (Segs(m) - 1) * MC \in Nat /\ Segs(m) * MC = (Segs(m) - 1) * MC + MC
  BY SMT, <1>1
<1>6. ASSUME NEW i \in 1..Segs(m)
      PROVE  /\ (i - 1) * MC \in Nat /\ SliceLen(m, i) \in 1..MC
             /\ (i - 1) * MC + SliceLen(m, i) <= Size[m]
             /\ i * MC = (i - 1) * MC + MC
  <2>1. i \in Nat /\ i - 1 \in Nat /\ (i - 1) * MC \in Nat /\ i * MC = (i - 1) * MC + MC BY SMT, <1>1
  <2>2. SliceLen(m, i) \in Nat /\ SliceLen(m, i) > 0 /\ (i - 1) * MC + SliceLen(m, i) <= Size[m]
    BY <1>2, <1>3, SliceFacts DEF SliceLen
  <2>3. SliceLen(m, i) <= MC
    <3>1. CASE i < Segs(m) BY SMT, <1>1, <1>3, <3>1 DEF SliceLen
    <3>2. CASE i = Segs(m)
      <4>1. SliceLen(m, i) = Size[m] - (Segs(m) - 1) * MC BY SMT, <1>1, <1>3, <3>2 DEF SliceLen
      <4> QED BY SMT, <1>1, <1>4, <1>5, <4>1
    <3> QED BY SMT, <1>1, <3>1, <3>2
  <2> QED BY SMT, <1>1, <2>1, <2>2, <2>3
<1>7. (Segs(m) - 1) * MC + SliceLen(m, Segs(m)) = Size[m]
  <2>1. SliceLen(m, Segs(m)) = Size[m] - (Segs(m) - 1) * MC BY SMT, <1>1, <1>3 DEF SliceLen
  <2> QED BY SMT, <1>1, <1>5, <2>1
<1> QED BY <1>1, <1>2, <1>3, <1>4, <1>5, <1>6, <1>7

\* A buffer that holds all of the segments is the body.
LEMMA WholeBody ==
    ASSUME NEW m \in Msg, Segs(m) > 1, NEW buf \in Seq(Unit), Holds(buf, m, 1..Segs(m))
    PROVE  buf = Body(m)
<1> DEFINE z == Size[m]
           S == Segs(m)
<1>1. /\ Last(m) = S /\ S \in Nat /\ MC \in Nat \ {0} /\ z \in Nat /\ z > 0 /\ z <= S * MC
      /\ S * MC \in Nat
  BY Sizes
<1>2. S \in 1..S BY SMT, <1>1
<1>3. Len(buf) = z BY <1>2 DEF Holds
<1>4. ASSUME NEW x \in 1..z PROVE buf[x] = Body(m)[x]
  <2> DEFINE q == (x - 1) \div MC
             j == q + 1
             y == x - q * MC
  <2>1. x \in Nat /\ x >= 1 /\ x <= z /\ x - 1 \in Nat BY SMT, <1>1
  <2>2. q \in Nat /\ q * MC <= x - 1 /\ x - 1 < q * MC + MC BY <1>1, <2>1, DivFacts
  <2>3. q * MC \in Nat BY SMT, <1>1, <2>2
  <2> HIDE DEF q
  <2>4. q < S
    <3> SUFFICES ASSUME S <= q PROVE FALSE
      BY SMT, <1>1, <2>2
    <3>1. S * MC <= q * MC BY <1>1, <2>2, MulMono
    <3> HIDE DEF S, z
    <3> QED BY SMT, <1>1, <2>1, <2>2, <2>3, <3>1
  <2>5. j \in 1..S /\ j - 1 = q BY SMT, <1>1, <2>2, <2>4
  <2>6. y \in Nat /\ y >= 1 /\ y <= MC /\ q * MC + y = x BY SMT, <1>1, <2>1, <2>2, <2>3
  <2>7. y \in 1..SliceLen(m, j)
    <3>1. CASE j < S
      <4>1. SliceLen(m, j) = MC BY <1>1, <3>1 DEF SliceLen
      <4> HIDE DEF y
      <4> QED BY SMT, <1>1, <2>6, <4>1
    <3>2. CASE j = S
      <4>1. SliceLen(m, j) = z - q * MC BY SMT, <1>1, <2>5, <3>2 DEF SliceLen
      <4> HIDE DEF y, z
      <4> QED BY SMT, <1>1, <2>1, <2>3, <2>6, <4>1
    <3> QED BY SMT, <1>1, <2>5, <3>1, <3>2
  <2> HIDE DEF j, y
  <2>8. buf[(j - 1) * MC + y] = Body(m)[(j - 1) * MC + y] BY <2>5, <2>7 DEF Holds
  <2> QED BY <2>5, <2>6, <2>8
<1>5. Len(Body(m)) = z /\ Body(m) \in Seq(Unit) BY BodyFacts
<1> DEFINE b == Body(m)
<1>6. b \in Seq(Unit) /\ Len(b) = z /\ \A x \in 1..z : buf[x] = b[x] BY <1>4, <1>5
<1> HIDE DEF z, b
<1>7. buf = b BY <1>3, <1>6, SeqEqual
<1> QED BY <1>7 DEF b

\* receivePub puts a segment into the buffer of its message.
LEMMA OneMore ==
    ASSUME NEW m \in Msg, Segs(m) > 1, NEW i \in 1..Segs(m), NEW H \in SUBSET (1..Segs(m)), i \notin H,
           NEW buf \in Seq(Unit), H = {} => buf = <<>>, H # {} => Holds(buf, m, H)
    PROVE  LET d == Reassemble(buf, i, Segs(m), Slice(m, i))
           IN  d \in Seq(Unit) /\ Holds(d, m, H \cup {i})
<1> DEFINE z == Size[m]
           S == Segs(m)
           d == Reassemble(buf, i, S, Slice(m, i))
           off == (i - 1) * MC
           len == IF i = S THEN off + SliceLen(m, i) ELSE IF Len(buf) = 0 THEN S * MC ELSE Len(buf)
<1>1. /\ Last(m) = S /\ S \in Nat /\ MC \in Nat \ {0} /\ z \in Nat /\ z > 0 /\ z <= S * MC
      /\ S * MC \in Nat
      /\ \A j \in 1..S : /\ (j - 1) * MC \in Nat /\ SliceLen(m, j) \in 1..MC
                         /\ (j - 1) * MC + SliceLen(m, j) <= z
                         /\ j * MC = (j - 1) * MC + MC
      /\ (S - 1) * MC + SliceLen(m, S) = z
  BY Sizes
<1>2. Slice(m, i) \in Seq(Unit) /\ Len(Slice(m, i)) = SliceLen(m, i)
      /\ \A x \in 1..SliceLen(m, i) : Slice(m, i)[x] = Body(m)[off + x]
  BY SMT, <1>1, SliceFacts DEF SliceLen
<1>3. i \in Nat /\ i >= 1 /\ i <= S BY SMT, <1>1
<1>4. /\ d \in Seq(Unit) /\ Len(d) = len
      /\ \A y \in 1..SliceLen(m, i) : off + y <= len => d[off + y] = Slice(m, i)[y]
      /\ \A x \in 1..len : x <= Len(buf) /\ x - off \notin 1..SliceLen(m, i) => d[x] = buf[x]
  <2>1. S \in Nat BY <1>1
  <2> HIDE DEF S
  <2>2. PutInto(d, buf, i, S, Slice(m, i), Len(Slice(m, i))) BY <1>2, <1>3, <2>1, ReassembleFacts
  <2>3. PutInto(d, buf, i, S, Slice(m, i), SliceLen(m, i)) BY <1>2, <2>2
  <2> HIDE DEF d
  <2> QED BY <2>3 DEF PutInto
<1>5. H # {} => Len(buf) = IF S \in H THEN z ELSE S * MC BY DEF Holds
<1>6. H = {} => Len(buf) = 0 BY SMT
<1>7. len = IF S \in H \cup {i} THEN z ELSE S * MC
  <2>1. CASE i = S BY <1>1, <2>1
  <2>2. CASE i # S /\ H = {} BY <1>6, <2>2
  <2>3. CASE i # S /\ H # {}
    <3>1. Len(buf) # 0 BY SMT, <1>1, <1>5, <2>3
    <3>2. len = Len(buf) BY <2>3, <3>1
    <3> HIDE DEF len, S, z
    <3> QED BY <1>5, <2>3, <3>2
  <2> QED BY <2>1, <2>2, <2>3
<1>8. Len(buf) \in Nat BY SMT
<1>9. z <= len /\ len \in Nat BY <1>1, <1>7
<1>10. H # {} => z <= Len(buf) BY <1>1, <1>5
<1> HIDE DEF len
<1>11. ASSUME NEW j \in H \cup {i}, NEW x \in 1..SliceLen(m, j)
       PROVE  d[(j - 1) * MC + x] = Body(m)[(j - 1) * MC + x]
  <2> DEFINE o == (j - 1) * MC
  <2>1. /\ j \in 1..S /\ j \in Nat /\ o \in Nat /\ SliceLen(m, j) \in 1..MC /\ o + SliceLen(m, j) <= z
        /\ j * MC = o + MC
    BY SMT, <1>1
  <2>2. x \in Nat /\ x >= 1 /\ x <= SliceLen(m, j) /\ SliceLen(m, j) \in Nat BY SMT, <2>1
  <2>3. o + x \in Nat /\ o + x >= 1 /\ o + x <= z /\ o + x <= len
    <3>1. z \in Nat BY <1>1
    <3>2. o \in Nat /\ o + SliceLen(m, j) <= z BY <2>1
    <3> HIDE DEF o, z
    <3> QED BY SMT, <1>9, <2>2, <3>1, <3>2
  <2>4. CASE j = i BY <1>2, <1>4, <2>3, <2>4
  <2>5. CASE j # i
    <3>1. j \in H /\ H # {} BY <2>5
    <3>2. off \in Nat /\ SliceLen(m, i) \in 1..MC /\ i * MC = off + MC BY <1>1
    <3>3. (o + x) - off \notin 1..SliceLen(m, i)
      <4>1. CASE j < i
        <5>1. j <= i - 1 /\ i - 1 \in Nat BY SMT, <1>3, <2>1, <4>1
        <5>2. j * MC <= off BY <1>1, <2>1, <5>1, MulMono
        <5>3. x <= MC BY SMT, <1>1, <2>1, <2>2
        <5> HIDE DEF o, off
        <5>4. o + x <= off BY SMT, <1>1, <2>1, <2>2, <3>2, <5>2, <5>3
        <5> QED BY SMT, <2>3, <3>2, <5>4
      <4>2. CASE i < j
        <5>1. i <= j - 1 /\ j - 1 \in Nat BY SMT, <1>3, <2>1, <4>2
        <5>2. i * MC <= o BY <1>1, <1>3, <5>1, MulMono
        <5> HIDE DEF o, off
        <5>4. off + MC < o + x BY SMT, <1>1, <2>1, <2>2, <3>2, <5>2
        <5> QED BY SMT, <1>1, <2>3, <3>2, <5>4
      <4> QED BY SMT, <1>3, <2>1, <2>5, <4>1, <4>2
    <3>4. o + x <= Len(buf) /\ o + x \in 1..len
      <4>1. z \in Nat BY <1>1
      <4> HIDE DEF o, z
      <4> QED BY SMT, <1>8, <1>9, <1>10, <2>3, <3>1, <4>1
    <3>5. buf[o + x] = Body(m)[o + x] BY <3>1 DEF Holds
    <3> HIDE DEF o, off, d
    <3>6. d[o + x] = buf[o + x] BY <1>4, <3>3, <3>4
    <3> QED BY <3>5, <3>6 DEF o
  <2> QED BY <2>4, <2>5
<1> QED BY <1>4, <1>7, <1>11 DEF Holds

\* A step that gives a node no segment of a message.
LEMMA SameRecv ==
    ASSUME NEW n \in Node, NEW m \in Msg, RecvOK(n, m),
           \A p \in Publications(m) : p \in heard'[n] <=> p \in heard[n],
           delivered'[n][m] = delivered[n][m], m_received'[n][m] = m_received[n][m],
           m_reassemble'[n][m] = m_reassemble[n][m]
    PROVE  RecvOK(n, m)'
<1>0. Segs(m) \in Nat /\ (Size[m] = 0 => Segs(m) = 0) /\ (Size[m] # 0 => Last(m) = Segs(m))
  BY SegsFacts DEF Last
<1>1. \A i \in 1..Segs(m) : Seg(m, i) \in Publications(m) BY SMT, <1>0, PubsOf
<1>2. HeardOf(n, m)' = HeardOf(n, m) BY <1>1 DEF HeardOf
<1>3. (Publications(m) \subseteq heard[n])' <=> Publications(m) \subseteq heard[n] OBVIOUS
<1> QED BY <1>2, <1>3 DEF RecvOK

\* The message of the segment that receivePub is given.
LEMMA ReceiveOne ==
    ASSUME SendInv, RecvInv, NEW n \in Node, NEW m \in Msg, Segs(m) <= MaxSegs, NEW i \in 1..Last(m),
           ReceivePub(n, Seg(m, i))
    PROVE  /\ RecvOK(n, m)'
           /\ m_reassemble'[n][m] \in Seq(Unit) /\ delivered'[n][m] \in Seq(Seq(Unit))
<1> DEFINE p == Seg(m, i)
           S == Segs(m)
           H == HeardOf(n, m)
           buf == m_reassemble[n][m]
           d == Reassemble(buf, i, S, Slice(m, i))
           got == m_received[n][m] \cup {i - 1}
           all == Publications(m) \subseteq heard[n]
<1>1. /\ p.msgID = m /\ p.content = Slice(m, i) /\ p \in Publications(m)
      /\ (S <= 1 => p.sCnt = 0 /\ i = 1 /\ Last(m) = 1)
      /\ (S > 1 => p.sCnt # 0 /\ SegNo(p) = i /\ SegOf(p) = S /\ Last(m) = S)
  BY SegFacts DEF Seg
<1>2. p \notin heard[n] BY DEF ReceivePub, RecvInv
<1>3. ~all BY <1>1, <1>2
<1>4. /\ delivered[n][m] = <<>> /\ m_received[n][m] = {j - 1 : j \in H}
      /\ (H = {} => buf = <<>>) /\ (H # {} => Holds(buf, m, H))
  BY <1>3 DEF RecvInv, RecvOK
<1>5. /\ m_reassemble \in [Node -> [Msg -> Seq(Unit)]] /\ delivered \in [Node -> [Msg -> Seq(Seq(Unit))]]
      /\ heard \in [Node -> SUBSET Pub] /\ m_received \in [Node -> [Msg -> SUBSET Bits]]
  BY DEF RecvInv, SendInv, TypeOK
<1>6. heard'[n] = heard[n] \cup {p} BY <1>5 DEF ReceivePub
<1>7. buf \in Seq(Unit) /\ Body(m) \in Seq(Unit) BY <1>5, BodyFacts
<1>8. S \in Nat /\ (Size[m] = 0 => S = 0) /\ (Size[m] # 0 => Last(m) = S)
  BY SegsFacts DEF Last
<1>9. CASE S <= 1
  <2>1. UNCHANGED <<m_received, m_reassemble>> /\ Deliver(n, m, Slice(m, i))
    BY <1>1, <1>9 DEF ReceivePub
  <2>2. delivered'[n][m] = Append(delivered[n][m], Slice(m, i)) BY <1>5, <2>1 DEF Deliver
  <2>3. Slice(m, i) = Body(m)
    <3>1. Last(m) = 1 /\ i = 1 /\ (i - 1) * MC = 0 BY SMT, <1>1, <1>9, SegAssumption DEF MC
    <3>2. Slice(m, i) \in Seq(Unit) /\ Len(Slice(m, i)) = Size[m]
          /\ \A x \in 1..Size[m] : Slice(m, i)[x] = Body(m)[0 + x]
      <4>1. /\ Slice(m, i) \in Seq(Unit) /\ Len(Slice(m, i)) = SliceLen(m, i)
            /\ \A x \in 1..SliceLen(m, i) : Slice(m, i)[x] = Body(m)[(i - 1) * MC + x]
        BY SliceFacts DEF SliceLen
      <4>2. SliceLen(m, i) = Size[m]
        <5>1. SliceLen(m, i) = Size[m] - 0 BY SMT, <3>1 DEF SliceLen
        <5> QED BY SMT, <5>1, SegsFacts
      <4> QED BY <3>1, <4>1, <4>2
    <3>3. Len(Body(m)) = Size[m] /\ Size[m] \in Nat BY BodyFacts, SegsFacts
    <3>4. \A x \in 1..Size[m] : Slice(m, i)[x] = Body(m)[x] BY SMT, <3>2, <3>3
    <3> DEFINE b == Body(m)
               c == Slice(m, i)
    <3>5. b \in Seq(Unit) /\ c \in Seq(Unit) /\ Len(c) = Len(b) /\ \A x \in 1..Len(c) : c[x] = b[x]
      BY <1>7, <3>2, <3>3, <3>4
    <3> HIDE DEF b, c
    <3>6. c = b BY <3>5, SeqEqual
    <3> QED BY <3>6 DEF b, c
  <2>4. delivered'[n][m] = <<Body(m)>> BY SMT, <1>4, <2>2, <2>3
  <2>5. Publications(m) \subseteq heard'[n] BY SMT, <1>1, <1>6, <1>9, PubsOf
  <2>6. H = {}
    <3>1. \A j \in 1..S : Seg(m, j) = p BY SMT, <1>1, <1>8, <1>9
    <3> QED BY <1>2, <3>1 DEF HeardOf
  <2>7. m_received'[n][m] = {} /\ m_reassemble'[n][m] = <<>> BY <1>4, <2>1, <2>6
  <2> QED BY SMT, <1>7, <2>4, <2>5, <2>7 DEF RecvOK
<1>10. CASE S > 1
  <2>0. Last(m) = S /\ i \in 1..S /\ i \in Nat BY SMT, <1>1, <1>8, <1>10
  <2>1. \A j \in 1..S : Seg(m, j) \in Publications(m) /\ (Seg(m, j) = p => j = i)
    <3>1. \A j \in 1..S : SegNo(Seg(m, j)) = j BY <1>10, <2>0, SegFacts
    <3> QED BY <1>1, <1>10, <2>0, <3>1, PubsOf
  <2> DEFINE G == H \cup {i}
  <2>2. HeardOf(n, m)' = G /\ i \notin H /\ H \in SUBSET (1..S)
    BY <1>2, <1>6, <2>0, <2>1 DEF HeardOf
  <2>3. (Publications(m) \subseteq heard'[n]) <=> G = 1..S
    <3>1. Publications(m) \subseteq heard'[n] <=> \A j \in 1..S : Seg(m, j) \in heard'[n]
      BY SMT, <2>0, PubsOf
    <3>2. (\A j \in 1..S : Seg(m, j) \in heard'[n]) <=> HeardOf(n, m)' = 1..S BY DEF HeardOf
    <3> QED BY <2>2, <3>1, <3>2
  <2>4. d \in Seq(Unit) /\ Holds(d, m, G)
    <3> HIDE DEF H, buf
    <3> QED BY <1>4, <1>7, <1>10, <2>0, <2>2, OneMore
  <2>5. got = {j - 1 : j \in G} BY <1>4
  <2>6. Cardinality(got) = S <=> G = 1..S
    <3> DEFINE B == 0..(S - 1)
    <3>1. IsFiniteSet(B) /\ Cardinality(B) = S
      <4>1. 0 \in Int /\ S - 1 \in Int /\ 0 <= S - 1 /\ (S - 1) - 0 + 1 = S BY SMT, <1>8, <1>10
      <4> QED BY SMT, <4>1, FS_Interval
    <3>2. G \subseteq 1..S BY <2>0, <2>2
    <3> HIDE DEF G, H
    <3>3. got \subseteq B BY SMT, <1>8, <2>5, <3>2
    <3>4. G = 1..S => got = B
      <4> SUFFICES ASSUME G = 1..S PROVE got = B
        OBVIOUS
      <4>1. ASSUME NEW b \in B PROVE b \in got
        <5>1. b + 1 \in 1..S /\ b = (b + 1) - 1 BY SMT, <1>8
        <5> QED BY <2>5, <5>1
      <4> QED BY <3>3, <4>1
    <3>5. got = B => G = 1..S
      <4> SUFFICES ASSUME got = B, NEW j \in 1..S PROVE j \in G
        BY <3>2
      <4>1. j - 1 \in got BY SMT, <1>8
      <4>2. PICK l \in G : j - 1 = l - 1 BY <2>5, <4>1
      <4>3. l = j BY SMT, <1>8, <3>2, <4>2
      <4> QED BY <4>2, <4>3
    <3> HIDE DEF B, got
    <3>6. Cardinality(got) = S => got = B BY <3>1, <3>3, FS_Subset
    <3> QED BY <3>1, <3>4, <3>5, <3>6
  <2>7. CASE G = 1..S
    <3>1. /\ Deliver(n, m, d) /\ m_reassemble' = [m_reassemble EXCEPT ![n][m] = <<>>]
          /\ m_received' = [m_received EXCEPT ![n][m] = {}]
      BY <1>1, <1>10, <2>6, <2>7 DEF ReceivePub
    <3>2. d = Body(m) BY <1>10, <2>4, <2>7, WholeBody
    <3> HIDE DEF d
    <3>3. delivered'[n][m] = Append(delivered[n][m], d) BY <1>5, <3>1 DEF Deliver
    <3>4. delivered'[n][m] = <<Body(m)>> BY SMT, <1>4, <3>2, <3>3
    <3>5. m_received'[n][m] = {} /\ m_reassemble'[n][m] = <<>> BY <1>5, <3>1
    <3> QED BY SMT, <1>7, <2>3, <2>7, <3>4, <3>5 DEF RecvOK
  <2>8. CASE G # 1..S
    <3>1. /\ UNCHANGED delivered /\ m_reassemble' = [m_reassemble EXCEPT ![n][m] = d]
          /\ m_received' = [m_received EXCEPT ![n][m] = got]
      BY <1>1, <1>10, <2>6, <2>8 DEF ReceivePub
    <3> HIDE DEF d, got
    <3>2. m_received'[n][m] = got /\ m_reassemble'[n][m] = d BY <1>5, <3>1
    <3>3. delivered'[n][m] = <<>> BY <1>4, <3>1
    <3>4. G # {} OBVIOUS
    <3> HIDE DEF G
    <3> QED BY SMT, <2>2, <2>3, <2>4, <2>5, <2>8, <3>2, <3>3, <3>4 DEF RecvOK
  <2> QED BY <2>7, <2>8
<1> QED BY SMT, <1>8, <1>9, <1>10

\* Before any segment has come.
LEMMA InitRecv == Init => RecvInv
<1> SUFFICES ASSUME Init PROVE RecvInv
  OBVIOUS
<1>1. /\ has = [n \in Node |-> {}] /\ heard = [n \in Node |-> {}]
      /\ m_received = [n \in Node |-> [m \in Msg |-> {}]]
      /\ m_reassemble = [n \in Node |-> [m \in Msg |-> <<>>]]
      /\ delivered = [n \in Node |-> [m \in Msg |-> <<>>]]
  BY DEF Init, Sync!Init
<1>2. ASSUME NEW n \in Node, NEW m \in Msg PROVE RecvOK(n, m)
  <2>1. Publications(m) # {} BY PubsOf
  <2>2. HeardOf(n, m) = {} BY <1>1 DEF HeardOf
  <2> QED BY <1>1, <2>1, <2>2 DEF RecvOK
<1>3. <<>> \in Seq(Unit) /\ <<>> \in Seq(Seq(Unit)) BY SMT
<1> QED BY <1>1, <1>2, <1>3 DEF RecvInv

\* Each event keeps the receiver's invariant (receivePub, and those that do not concern it).
LEMMA NextRecv == SendInv /\ RecvInv /\ [Next]_vars => RecvInv'
<1> SUFFICES ASSUME SendInv, RecvInv, [Next]_vars PROVE RecvInv'
  OBVIOUS
<1>0. TypeOK BY DEF SendInv
<1>1. ASSUME UNCHANGED receiver, \A n \in Node : has[n] \subseteq has'[n] PROVE RecvInv'
  <2>1. UNCHANGED <<m_received, m_reassemble, heard, delivered>> BY <1>1 DEF receiver
  <2>2. \A n \in Node, m \in Msg : RecvOK(n, m)' BY <2>1, SameRecv DEF RecvInv
  <2> QED BY <1>1, <2>1, <2>2 DEF RecvInv
<1>2. ASSUME NEW n \in Node, NEW new, NEW got, NEW arr, NEW late, Effect(n, new, got, arr, late)
      PROVE  \A k \in Node : has[k] \subseteq has'[k]
  BY <1>2 DEF Effect
<1>3. ASSUME NEW m \in Msg, Publish(m) PROVE RecvInv'
  <2>1. From[m] \in Node /\ Sync!Event(From[m], Publications(m), {}, {}, {}) /\ UNCHANGED receiver
    BY <1>3, MsgAssumption DEF Publish, receiver
  <2>2. Effect(From[m], Publications(m), {}, {}, {}) BY <1>0, <2>1, EventEffect
  <2> QED BY <1>1, <1>2, <2>1, <2>2
<1>4. ASSUME NEW p \in Pub, NEW success \in BOOLEAN, ConfirmPublication(p, success) PROVE RecvInv'
  <2> DEFINE n == From[p.msgID]
             arr == IF success THEN {p} ELSE {}
             late == IF success THEN {} ELSE {p}
  <2>1. n \in Node BY MsgAssumption, PubIsSeg
  <2>2. Sync!Event(n, {}, {}, arr, late) /\ UNCHANGED receiver BY <1>4 DEF ConfirmPublication
  <2> HIDE DEF n, arr, late
  <2>3. Effect(n, {}, {}, arr, late) BY <1>0, <2>1, <2>2, EventEffect
  <2> QED BY <1>1, <1>2, <2>1, <2>2, <2>3
<1>5. ASSUME NEW n \in Node, NEW p \in Pub, Miss(n, p) PROVE RecvInv'
  <2>1. Sync!Event(n, {}, {p}, {}, {}) /\ UNCHANGED receiver BY <1>5 DEF Miss
  <2>2. Effect(n, {}, {p}, {}, {}) BY <1>0, <2>1, EventEffect
  <2> QED BY <1>1, <1>2, <2>1, <2>2
<1>6. ASSUME NEW n \in Node, NEW p \in Pub, ReceivePub(n, p) PROVE RecvInv'
  <2> DEFINE m == p.msgID
  <2>1. PICK i \in 1..Last(m) : p = Seg(m, i) BY PubIsSeg
  <2>2. m \in Msg BY PubIsSeg
  <2>3. Effect(n, {}, {p}, {}, {})
    <3>1. Sync!Event(n, {}, {p}, {}, {}) BY <1>6 DEF ReceivePub
    <3> QED BY <1>0, <3>1, EventEffect
  <2>4. has'[n] = has[n] \cup {p} /\ \A k \in Node : has[k] \subseteq has'[k] BY <2>3 DEF Effect
  <2>5. Segs(m) <= MaxSegs BY <2>3 DEF Effect, SendInv, Small
  <2>6. /\ RecvOK(n, m)'
        /\ m_reassemble'[n][m] \in Seq(Unit) /\ delivered'[n][m] \in Seq(Seq(Unit))
    <3> HIDE DEF m
    <3>1. ReceivePub(n, Seg(m, i)) BY <1>6, <2>1
    <3> QED BY <2>2, <2>5, <3>1, ReceiveOne
  <2>7. /\ m_reassemble \in [Node -> [Msg -> Seq(Unit)]] /\ delivered \in [Node -> [Msg -> Seq(Seq(Unit))]]
        /\ heard \in [Node -> SUBSET Pub] /\ m_received \in [Node -> [Msg -> SUBSET Bits]]
        /\ \A k \in Node : heard[k] \subseteq has[k]
    BY <1>0 DEF RecvInv, TypeOK
  <2>8. heard' = [heard EXCEPT ![n] = heard[n] \cup {p}] BY <1>6 DEF ReceivePub
  <2>9. \E v : m_reassemble' = [m_reassemble EXCEPT ![n][m] = v]
    <3>1. m_reassemble = [m_reassemble EXCEPT ![n][m] = m_reassemble[n][m]] BY <2>2, <2>7
    <3>2. \/ UNCHANGED m_reassemble
          \/ \E v : m_reassemble' = [m_reassemble EXCEPT ![n][m] = v]
      BY <1>6 DEF ReceivePub
    <3> QED BY <3>1, <3>2
  <2>10. \E v : m_received' = [m_received EXCEPT ![n][m] = v]
    <3>1. m_received = [m_received EXCEPT ![n][m] = m_received[n][m]] BY <2>2, <2>7
    <3>2. \/ UNCHANGED m_received
          \/ \E v : m_received' = [m_received EXCEPT ![n][m] = v]
      BY <1>6 DEF ReceivePub
    <3> QED BY <3>1, <3>2
  <2>11. \E v : delivered' = [delivered EXCEPT ![n][m] = v]
    <3>1. delivered = [delivered EXCEPT ![n][m] = delivered[n][m]] BY <2>2, <2>7
    <3>2. \/ UNCHANGED delivered
          \/ \E v : delivered' = [delivered EXCEPT ![n][m] = v]
      BY <1>6 DEF ReceivePub, Deliver
    <3> QED BY <3>1, <3>2
  <2> HIDE DEF m
  <2>12. m_reassemble' \in [Node -> [Msg -> Seq(Unit)]] BY SMT, <2>2, <2>6, <2>7, <2>9
  <2>13. delivered' \in [Node -> [Msg -> Seq(Seq(Unit))]] BY SMT, <2>2, <2>6, <2>7, <2>11
  <2>14. heard' \in [Node -> SUBSET Pub] /\ \A k \in Node : heard'[k] \subseteq has'[k]
    BY <2>4, <2>7, <2>8
  <2>15. ASSUME NEW k \in Node, NEW l \in Msg, ~(k = n /\ l = m) PROVE RecvOK(k, l)'
    <3>1. \A q \in Publications(l) : q \in heard'[k] <=> q \in heard[k]
      <4>1. \A q \in Publications(l) : q.msgID = l BY PubsOf
      <4> QED BY <2>7, <2>8, <2>15, <4>1 DEF m
    <3>2. m_reassemble'[k][l] = m_reassemble[k][l] BY SMT, <2>2, <2>7, <2>9, <2>15
    <3>3. m_received'[k][l] = m_received[k][l] BY SMT, <2>2, <2>7, <2>10, <2>15
    <3>4. delivered'[k][l] = delivered[k][l] BY SMT, <2>2, <2>7, <2>11, <2>15
    <3> QED BY <3>1, <3>2, <3>3, <3>4, SameRecv DEF RecvInv
  <2> QED BY <2>6, <2>12, <2>13, <2>14, <2>15 DEF RecvInv
<1>7. CASE UNCHANGED vars BY <1>1, <1>7 DEF vars, receiver
<1> QED BY <1>3, <1>4, <1>5, <1>6, <1>7 DEF Next

\* receivePub: the message handler of a node gets the body that was published, once, when
\* the last of the message's segments comes, for any sizes and any order of the segments.
THEOREM DeliversExactly == Spec => []DeliveredExact
<1>1. RecvInv => DeliveredExact BY DEF RecvInv, RecvOK, DeliveredExact
<1> QED BY <1>1, InitSend, NextSend, InitRecv, NextRecv, PTL DEF Spec
================================================================================
