--------------------------------- MODULE Mbps ---------------------------------
(***************************************************************************)
(* The message-based publish/subscribe shim (mbps.hpp). A message that     *)
(* does not fit in a Publication is published in segments; the receivers   *)
(* put the segments together, and the sender gathers the delivery          *)
(* callbacks of the segments into one confirmation of the message.         *)
(*                                                                         *)
(* The shim runs over the service PubSub, which SyncPS implements: its     *)
(* callbacks are PubSub's events, so segments arrive and are confirmed in  *)
(* any order, late or never. A message stands for its msgID; its body is a *)
(* sequence of units, MaxContent of which fit in a Publication.            *)
(***************************************************************************)
EXTENDS Integers, Sequences, FiniteSets

CONSTANTS Node,
          Msg,          \* messages (each one standing for its msgID)
          From,         \* From[m]: the node whose application publishes m
          Size,         \* Size[m]: the length of m's body
          Confirmed,    \* messages published with a confirmation handler
          MaxContent,   \* MAX_CONTENT
          MaxSegs       \* MAX_SEGS, also the width of the bitmaps of MsgInfo

ASSUME MsgAssumption == From \in [Msg -> Node] /\ Size \in [Msg -> Nat]
                        /\ Confirmed \subseteq Msg
ASSUME SegAssumption == MaxContent \in Nat \ {0} /\ MaxSegs \in 1..255

VARIABLES has, told,      \* the state of the service, see PubSub
          m_msgConfCb,    \* messages whose confirmation handler is waiting
          m_pending,      \* m_pending[m]: segments of m confirmed so far
          m_received,     \* m_received[n][m]: segments of m that n received
          m_reassemble,   \* m_reassemble[n][m]: m's body as far as n has it
          threw,          \* nodes stopped by an exception in a handler
          heard,          \* history: publications given to receivePub
          calls,          \* history: calls of m's confirmation handler
          delivered       \* history: bodies that n's message handler got for m

vars == <<has, told, m_msgConfCb, m_pending, m_received, m_reassemble, threw,
          heard, calls, delivered>>

sender == <<m_msgConfCb, m_pending, calls, threw>>

receiver == <<m_received, m_reassemble, heard, delivered>>

Body(m) == [i \in 1..Size[m] |-> <<m, i>>]

\* The number of segments
Segs(m) == (Size[m] + (MaxContent - 1)) \div MaxContent

\* The i-th subspan of the body
Slice(m, i) ==
    LET last == i * MaxContent
    IN  SubSeq(Body(m), last - MaxContent + 1, IF last < Size[m] THEN last ELSE Size[m])

\* sCnt is 0 for a message in one piece, else it has the number of segments in
\* its low byte and the segment's index in the next
SCnt(m, i) == IF Segs(m) > 1 THEN Segs(m) + 256 * i ELSE 0

\* The Publications of a message; the empty message has one with no content
Publications(m) ==
    {[msgID |-> m, sCnt |-> SCnt(m, i), content |-> Slice(m, i)] :
        i \in 1..(IF Size[m] = 0 THEN 1 ELSE Segs(m))}

Pub == UNION {Publications(m) : m \in Msg}

OwnPubs == [n \in Node |-> {p \in Pub : From[p.msgID] = n}]

Sync == INSTANCE PubSub

SegNo(p) == p.sCnt \div 256

SegOf(p) == p.sCnt % 256

\* The bits of a bitmap
Bits == 0..(MaxSegs - 1)

Init ==
    /\ Sync!Init
    /\ m_msgConfCb = {}
    /\ m_pending = [m \in Msg |-> {}]
    /\ m_received = [n \in Node |-> [m \in Msg |-> {}]]
    /\ m_reassemble = [n \in Node |-> [m \in Msg |-> <<>>]]
    /\ threw = {}
    /\ heard = [n \in Node |-> {}]
    /\ calls = [m \in Msg |-> <<>>]
    /\ delivered = [n \in Node |-> [m \in Msg |-> <<>>]]
-------------------------------------------------------------------------------
\* publish: a message that is too large is refused (throw, with no effect);
\* the handler is registered last, and not at all for an empty message
Publish(m) ==
    /\ From[m] \notin threw
    /\ Publications(m) \cap has[From[m]] = {}
    /\ Segs(m) <= MaxSegs
    /\ Sync!Event(From[m], Publications(m), {}, {}, {})
    /\ m_msgConfCb' = m_msgConfCb \cup (IF Size[m] = 0 THEN {} ELSE {m} \cap Confirmed)
    /\ UNCHANGED <<m_pending, calls, threw, receiver>>

\* The call of the confirmation handler of m, if there is one
CallConfCb(m, success) ==
    /\ m_pending' = [m_pending EXCEPT ![m] = {}]
    /\ calls' = IF m \in m_msgConfCb THEN [calls EXCEPT ![m] = Append(@, success)]
                ELSE calls
    /\ m_msgConfCb' = m_msgConfCb \ {m}
    /\ UNCHANGED threw

\* Mutants: the message is confirmed with its first segment; the count is off by
\* one; a bit beyond the bitmap is not noticed
ConfirmArrivedFirst(p) == CallConfCb(p.msgID, TRUE)

ConfirmArrivedLate(p) ==
    LET m == p.msgID
        got == m_pending[m] \cup {SegNo(p)}
    IN  IF p.sCnt # 0 /\ Cardinality(got) <= SegOf(p)
        THEN /\ m_pending' = [m_pending EXCEPT ![m] = got]
             /\ UNCHANGED <<m_msgConfCb, calls, threw>>
        ELSE CallConfCb(m, TRUE)

ConfirmArrivedUnchecked(p) ==
    LET m == p.msgID
        got == m_pending[m] \cup {SegNo(p)}
    IN  IF p.sCnt # 0 /\ Cardinality(got) # SegOf(p)
        THEN /\ m_pending' = [m_pending EXCEPT ![m] = got]
             /\ UNCHANGED <<m_msgConfCb, calls, threw>>
        ELSE CallConfCb(m, TRUE)

\* confirmPublication(p, TRUE): std::bitset::set throws beyond the bitmap
ConfirmArrived(p) ==
    LET m == p.msgID
        got == m_pending[m] \cup {SegNo(p)}
    IN  \/ /\ p.sCnt = 0
           /\ CallConfCb(m, TRUE)
        \/ /\ p.sCnt # 0 /\ SegNo(p) \in Bits
           /\ Cardinality(got) # SegOf(p)
           /\ m_pending' = [m_pending EXCEPT ![m] = got]
           /\ UNCHANGED <<m_msgConfCb, calls, threw>>
        \/ /\ p.sCnt # 0 /\ SegNo(p) \in Bits
           /\ Cardinality(got) = SegOf(p)
           /\ CallConfCb(m, TRUE)
        \/ /\ p.sCnt # 0 /\ SegNo(p) \notin Bits
           /\ threw' = threw \cup {From[m]}
           /\ UNCHANGED <<m_msgConfCb, m_pending, calls>>

\* confirmPublication, called by the service for a Publication of a message
\* that was published with a handler
ConfirmPublication(p, success) ==
    LET n == From[p.msgID]
    IN  /\ n \notin threw /\ p.msgID \in Confirmed /\ p \in has[n]
        /\ IF success THEN Sync!Event(n, {}, {}, {p}, {}) /\ ConfirmArrived(p)
                      ELSE Sync!Event(n, {}, {}, {}, {p}) /\ CallConfCb(p.msgID, FALSE)
        /\ UNCHANGED receiver

\* std::vector::resize
Resize(v, len) == [i \in 1..len |-> IF i <= Len(v) THEN v[i] ELSE 0]

\* Mutant: the buffer is grown again by every segment but the last
ReassembleGrow(dst, k, n, content) ==
    LET sized == IF k = n THEN Resize(dst, (n - 1) * MaxContent + Len(content))
                 ELSE Resize(dst, n * MaxContent)
        off   == (k - 1) * MaxContent
    IN  [i \in 1..Len(sized) |->
            IF i - off \in 1..Len(content) THEN content[i - off] ELSE sized[i]]

\* What becomes of the buffer dst when segment k of n arrives
Reassemble(dst, k, n, content) ==
    LET sized == IF k = n THEN Resize(dst, (n - 1) * MaxContent + Len(content))
                 ELSE IF Len(dst) = 0 THEN Resize(dst, n * MaxContent) ELSE dst
        off   == (k - 1) * MaxContent
    IN  [i \in 1..Len(sized) |->
            IF i - off \in 1..Len(content) THEN content[i - off] ELSE sized[i]]

Deliver(n, m, body) == delivered' = [delivered EXCEPT ![n][m] = Append(@, body)]

\* receivePub
ReceivePub(n, p) ==
    LET m == p.msgID
        k == SegNo(p)
        segs == SegOf(p)
        dst == Reassemble(m_reassemble[n][m], k, segs, p.content)
        got == m_received[n][m] \cup {k - 1}
    IN  /\ n \notin threw /\ p \notin has[n] /\ p \notin OwnPubs[n]
        /\ Sync!Event(n, {}, {p}, {}, {})
        /\ heard' = [heard EXCEPT ![n] = @ \cup {p}]
        /\ UNCHANGED sender
        /\ \/ /\ p.sCnt = 0
              /\ Deliver(n, m, p.content)
              /\ UNCHANGED <<m_received, m_reassemble>>
           \/ /\ p.sCnt # 0 /\ k \in 1..segs /\ segs <= MaxSegs
              /\ Cardinality(got) # segs
              /\ m_reassemble' = [m_reassemble EXCEPT ![n][m] = dst]
              /\ m_received' = [m_received EXCEPT ![n][m] = got]
              /\ UNCHANGED delivered
           \/ /\ p.sCnt # 0 /\ k \in 1..segs /\ segs <= MaxSegs
              /\ Cardinality(got) = segs
              /\ Deliver(n, m, dst)
              /\ m_reassemble' = [m_reassemble EXCEPT ![n][m] = <<>>]
              /\ m_received' = [m_received EXCEPT ![n][m] = {}]

\* A peer's syncps takes p but does not give it to the shim: it has expired,
\* is not valid, or is not subscribed to
Miss(n, p) ==
    /\ n \notin threw /\ p \notin has[n] /\ p \notin OwnPubs[n]
    /\ Sync!Event(n, {}, {p}, {}, {})
    /\ UNCHANGED <<sender, receiver>>

Next == \/ \E m \in Msg : Publish(m)
        \/ \E p \in Pub, success \in BOOLEAN : ConfirmPublication(p, success)
        \/ \E n \in Node, p \in Pub : ReceivePub(n, p) \/ Miss(n, p)

Spec == Init /\ [][Next]_vars
-------------------------------------------------------------------------------
\* Types; above all, confirmPublication and receivePub set no bit outside the
\* bitmaps of MsgInfo.
TypeOK ==
    /\ has \in [Node -> SUBSET Pub]
    /\ told \in [Node -> [Pub -> {"none", "arrived", "timeout"}]]
    /\ m_msgConfCb \subseteq Confirmed
    /\ m_pending \in [Msg -> SUBSET (Bits \ {0})]
    /\ m_received \in [Node -> [Msg -> SUBSET Bits]]
    /\ threw \subseteq Node

\* What became of the publications of m, as the sender's syncps told the shim
Outcome(m) == {told[From[m]][p] : p \in Publications(m)}

\* The confirmation handler of a message is called at most once: with 'true'
\* only when every segment was seen at another node, with 'false' only when
\* some segment timed out (confirmPublication, segments in any order).
ConfirmExact ==
    \A m \in Msg : \/ calls[m] = <<>>
                   \/ calls[m] = <<TRUE>> /\ Outcome(m) = {"arrived"}
                   \/ calls[m] = <<FALSE>> /\ "timeout" \in Outcome(m)

\* The handler of m has been called if the outcome of m is known to the shim
Called(m) == Outcome(m) = {"arrived"} \/ "timeout" \in Outcome(m) => calls[m] # <<>>

\* "the app callback function (a confHndlr) gets called either when all
\* segments of a message were published or if any segments timed out without
\* showing up in the off-node collection" (mbps.hpp, comment on publish).
ConfirmCalled == \A m \in Confirmed : Called(m)

\* The same for the messages publish registers a handler for and whose segments
\* are all within the bitmap of confirmPublication: neither empty nor of the
\* largest size. Confirmations and timeouts of the segments come in any order.
ConfirmCalledInside == \A m \in Confirmed : Segs(m) \in 1..(MaxSegs - 1) => Called(m)

\* The message handler of a node is called for a message as soon as all of its
\* segments have been given to receivePub, at most once, and with the body that
\* was published, whatever the order in which the segments came.
DeliveredExact ==
    \A n \in Node, m \in Msg :
        delivered[n][m] = IF Publications(m) \subseteq heard[n] THEN <<Body(m)>> ELSE <<>>
===============================================================================
