--------------------------- MODULE AppProtoProofs ---------------------------
(***************************************************************************)
(* Proofs about AppProto, for every set of nodes, brokers, requests and    *)
(* tasks, every clock skew and every loss: type correctness, duplicates    *)
(* and the contract for every setting of the switches; order, for callers  *)
(* that await each ack; and the age check, when the clock does not advance *)
(* while a text is hashed.                                                 *)
(***************************************************************************)
EXTENDS AppProto, TLAPS

\* Time stamps, int(get_time()), are natural numbers.
LEMMA SecsType == ASSUME NEW t \in Nat PROVE Secs(t) \in Nat
  BY TimeAssumption DEF Secs

\* So are republish_duration and twice it, in ticks.
LEMMA TimeTypes ==
  /\ Lifetime \in Nat
  /\ Window \in Nat
  BY TimeAssumption DEF Window, Lifetime

\* get_time() of a node is a natural number.
LEMMA NowType == ASSUME TypeOK, NEW n \in Node PROVE Now(n) \in Nat
  BY TimeAssumption DEF Now, TypeOK

\* What ordered_ack_send puts into msg_queues[MSG] has the entry's type.
LEMMA NewEntryType ==
  ASSUME TypeOK, NEW r \in Request, NEW s \in Nat
  PROVE  NewEntry(r, s) \in SentEntry
  <1>1. r.src \in Node
    BY RequestAssumption
  <1>2. Secs(Now(r.src)) \in Nat
    BY <1>1, NowType, SecsType
  <1> QED BY <1>2 DEF NewEntry, SentEntry, TypeOK

\* Resolving an entry's future leaves an entry.
LEMMA AckedEntryType ==
  ASSUME NEW e \in SentEntry PROVE [e EXCEPT !.acked = TRUE] \in SentEntry
  BY DEF SentEntry

\* ordered_ack_send's max + 1 is a natural number.
LEMMA NextSeqType ==
  ASSUME TypeOK, NEW r \in Request, NEW b \in Broker,
         NEW s \in NextSeqs(SeqsInUse(r, b))
  PROVE  s \in Nat
  <1>1. SeqsInUse(r, b) \subseteq Nat
    BY DEF SeqsInUse, TypeOK, SentEntry
  <1> QED BY <1>1 DEF NextSeqs

-----------------------------------------------------------------------------
(* Type correctness. *)

\* The empty tables of MQTTClient.__init__ have their types.
LEMMA TypeInit == Init => TypeOK
  BY TimeAssumption DEF Init, TypeOK

\* Every handler, call and dispatcher step keeps the types.
LEMMA TypeNext == TypeOK /\ [Next]_vars => TypeOK'
  <1> SUFFICES ASSUME TypeOK, [Next]_vars PROVE TypeOK'
    OBVIOUS
  <1>1. ASSUME NEW r \in QueueRequest, NEW b \in Broker, QueueMsg(r, b) PROVE TypeOK'
    <2>1. r \in Request
      BY DEF Request
    <2>2. PICK s \in NextSeqs(SeqsInUse(r, b)) :
             sent' = [sent EXCEPT ![r][b] = NewEntry(r, s)]
      BY <1>1 DEF QueueMsg
    <2>3. NewEntry(r, s) \in SentEntry
      BY <2>1, <2>2, NextSeqType, NewEntryType
    <2>4. sent' \in [Request -> [Broker -> SentEntry \cup {None}]]
      BY <2>1, <2>2, <2>3 DEF TypeOK
    <2> QED BY <1>1, <2>1, <2>4 DEF QueueMsg, net, TypeOK
  <1>2. ASSUME NEW r \in PipeRequest, PipeSend(r) PROVE TypeOK'
    <2>1. r \in Request /\ NewEntry(r, 0) \in SentEntry
      BY NewEntryType DEF Request
    <2>2. sent' \in [Request -> [Broker -> SentEntry \cup {None}]]
      BY <1>2, <2>1 DEF TypeOK, PipeSend
    <2> QED BY <1>2, <2>1, <2>2 DEF PipeSend, net, TypeOK
  <1>3. ASSUME NEW r \in PipeRequest, PipeOk(r) \/ PipeTimeout(r) PROVE TypeOK'
    <2>1. PICK result \in {"ok", "failed"} : PipeEnd(r, result)
      BY <1>3 DEF PipeOk, PipeTimeout
    <2>2. r \in Request
      BY DEF Request
    <2>3. sent' \in [Request -> [Broker -> SentEntry \cup {None}]]
      BY <2>1, <2>2 DEF PipeEnd, TypeOK
    <2>4. outcome' \in [Request -> {"new", "sending", "ok", "failed"}]
      BY <2>1, <2>2 DEF PipeEnd, TypeOK
    <2> QED BY <2>1, <2>3, <2>4 DEF PipeEnd, net, TypeOK
  <1>5. ASSUME NEW r \in Request, NEW b \in Broker, PublishMsg(r, b) PROVE TypeOK'
    <2>1. MsgPacketOf(r, b) \in MsgPacket
      BY <1>5, RequestAssumption DEF PublishMsg, MsgPacketOf, MsgPacket, TypeOK, SentEntry
    <2> QED BY <1>5, <2>1 DEF PublishMsg, Copied, TypeOK
  <1>6. ASSUME NEW r \in Request, NEW b \in Broker, NEW a \in ackWire[b],
               ReceiveAck(r, b, a)
        PROVE  TypeOK'
    <2>1. [sent[r][b] EXCEPT !.acked = TRUE] \in SentEntry
      BY <1>6, AckedEntryType DEF ReceiveAck, TypeOK
    <2>2. sent' \in [Request -> [Broker -> SentEntry \cup {None}]]
      BY <1>6, <2>1 DEF ReceiveAck, TypeOK
    <2> QED BY <1>6, <2>2 DEF ReceiveAck, net, TypeOK
  <1>7. ASSUME NEW n \in Node, NEW b \in Broker, NEW p \in msgWire[b],
               ReceiveAcked(n, b, p)
        PROVE  TypeOK'
    <2>1. PICK a \in AckFor(PruneAcks(ackq[n][b], p), p) :
             /\ ackWire' = [ackWire EXCEPT ![b] = @ \cup {AckPacketOf(n, a)}]
             /\ Copied(AckPacketOf(n, a), b)
      BY <1>7 DEF ReceiveAcked
    <2>2. AckPacketOf(n, a) \in AckPacket
      BY <2>1 DEF AckFor, PruneAcks, AckPacketOf, AckPacket, AckEntry, TypeOK
    <2>3. PruneAcks(ackq[n][b], p) \in SUBSET AckEntry
      BY DEF PruneAcks, TypeOK
    <2>4. ackq' \in [Node -> [Broker -> SUBSET AckEntry]]
      BY <1>7, <2>3 DEF ReceiveAcked, TypeOK
    <2> QED BY <1>7, <2>1, <2>2, <2>4 DEF ReceiveAcked, Copied, TypeOK
  <1>8. ASSUME NEW n \in Node, NEW b \in Broker, NEW k \in Task, NEW p \in msgWire[b],
               ReceiveMsg(n, b, p, k)
        PROVE  TypeOK'
    <2>1. PruneAcks(ackq[n][b], p) \in SUBSET AckEntry
      BY DEF PruneAcks, TypeOK
    <2>2. ackq' \in [Node -> [Broker -> SUBSET AckEntry]]
      BY <1>8, <2>1 DEF ReceiveMsg, TypeOK
    <2>3. [pc |-> "hash", node |-> n, broker |-> b, pkt |-> p] \in Running
      BY DEF Running, TypeOK
    <2>4. task' \in [Task -> {Idle} \cup Running]
      BY <1>8, <2>3 DEF ReceiveMsg, TypeOK
    <2> QED BY <1>8, <2>2, <2>4 DEF ReceiveMsg, net, TypeOK
  <1>9. ASSUME NEW k \in Task, Stamp(k) PROVE TypeOK'
    <2> DEFINE n == task[k].node
               x == task[k].pkt.text
    <2>1. task[k] \in Running
      BY <1>9 DEF Stamp, TypeOK, Idle
    <2>2. n \in Node /\ x \in Text
      BY <2>1 DEF Running, MsgPacket
    <2>3. Now(n) \in Nat
      BY <2>2, NowType
    <2>4. recvIds' \in [Node -> [Text -> Nat \cup {None}]]
      <3>1. CASE recvIds[n][x] = None
        <4>1. recvIds' = [recvIds EXCEPT ![n][x] = Now(n)]
          BY <1>9, <3>1 DEF Stamp
        <4> HIDE DEF n, x
        <4> QED BY <4>1, <2>2, <2>3 DEF TypeOK
      <3>2. CASE recvIds[n][x] # None
        BY <1>9, <3>2 DEF Stamp, TypeOK
      <3> QED BY <3>1, <3>2
    <2>5. handed' \in [Node -> [Text -> [times: Nat, last: Nat]]]
      <3>1. CASE recvIds[n][x] = None
        <4> DEFINE h == [times |-> handed[n][x].times + 1, last |-> Now(n)]
        <4>1. handed' = [handed EXCEPT ![n][x] = h]
          BY <1>9, <3>1 DEF Stamp
        <4>2. h \in [times: Nat, last: Nat]
          BY <2>2, <2>3 DEF TypeOK
        <4> HIDE DEF n, x, h
        <4> QED BY <4>1, <4>2, <2>2 DEF TypeOK
      <3>2. CASE recvIds[n][x] # None
        BY <1>9, <3>2 DEF Stamp, TypeOK
      <3> QED BY <3>1, <3>2
    <2>6. [task[k] EXCEPT !.pc = "ack"] \in Running
      BY <2>1 DEF Running
    <2>7. task' \in [Task -> {Idle} \cup Running]
      BY <1>9, <2>6 DEF Stamp, TypeOK
    <2> QED BY <1>9, <2>4, <2>5, <2>7 DEF Stamp, net, TypeOK
  <1>10. ASSUME NEW k \in Task, QueueAck(k) PROVE TypeOK'
    <2> DEFINE n == task[k].node
               b == task[k].broker
               p == task[k].pkt
               a == [queue |-> p.queue, seq |-> p.seq, dst |-> p.src, created |-> clock]
    <2>1. task[k] \in Running
      BY <1>10 DEF QueueAck, TypeOK, Idle
    <2>2. n \in Node /\ b \in Broker /\ a \in AckEntry
      BY <2>1 DEF Running, MsgPacket, AckEntry, TypeOK
    <2>3. ackq[n][b] \cup {a} \in SUBSET AckEntry
      BY <2>2 DEF TypeOK
    <2>4. ackq' \in [Node -> [Broker -> SUBSET AckEntry]]
      BY <1>10, <2>2, <2>3 DEF QueueAck, TypeOK
    <2> QED BY <1>10, <2>4 DEF QueueAck, net, TypeOK
  <1>11. ASSUME NEW n \in Node, NEW b \in Broker, NEW a \in ackq[n][b],
                PublishAck(n, b, a)
         PROVE  TypeOK'
    <2>1. AckPacketOf(n, a) \in AckPacket
      BY DEF AckPacketOf, AckPacket, AckEntry, TypeOK
    <2> QED BY <1>11, <2>1 DEF PublishAck, Copied, TypeOK
  <1>12. ASSUME NEW n \in Node, Prune(n) PROVE TypeOK'
    BY <1>12 DEF Prune, net, TypeOK
  <1>13. ASSUME Tick PROVE TypeOK'
    BY <1>13 DEF Tick, net, TypeOK
  <1>14. ASSUME UNCHANGED vars PROVE TypeOK'
    BY <1>14 DEF vars, net, TypeOK
  <1>15. ASSUME NEW b \in Broker, NEW p \in msgWire[b] \cup ackWire[b], Lose(p, b)
         PROVE  TypeOK'
    BY <1>15, TimeAssumption DEF Lose, TypeOK
  <1> QED BY <1>1, <1>2, <1>3, <1>5, <1>6, <1>7, <1>8, <1>9, <1>10, <1>11,
             <1>12, <1>13, <1>14, <1>15 DEF Next, Send, Receive, Network

\* The tables of every client and router always hold what their types say, and
\* the history counters count.
THEOREM TypeCorrect == Spec => []TypeOK
  BY TypeInit, TypeNext, PTL DEF Spec

-----------------------------------------------------------------------------
(* Duplicates.  A text handed over is remembered with the time of its last  *)
(* hand-off, or has been forgotten after the window has passed.              *)

DedupInv ==
  \A n \in Node, x \in Text :
    Handed(n, x) => IF recvIds[n][x] = None
                    THEN Now(n) - handed[n][x].last > Window
                    ELSE recvIds[n][x] = handed[n][x].last

\* The invariant of the deduplication holds of empty tables.
LEMMA DedupInit == Init => DedupInv
  BY DEF Init, DedupInv, Handed

\* process_app_msg after its hash either finds the text in recv_msg_ids and
\* changes nothing, or stamps it and hands it over now.
LEMMA StampCases ==
  ASSUME TypeOK, NEW k \in Task, Stamp(k)
  PROVE  \E n \in Node, x \in Text :
           /\ n = task[k].node /\ x = task[k].pkt.text
           /\ task[k] \in Running
           /\ \/ /\ recvIds[n][x] # None
                 /\ UNCHANGED <<recvIds, handed>>
              \/ /\ recvIds[n][x] = None
                 /\ recvIds' = [recvIds EXCEPT ![n][x] = Now(n)]
                 /\ handed' = [handed EXCEPT ![n][x] =
                                 [times |-> @.times + 1, last |-> Now(n)]]
  <1> DEFINE n == task[k].node
             x == task[k].pkt.text
  <1>1. task[k] \in Running
    BY DEF Stamp, TypeOK, Idle
  <1>2. n \in Node /\ x \in Text
    BY <1>1 DEF Running, MsgPacket
  <1>3. CASE recvIds[n][x] = None
    BY <1>1, <1>2, <1>3 DEF Stamp
  <1>4. CASE recvIds[n][x] # None
    BY <1>1, <1>2, <1>4 DEF Stamp
  <1> QED BY <1>3, <1>4

\* Every step keeps it; prune_msg_ids is the one that needs the window.
LEMMA DedupNext ==
  TypeOK /\ DedupInv /\ [Next]_vars => DedupInv' /\ (NoEarlyRepeat \/ UNCHANGED vars)
  <1> SUFFICES ASSUME TypeOK, DedupInv, [Next]_vars
               PROVE  DedupInv' /\ NoEarlyRepeat
    OBVIOUS
  <1>1. ASSUME UNCHANGED <<clock, recvIds, handed>> PROVE DedupInv' /\ NoEarlyRepeat
    BY <1>1 DEF DedupInv, NoEarlyRepeat, Now, Handed, TypeOK
  <1>2. ASSUME NEW k \in Task, Stamp(k) PROVE DedupInv' /\ NoEarlyRepeat
    <2>1. PICK n \in Node, x \in Text :
            \/ UNCHANGED <<recvIds, handed>>
            \/ /\ recvIds[n][x] = None
               /\ recvIds' = [recvIds EXCEPT ![n][x] = Now(n)]
               /\ handed' = [handed EXCEPT ![n][x] =
                               [times |-> @.times + 1, last |-> Now(n)]]
      BY <1>2, StampCases
    <2>2. clock' = clock
      BY <1>2 DEF Stamp
    <2>3. CASE UNCHANGED <<recvIds, handed>>
      BY <1>1, <2>2, <2>3
    <2>4. CASE ~UNCHANGED <<recvIds, handed>>
      <3>1. /\ recvIds[n][x] = None
            /\ recvIds'[n][x] = Now(n) /\ Now(n) \in Nat
            /\ handed'[n][x].times = handed[n][x].times + 1
            /\ handed'[n][x].last = Now(n)
        BY <2>1, <2>4, NowType DEF TypeOK
      <3>2. \A m \in Node, y \in Text : <<m, y>> # <<n, x>> =>
              recvIds'[m][y] = recvIds[m][y] /\ handed'[m][y] = handed[m][y]
        BY <2>1, <2>4 DEF TypeOK
      <3>3. \A m \in Node : Now(m)' = Now(m)
        BY <2>2 DEF Now
      <3>4. handed[n][x].times \in Nat /\ handed[n][x].last \in Nat
        BY DEF TypeOK
      <3>5. Handed(n, x) => Now(n) - handed[n][x].last > Window
        BY <3>1 DEF DedupInv
      <3>6. ASSUME NEW m \in Node, NEW y \in Text
            PROVE  /\ handed'[m][y].times > handed[m][y].times /\ handed[m][y].times > 0
                        => handed'[m][y].last - handed[m][y].last > Window
                   /\ Handed(m, y)' => IF recvIds'[m][y] = None
                                       THEN Now(m)' - handed'[m][y].last > Window
                                       ELSE recvIds'[m][y] = handed'[m][y].last
        <4>1. CASE <<m, y>> = <<n, x>>
          BY <3>1, <3>4, <3>5, <4>1, NoneAssumption DEF Handed
        <4>2. CASE <<m, y>> # <<n, x>>
          <5>1. handed[m][y].times \in Nat
            BY DEF TypeOK
          <5> QED BY <3>2, <3>3, <4>2, <5>1 DEF Handed, DedupInv
        <4> QED BY <4>1, <4>2
      <3> QED BY <3>6 DEF DedupInv, NoEarlyRepeat
    <2> QED BY <2>3, <2>4
  <1>3. ASSUME NEW n \in Node, Prune(n) PROVE DedupInv' /\ NoEarlyRepeat
    <2>1. PICK now \in 0 .. Now(n) :
            recvIds' = [recvIds EXCEPT ![n] =
                          [x \in Text |-> IF @[x] # None /\ now - @[x] > Window
                                          THEN None ELSE @[x]]]
      BY <1>3 DEF Prune
    <2>2. UNCHANGED <<clock, handed>>
      BY <1>3 DEF Prune
    <2>3. NoEarlyRepeat
      BY <2>2 DEF NoEarlyRepeat, TypeOK
    <2>4. ASSUME NEW m \in Node, NEW x \in Text, Handed(m, x)
          PROVE  IF recvIds'[m][x] = None
                 THEN Now(m) - handed[m][x].last > Window
                 ELSE recvIds'[m][x] = handed[m][x].last
      <3>1. CASE recvIds'[m][x] = recvIds[m][x]
        BY <2>4, <3>1 DEF DedupInv
      <3>2. CASE recvIds'[m][x] # recvIds[m][x]
        <4>1. m = n /\ recvIds[n][x] # None /\ recvIds'[m][x] = None
              /\ now - recvIds[n][x] > Window
          BY <2>1, <3>2 DEF TypeOK
        <4>2. recvIds[n][x] = handed[n][x].last
          BY <2>4, <4>1 DEF DedupInv
        <4>3. handed[n][x].last \in Nat /\ Now(n) \in Nat /\ now \in Nat /\ now <= Now(n)
          BY NowType DEF TypeOK
        <4> QED BY <4>1, <4>2, <4>3, TimeTypes
      <3> QED BY <3>1, <3>2
    <2>5. DedupInv'
      BY <2>2, <2>4 DEF DedupInv, Handed, Now
    <2> QED BY <2>3, <2>5
  <1>8. CASE Network
    BY <1>1, <1>8 DEF Network, Lose
  <1>4. ASSUME Tick PROVE DedupInv' /\ NoEarlyRepeat
    <2>1. clock \in Nat /\ clock' = clock + 1 /\ UNCHANGED <<recvIds, handed>>
      BY <1>4 DEF Tick, TypeOK
    <2>2. \A n \in Node : Skew[n] \in Nat
      BY TimeAssumption
    <2>3. \A n \in Node, x \in Text : handed[n][x].last \in Nat /\ handed[n][x].times \in Nat
      BY DEF TypeOK
    <2> QED BY <2>1, <2>2, <2>3, TimeTypes DEF DedupInv, NoEarlyRepeat, Now, Handed
  <1>5. CASE UNCHANGED vars
    BY <1>1, <1>5 DEF vars
  <1>6. CASE Send
    BY <1>1, <1>6 DEF Send, QueueMsg, PipeSend, PipeOk, PipeTimeout, PipeEnd, PublishMsg, ReceiveAck
  <1>7. CASE Receive
    BY <1>1, <1>2, <1>7 DEF Receive, ReceiveAcked, ReceiveMsg, QueueAck, PublishAck
  <1> QED BY <1>3, <1>4, <1>5, <1>6, <1>7, <1>8 DEF Next

\* Handlers are never given the same text twice within the window, for any
\* skew, any number of concurrent readers and any time the table is pruned at.
THEOREM DedupCorrect == Spec => DedupWindow
  <1>1. TypeOK /\ DedupInv /\ [Next]_vars => [NoEarlyRepeat]_vars
    BY DedupNext
  <1> QED BY <1>1, TypeInit, TypeNext, DedupInit, DedupNext, PTL DEF Spec, DedupWindow

-----------------------------------------------------------------------------
(* The contract.  Every packet, task and ack can be traced back to the       *)
(* request it is about, and an entry of msg_queues[MSG] to the packets made  *)
(* from it.                                                                  *)

\* r is the request packet p of broker b was made from.
MadeFrom(p, r, b) ==
  /\ outcome[r] # "new"
  /\ p.src = r.src /\ p.dst = r.dst /\ p.queue = r.queue /\ p.text = r.text
  /\ \/ sent[r][b] # None /\ sent[r][b].seq = p.seq
     \/ r \in PipeRequest /\ sent[r][b] = None

WireInv ==
  \A b \in Broker : \A p \in msgWire[b] : \E r \in Request : MadeFrom(p, r, b)

SentInv ==
  /\ \A r \in Request, b \in Broker : sent[r][b] # None => outcome[r] # "new"
  /\ \A r, q \in Request, b \in Broker :
       /\ r # q /\ r.src = q.src /\ r.queue = q.queue
       /\ sent[r][b] # None /\ sent[q][b] # None
       => sent[r][b].seq # sent[q][b].seq
  /\ \A r \in QueueRequest, b \in Broker : sent[r][b] # None =>
       /\ outcome[r] = IF sent[r][b].acked THEN "ok" ELSE "sending"
       /\ \A d \in Broker : sent[r][d] # None => d = b

TaskOK(k) ==
  task[k] # Idle =>
    /\ task[k].pkt \in msgWire[task[k].broker]
    /\ task[k].pkt.dst = task[k].node
    /\ task[k].pc = "ack" => Handed(task[k].node, task[k].pkt.text)

RememberedOK == \A n \in Node, x \in Text : recvIds[n][x] # None => Handed(n, x)

TaskInv == (\A k \in Task : TaskOK(k)) /\ RememberedOK

\* Node n was handed the text of a message from m with this queue and seq.
HandedFor(n, m, b, queue, seq) ==
  \E p \in msgWire[b] : /\ p.dst = n /\ p.src = m /\ p.queue = queue /\ p.seq = seq
                        /\ Handed(n, p.text)

AckInv ==
  /\ \A n \in Node, b \in Broker : \A a \in ackq[n][b] :
       HandedFor(n, a.dst, b, a.queue, a.seq)
  /\ \A b \in Broker : \A a \in ackWire[b] :
       HandedFor(a.src, a.dst, b, a.queue, a.seq)

AckedInv ==
  \A r \in Request, b \in Broker :
    sent[r][b] # None => (sent[r][b].acked => Handed(r.dst, r.text))

DeliveryInv == TypeOK /\ WireInv /\ SentInv /\ TaskInv /\ AckInv /\ AckedInv

\* The fields of a request have their types.
LEMMA RequestType ==
  ASSUME NEW r \in Request
  PROVE  r.src \in Node /\ r.dst \in Node /\ r.queue \in Queue /\ r.text \in Text
  BY RequestAssumption

\* What is on the wire stays there, a text handed over stays handed over, and
\* a request once made stays made.
LEMMA Growth ==
  ASSUME TypeOK, [Next]_vars
  PROVE  /\ \A b \in Broker : msgWire[b] \subseteq msgWire'[b]
         /\ \A n \in Node, x \in Text : Handed(n, x) => Handed(n, x)'
         /\ \A r \in Request : outcome[r] # "new" => outcome'[r] # "new"
  <1>1. \A b \in Broker : msgWire[b] \subseteq msgWire'[b]
    <2>1. ASSUME NEW r \in Request, NEW b \in Broker, PublishMsg(r, b)
          PROVE  \A d \in Broker : msgWire[d] \subseteq msgWire'[d]
      BY <2>1 DEF PublishMsg, TypeOK
    <2>2. ASSUME UNCHANGED msgWire PROVE \A d \in Broker : msgWire[d] \subseteq msgWire'[d]
      BY <2>2
    <2> QED BY <2>1, <2>2 DEF Next, Send, Receive, vars, QueueMsg, PipeSend, PipeOk,
            PipeTimeout, PipeEnd, ReceiveAck, ReceiveAcked, ReceiveMsg,
            Stamp, QueueAck, PublishAck, Prune, Tick, Network, Lose
  <1>2. \A n \in Node, x \in Text : Handed(n, x) => Handed(n, x)'
    <2>1. ASSUME NEW k \in Task, Stamp(k), NEW m \in Node, NEW y \in Text, Handed(m, y)
          PROVE  Handed(m, y)'
      <3>1. PICK n \in Node, x \in Text :
              \/ UNCHANGED <<recvIds, handed>>
              \/ handed' = [handed EXCEPT ![n][x] =
                              [times |-> @.times + 1, last |-> Now(n)]]
        BY <2>1, StampCases
      <3>2. handed[m][y].times \in Nat
        BY DEF TypeOK
      <3>3. handed[m][y].times > 0
        BY <2>1 DEF Handed
      <3>4. \/ handed'[m][y] = handed[m][y]
            \/ handed'[m][y].times = handed[m][y].times + 1
        <4>1. CASE UNCHANGED <<recvIds, handed>>
          BY <4>1
        <4>2. CASE handed' = [handed EXCEPT ![n][x] =
                                [times |-> @.times + 1, last |-> Now(n)]]
          <5>1. CASE m = n /\ y = x
            BY <4>2, <5>1 DEF TypeOK
          <5>2. CASE ~(m = n /\ y = x)
            BY <4>2, <5>2 DEF TypeOK
          <5> QED BY <5>1, <5>2
        <4> QED BY <3>1, <4>1, <4>2
      <3>5. handed'[m][y].times > 0
        BY <3>2, <3>3, <3>4
      <3> QED BY <3>5 DEF Handed
    <2>2. ASSUME UNCHANGED handed
          PROVE  \A n \in Node, x \in Text : Handed(n, x) => Handed(n, x)'
      BY <2>2 DEF Handed
    <2> QED BY <2>1, <2>2 DEF Next, Send, Receive, vars, QueueMsg, PipeSend, PipeOk,
            PipeTimeout, PipeEnd, PublishMsg, ReceiveAck, ReceiveAcked,
            ReceiveMsg, QueueAck, PublishAck, Prune, Tick, Network, Lose
  <1>3. \A r \in Request : outcome[r] # "new" => outcome'[r] # "new"
    <2>1. ASSUME UNCHANGED outcome
          PROVE  \A r \in Request : outcome[r] # "new" => outcome'[r] # "new"
      BY <2>1
    <2>2. ASSUME NEW q \in Request,
                 \/ outcome' = [outcome EXCEPT ![q] = "sending"]
                 \/ outcome' = [outcome EXCEPT ![q] = "ok"]
                 \/ outcome' = [outcome EXCEPT ![q] = "failed"]
          PROVE  \A r \in Request : outcome[r] # "new" => outcome'[r] # "new"
      BY <2>2 DEF TypeOK
    <2>3. CASE Send
      BY <2>1, <2>2, <2>3 DEF Send, QueueMsg, PipeSend, PipeOk, PipeTimeout, PipeEnd,
           PublishMsg, ReceiveAck, Request
    <2> QED BY <2>1, <2>3 DEF Next, Receive, vars, ReceiveAcked, ReceiveMsg, Stamp,
            QueueAck, PublishAck, Prune, Tick, Network, Lose
  <1> QED BY <1>1, <1>2, <1>3

\* Every way the entries of msg_queues[MSG] change.
LEMMA SentCases ==
  ASSUME TypeOK, [Next]_vars
  PROVE  \/ UNCHANGED <<sent, outcome>>
         \/ \E r \in QueueRequest, b \in Broker : QueueMsg(r, b)
         \/ \E r \in PipeRequest : PipeSend(r)
         \/ \E r \in PipeRequest : PipeOk(r) \/ PipeTimeout(r)
         \/ \E r \in Request, b \in Broker : \E a \in ackWire[b] : ReceiveAck(r, b, a)
  BY DEF Next, Send, Receive, vars, PublishMsg, ReceiveAcked, ReceiveMsg,
         Stamp, QueueAck, PublishAck, Prune, Tick, Network, Lose

\* Entries of msg_queues[MSG] keep a sequence number of their own per queue.
LEMMA SentNext ==
  ASSUME TypeOK, TypeOK', SentInv, [Next]_vars
  PROVE  SentInv'
  <1>1. CASE UNCHANGED <<sent, outcome>>
    BY <1>1 DEF SentInv
  <1>2. ASSUME NEW r \in QueueRequest, NEW b \in Broker, QueueMsg(r, b) PROVE SentInv'
    <2>1. PICK s \in NextSeqs(SeqsInUse(r, b)) :
            sent' = [sent EXCEPT ![r][b] = NewEntry(r, s)]
      BY <1>2 DEF QueueMsg
    <2>2. r \in Request /\ s \in Nat /\ NewEntry(r, s) \in SentEntry
      BY <2>1, NextSeqType, NewEntryType DEF Request
    <2>3. \A d \in Broker : sent[r][d] = None
      BY <1>2, <2>2 DEF QueueMsg, SentInv
    <2>4. /\ sent'[r][b] = NewEntry(r, s) /\ sent'[r][b] # None
          /\ sent'[r][b].seq = s /\ sent'[r][b].acked = FALSE
          /\ \A d \in Broker : d # b => sent'[r][d] = None
      BY <2>1, <2>2, <2>3, NoneAssumption DEF TypeOK, NewEntry, SentEntry
    <2>5. \A q \in Request : q # r => sent'[q] = sent[q] /\ outcome'[q] = outcome[q]
      BY <1>2, <2>1 DEF QueueMsg, TypeOK
    <2>6. outcome'[r] = "sending"
      BY <1>2, <2>2 DEF QueueMsg, TypeOK
    <2>7. \A q \in Request : /\ q # r /\ q.src = r.src /\ q.queue = r.queue
                             /\ sent[q][b] # None
                             => sent[q][b].seq < s /\ sent[q][b].seq \in Nat
      <3>1. \A x \in SeqsInUse(r, b) : x < s
        BY <2>1 DEF NextSeqs
      <3> QED BY <3>1 DEF SeqsInUse, TypeOK, SentEntry
    <2>8. \A q, o \in Request, d \in Broker :
            /\ q # o /\ q.src = o.src /\ q.queue = o.queue
            /\ sent'[q][d] # None /\ sent'[o][d] # None
            => sent'[q][d].seq # sent'[o][d].seq
      BY <2>2, <2>4, <2>5, <2>7 DEF SentInv
    <2>9. \A q \in Request, d \in Broker : sent'[q][d] # None => outcome'[q] # "new"
      BY <2>5, <2>6 DEF SentInv
    <2>10. \A q \in QueueRequest, d \in Broker : sent'[q][d] # None =>
             /\ outcome'[q] = IF sent'[q][d].acked THEN "ok" ELSE "sending"
             /\ \A e \in Broker : sent'[q][e] # None => e = d
      BY <2>4, <2>5, <2>6 DEF SentInv, Request
    <2> QED BY <2>8, <2>9, <2>10 DEF SentInv
  <1>3. ASSUME NEW r \in PipeRequest, PipeSend(r) PROVE SentInv'
    <2>1. r \in Request /\ r \notin QueueRequest
      BY RequestAssumption DEF Request
    <2>2. \A q \in Request : q # r => /\ sent'[q] = sent[q] /\ outcome'[q] = outcome[q]
                                      /\ q.queue # r.queue
      BY <1>3, FreshQueueAssumption DEF PipeSend, TypeOK
    <2>3. outcome'[r] = "sending"
      BY <1>3, <2>1 DEF PipeSend, TypeOK
    <2> QED BY <2>1, <2>2, <2>3 DEF SentInv, Request
  <1>4. ASSUME NEW r \in PipeRequest, PipeOk(r) \/ PipeTimeout(r) PROVE SentInv'
    <2>1. r \in Request /\ r \notin QueueRequest
      BY RequestAssumption DEF Request
    <2>2. \A q \in Request : q # r => sent'[q] = sent[q] /\ outcome'[q] = outcome[q]
      BY <1>4 DEF PipeOk, PipeTimeout, PipeEnd, TypeOK
    <2>3. \A b \in Broker : sent'[r][b] = None
      BY <1>4, <2>1 DEF PipeOk, PipeTimeout, PipeEnd, TypeOK
    <2> QED BY <2>1, <2>2, <2>3 DEF SentInv, Request
  <1>5. ASSUME NEW r \in Request, NEW b \in Broker, NEW a \in ackWire[b],
               ReceiveAck(r, b, a)
        PROVE  SentInv'
    <2>1. /\ sent[r][b] \in SentEntry /\ sent[r][b] # None
          /\ sent' = [sent EXCEPT ![r][b] = [sent[r][b] EXCEPT !.acked = TRUE]]
      BY <1>5 DEF ReceiveAck, TypeOK
    <2>2. [sent[r][b] EXCEPT !.acked = TRUE].seq = sent[r][b].seq
      BY <2>1 DEF SentEntry
    <2>3. [sent[r][b] EXCEPT !.acked = TRUE].acked = TRUE
      BY <2>1 DEF SentEntry
    <2>4. /\ sent'[r][b].seq = sent[r][b].seq /\ sent'[r][b].acked = TRUE
          /\ \A d \in Broker : d # b => sent'[r][d] = sent[r][d]
          /\ \A q \in Request : q # r => sent'[q] = sent[q]
      BY <2>1, <2>2, <2>3 DEF TypeOK
    <2>5. \A q \in Request, d \in Broker : sent'[q][d] # None =>
            sent[q][d] # None /\ sent'[q][d].seq = sent[q][d].seq
      BY <2>1, <2>4
    <2>6. \A q \in Request : outcome'[q] = IF q = r /\ r \in QueueRequest
                                           THEN "ok" ELSE outcome[q]
      BY <1>5 DEF ReceiveAck, TypeOK
    <2>7. \A q \in QueueRequest, d \in Broker : sent'[q][d] # None =>
             /\ outcome'[q] = IF sent'[q][d].acked THEN "ok" ELSE "sending"
             /\ \A e \in Broker : sent'[q][e] # None => e = d
      <3> SUFFICES ASSUME NEW q \in QueueRequest, NEW d \in Broker, sent'[q][d] # None
                   PROVE  /\ outcome'[q] = IF sent'[q][d].acked THEN "ok" ELSE "sending"
                          /\ \A e \in Broker : sent'[q][e] # None => e = d
        OBVIOUS
      <3>1. q \in Request
        BY DEF Request
      <3>2. \A e \in Broker : sent'[q][e] # None => e = d
        BY <2>5, <3>1 DEF SentInv
      <3>3. CASE q = r
        <4>1. d = b
          BY <2>1, <2>5, <3>1, <3>3 DEF SentInv
        <4> QED BY <2>4, <2>6, <3>1, <3>2, <3>3, <4>1
      <3>4. CASE q # r
        BY <2>4, <2>6, <3>1, <3>2, <3>4 DEF SentInv
      <3> QED BY <3>3, <3>4
    <2>8. \A q \in Request, d \in Broker : sent'[q][d] # None => outcome'[q] # "new"
      BY <2>5, <2>6 DEF SentInv
    <2>9. \A q, o \in Request, d \in Broker :
            /\ q # o /\ q.src = o.src /\ q.queue = o.queue
            /\ sent'[q][d] # None /\ sent'[o][d] # None
            => sent'[q][d].seq # sent'[o][d].seq
      BY <2>5 DEF SentInv
    <2> QED BY <2>7, <2>8, <2>9 DEF SentInv
  <1> QED BY <1>1, <1>2, <1>3, <1>4, <1>5, SentCases

\* A packet keeps the request it was made from.
LEMMA MadeFromStable ==
  ASSUME TypeOK, SentInv, [Next]_vars,
         NEW p, NEW r \in Request, NEW b \in Broker, MadeFrom(p, r, b)
  PROVE  MadeFrom(p, r, b)'
  <1>1. outcome'[r] # "new"
    BY Growth DEF MadeFrom
  <1>2. \/ sent'[r][b] # None /\ sent'[r][b].seq = p.seq
        \/ r \in PipeRequest /\ sent'[r][b] = None
    <2>1. CASE UNCHANGED <<sent, outcome>>
      BY <2>1 DEF MadeFrom
    <2>2. ASSUME NEW q \in QueueRequest, NEW d \in Broker, QueueMsg(q, d)
          PROVE  sent'[r] = sent[r]
      BY <2>2 DEF QueueMsg, MadeFrom, TypeOK
    <2>3. ASSUME NEW q \in PipeRequest, PipeSend(q) PROVE sent'[r] = sent[r]
      BY <2>3 DEF PipeSend, MadeFrom, TypeOK
    <2>4. ASSUME NEW q \in PipeRequest, PipeOk(q) \/ PipeTimeout(q)
          PROVE  sent'[r] = sent[r] \/ (r = q /\ sent'[r][b] = None)
      BY <2>4 DEF PipeOk, PipeTimeout, PipeEnd, TypeOK
    <2>5. ASSUME NEW q \in Request, NEW d \in Broker, NEW a \in ackWire[d],
                 ReceiveAck(q, d, a)
          PROVE  IF sent[r][b] = None THEN sent'[r][b] = None
                 ELSE sent'[r][b] # None /\ sent'[r][b].seq = sent[r][b].seq
      <3>1. CASE r = q /\ b = d
        <4>1. /\ sent[r][b] \in SentEntry /\ sent[r][b] # None
              /\ sent' = [sent EXCEPT ![r][b] = [sent[r][b] EXCEPT !.acked = TRUE]]
          BY <2>5, <3>1 DEF ReceiveAck, TypeOK
        <4>2. /\ [sent[r][b] EXCEPT !.acked = TRUE].seq = sent[r][b].seq
              /\ [sent[r][b] EXCEPT !.acked = TRUE] # None
          BY <4>1, AckedEntryType, NoneAssumption DEF SentEntry
        <4> QED BY <4>1, <4>2 DEF TypeOK
      <3>2. CASE ~(r = q /\ b = d)
        BY <2>5, <3>2 DEF ReceiveAck, TypeOK
      <3> QED BY <3>1, <3>2
    <2> QED BY <2>1, <2>2, <2>3, <2>4, <2>5, SentCases DEF MadeFrom
  <1> QED BY <1>1, <1>2 DEF MadeFrom

\* Every MSG packet ever published names a request that was made.
LEMMA WireNext ==
  ASSUME TypeOK, SentInv, WireInv, [Next]_vars
  PROVE  WireInv'
  <1> SUFFICES ASSUME NEW b \in Broker, NEW p \in msgWire'[b]
               PROVE  \E r \in Request : MadeFrom(p, r, b)'
    BY DEF WireInv
  <1>1. CASE p \in msgWire[b]
    BY <1>1, MadeFromStable DEF WireInv
  <1>2. CASE p \notin msgWire[b]
    <2>1. PICK r \in Request : PublishMsg(r, b) /\ p = MsgPacketOf(r, b)
      <3>1. PICK r \in Request, d \in Broker : PublishMsg(r, d)
        BY <1>2 DEF Next, Send, Receive, vars, QueueMsg, PipeSend, PipeOk,
           PipeTimeout, PipeEnd, ReceiveAck, ReceiveAcked,
           ReceiveMsg, Stamp, QueueAck, PublishAck, Prune, Tick, Network, Lose
      <3>2. d = b /\ p = MsgPacketOf(r, b)
        BY <1>2, <3>1 DEF PublishMsg, TypeOK
      <3> QED BY <3>1, <3>2
    <2>2. MadeFrom(p, r, b)
      BY <2>1 DEF PublishMsg, MsgPacketOf, MadeFrom, SentInv
    <2> QED BY <2>2, MadeFromStable
  <1> QED BY <1>1, <1>2

\* A run of process_app_msg that goes from its hash to its ack is still a run.
LEMMA AckTask ==
  ASSUME NEW t \in Running
  PROVE  /\ [t EXCEPT !.pc = "ack"].pkt = t.pkt
         /\ [t EXCEPT !.pc = "ack"].broker = t.broker
         /\ [t EXCEPT !.pc = "ack"].node = t.node
  BY DEF Running

\* Every run of process_app_msg works for a packet on the wire, and one that
\* is about to queue its ack had its text handed over.
LEMMA TaskNext ==
  ASSUME TypeOK, TypeOK', TaskInv, [Next]_vars
  PROVE  TaskInv'
  <1>0. /\ \A b \in Broker : msgWire[b] \subseteq msgWire'[b]
        /\ \A n \in Node, x \in Text : Handed(n, x) => Handed(n, x)'
    BY Growth
  <1>1. ASSUME NEW k \in Task, task'[k] = task[k] \/ task'[k] = Idle
        PROVE  TaskOK(k)'
    <2>1. CASE task'[k] = Idle
      BY <2>1 DEF TaskOK
    <2>2. CASE task'[k] # Idle
      <3>1. task'[k] = task[k] /\ task[k] \in Running
        BY <1>1, <2>2 DEF TypeOK
      <3>2. task[k].broker \in Broker /\ task[k].node \in Node /\ task[k].pkt.text \in Text
        BY <3>1 DEF Running, MsgPacket
      <3>3. TaskOK(k) /\ task[k] # Idle
        BY <2>2, <3>1 DEF TaskInv
      <3>4. task[k].pkt \in msgWire'[task[k].broker]
        BY <1>0, <3>2, <3>3 DEF TaskOK
      <3>5. task[k].pc = "ack" => handed'[task[k].node][task[k].pkt.text].times > 0
        BY <1>0, <3>2, <3>3 DEF TaskOK, Handed
      <3> QED BY <3>1, <3>3, <3>4, <3>5 DEF TaskOK, Handed
    <2> QED BY <2>1, <2>2
  <1>2. ASSUME \A n \in Node, x \in Text : recvIds'[n][x] # None => recvIds[n][x] # None
        PROVE  RememberedOK'
    BY <1>0, <1>2 DEF TaskInv, RememberedOK
  <1>3. ASSUME UNCHANGED <<task, recvIds>> PROVE TaskInv'
    BY <1>1, <1>2, <1>3 DEF TaskInv
  <1>4. ASSUME NEW n \in Node, NEW b \in Broker, NEW k \in Task, NEW p \in msgWire[b],
               ReceiveMsg(n, b, p, k)
        PROVE  TaskInv'
    <2>1. /\ task'[k] = [pc |-> "hash", node |-> n, broker |-> b, pkt |-> p]
          /\ \A j \in Task : j # k => task'[j] = task[j]
          /\ p.dst = n
      BY <1>4 DEF ReceiveMsg, Accepts, TypeOK
    <2>2. RememberedOK'
      BY <1>2, <1>4 DEF ReceiveMsg
    <2>3. TaskOK(k)'
      BY <1>0, <2>1 DEF TaskOK
    <2> QED BY <1>1, <2>1, <2>2, <2>3 DEF TaskInv
  <1>5. ASSUME NEW k \in Task, Stamp(k) PROVE TaskInv'
    <2>1. PICK n \in Node, x \in Text :
           /\ n = task[k].node /\ x = task[k].pkt.text
           /\ task[k] \in Running
           /\ \/ /\ recvIds[n][x] # None
                 /\ UNCHANGED <<recvIds, handed>>
              \/ /\ recvIds[n][x] = None
                 /\ recvIds' = [recvIds EXCEPT ![n][x] = Now(n)]
                 /\ handed' = [handed EXCEPT ![n][x] =
                                 [times |-> @.times + 1, last |-> Now(n)]]
      BY <1>5, StampCases
    <2>2. Handed(n, x)'
      <3>1. CASE recvIds[n][x] # None
        BY <1>0, <3>1 DEF TaskInv, RememberedOK
      <3>2. CASE recvIds[n][x] = None
        <4>1. handed'[n][x].times = handed[n][x].times + 1 /\ handed[n][x].times \in Nat
          BY <2>1, <3>2 DEF TypeOK
        <4> QED BY <4>1 DEF Handed
      <3> QED BY <3>1, <3>2
    <2>3. ASSUME NEW m \in Node, NEW y \in Text, recvIds'[m][y] # None
          PROVE  Handed(m, y)'
      <3>1. CASE m = n /\ y = x
        BY <2>2, <3>1
      <3>2. CASE ~(m = n /\ y = x)
        <4>1. recvIds'[m][y] = recvIds[m][y]
          BY <2>1, <3>2 DEF TypeOK
        <4> QED BY <1>0, <2>3, <4>1 DEF TaskInv, RememberedOK
      <3> QED BY <3>1, <3>2
    <2>4. /\ task' = [task EXCEPT ![k] = [task[k] EXCEPT !.pc = "ack"]]
          /\ task[k] # Idle
      BY <1>5 DEF Stamp, Idle
    <2>5. /\ \A j \in Task : j # k => task'[j] = task[j]
          /\ task'[k] = [task[k] EXCEPT !.pc = "ack"]
      BY <2>4 DEF TypeOK
    <2>6. /\ task'[k].pkt = task[k].pkt /\ task'[k].broker = task[k].broker
          /\ task'[k].node = task[k].node
      BY <2>1, <2>5, AckTask
    <2>7. task[k].broker \in Broker
      BY <2>1 DEF Running
    <2>8. TaskOK(k)
      BY DEF TaskInv
    <2>9. TaskOK(k)'
      BY <1>0, <2>1, <2>2, <2>4, <2>6, <2>7, <2>8 DEF TaskOK
    <2> QED BY <1>1, <2>3, <2>5, <2>9 DEF TaskInv, RememberedOK
  <1>6. ASSUME NEW k \in Task, QueueAck(k) PROVE TaskInv'
    <2>1. \A j \in Task : task'[j] = task[j] \/ task'[j] = Idle
      BY <1>6 DEF QueueAck, TypeOK
    <2>2. RememberedOK'
      BY <1>2, <1>6 DEF QueueAck
    <2> QED BY <1>1, <2>1, <2>2 DEF TaskInv
  <1>7. ASSUME NEW n \in Node, Prune(n) PROVE TaskInv'
    <2>1. \A m \in Node, y \in Text : recvIds'[m][y] # None => recvIds[m][y] # None
      <3>1. PICK now \in 0 .. Now(n) :
              recvIds' = [recvIds EXCEPT ![n] =
                            [x \in Text |-> IF @[x] # None /\ now - @[x] > Window
                                            THEN None ELSE @[x]]]
        BY <1>7 DEF Prune
      <3> QED BY <3>1 DEF TypeOK
    <2>2. \A k \in Task : TaskOK(k)'
      BY <1>1, <1>7 DEF Prune
    <2> QED BY <1>2, <2>1, <2>2 DEF TaskInv
  <1>8. CASE Send
    BY <1>3, <1>8 DEF Send, QueueMsg, PipeSend, PipeOk, PipeTimeout, PipeEnd, PublishMsg, ReceiveAck
  <1>9. CASE Receive
    BY <1>3, <1>4, <1>5, <1>6, <1>9 DEF Receive, ReceiveAcked, PublishAck
  <1>10. CASE Network \/ Tick \/ UNCHANGED vars
    BY <1>3, <1>10 DEF Network, Lose, Tick, vars
  <1> QED BY <1>7, <1>8, <1>9, <1>10 DEF Next

\* That a packet's text was handed over stays true.
LEMMA HandedForStable ==
  ASSUME TypeOK, [Next]_vars, NEW n \in Node, NEW m, NEW b \in Broker, NEW queue, NEW seq,
         HandedFor(n, m, b, queue, seq)
  PROVE  HandedFor(n, m, b, queue, seq)'
  <1>1. PICK p \in msgWire[b] : /\ p.dst = n /\ p.src = m /\ p.queue = queue /\ p.seq = seq
                                /\ Handed(n, p.text)
    BY DEF HandedFor
  <1>2. p \in msgWire'[b] /\ p.text \in Text
    BY Growth DEF TypeOK, MsgPacket
  <1>3. Handed(n, p.text)'
    BY <1>1, <1>2, Growth
  <1> QED BY <1>1, <1>2, <1>3 DEF HandedFor

\* Every ack, queued or published, is for a text that was handed over.
LEMMA AckNext ==
  ASSUME TypeOK, TaskInv, AckInv, [Next]_vars
  PROVE  AckInv'
  <1>1. ASSUME NEW n \in Node, NEW b \in Broker, NEW a \in ackq'[n][b]
        PROVE  HandedFor(n, a.dst, b, a.queue, a.seq)'
    <2>1. CASE a \in ackq[n][b]
      BY <2>1, HandedForStable DEF AckInv
    <2>2. CASE a \notin ackq[n][b]
      <3>1. \/ UNCHANGED ackq
            \/ \E m \in Node, d \in Broker : \E p \in msgWire[d] :
                  ackq' = [ackq EXCEPT ![m][d] = PruneAcks(@, p)]
            \/ \E k \in Task : QueueAck(k)
        BY DEF Next, Send, Receive, vars, QueueMsg, PipeSend, PipeOk, PipeTimeout,
           PipeEnd, PublishMsg, ReceiveAck, ReceiveAcked, ReceiveMsg, Stamp,
           PublishAck, Prune, Tick, Network, Lose
      <3>2. ASSUME NEW m \in Node, NEW d \in Broker, NEW p \in msgWire[d],
                   ackq' = [ackq EXCEPT ![m][d] = PruneAcks(@, p)]
            PROVE  FALSE
        <4>1. PruneAcks(ackq[m][d], p) \subseteq ackq[m][d]
          BY DEF PruneAcks
        <4>2. ackq'[n][b] \subseteq ackq[n][b]
          BY <3>2, <4>1 DEF TypeOK
        <4> QED BY <2>2, <4>2
      <3>3. PICK k \in Task : QueueAck(k)
        BY <2>2, <3>1, <3>2
      <3> DEFINE p == task[k].pkt
                 new == [queue |-> p.queue, seq |-> p.seq, dst |-> p.src,
                         created |-> clock]
      <3>4. task[k] \in Running /\ task[k] # Idle /\ task[k].pc = "ack"
        BY <3>3 DEF QueueAck, TypeOK, Idle
      <3>5. task[k].node \in Node /\ task[k].broker \in Broker
        BY <3>4 DEF Running
      <3>6. n = task[k].node /\ b = task[k].broker /\ a = new
        BY <2>2, <3>3, <3>5 DEF QueueAck, TypeOK
      <3>7. p \in msgWire[b] /\ p.dst = n /\ Handed(n, p.text)
        BY <3>4, <3>6 DEF TaskInv, TaskOK
      <3>8. a.dst = p.src /\ a.queue = p.queue /\ a.seq = p.seq
        BY <3>6
      <3>9. HandedFor(n, a.dst, b, a.queue, a.seq)
        BY <3>7, <3>8 DEF HandedFor
      <3> QED BY <3>9, HandedForStable
    <2> QED BY <2>1, <2>2
  <1>2. ASSUME NEW b \in Broker, NEW a \in ackWire'[b]
        PROVE  HandedFor(a.src, a.dst, b, a.queue, a.seq)'
    <2>1. CASE a \in ackWire[b]
      <3>1. a.src \in Node
        BY <2>1 DEF TypeOK, AckPacket
      <3> QED BY <2>1, <3>1, HandedForStable DEF AckInv
    <2>2. CASE a \notin ackWire[b]
      <3>1. PICK n \in Node, d \in Broker : \E x \in ackq[n][d] :
              ackWire' = [ackWire EXCEPT ![d] = @ \cup {AckPacketOf(n, x)}]
        <4>1. ASSUME NEW n \in Node, NEW d \in Broker, NEW p \in msgWire[d],
                     ReceiveAcked(n, d, p)
              PROVE  \E x \in ackq[n][d] :
                       ackWire' = [ackWire EXCEPT ![d] = @ \cup {AckPacketOf(n, x)}]
          BY <4>1 DEF ReceiveAcked, AckFor, PruneAcks
        <4>2. ASSUME NEW n \in Node, NEW d \in Broker, NEW x \in ackq[n][d],
                     PublishAck(n, d, x)
              PROVE  ackWire' = [ackWire EXCEPT ![d] = @ \cup {AckPacketOf(n, x)}]
          BY <4>2 DEF PublishAck
        <4>3. ackWire' # ackWire
          BY <2>2
        <4>4. ~Send /\ ~Network /\ ~(\E n \in Node : Prune(n)) /\ ~Tick /\ ~UNCHANGED vars
          BY <4>3 DEF Send, vars, QueueMsg, PipeSend, PipeOk, PipeTimeout, PipeEnd,
             PublishMsg, ReceiveAck, Prune, Tick, Network, Lose
        <4>5. Receive
          BY <4>4 DEF Next
        <4>6. \/ \E n \in Node, d \in Broker : \E p \in msgWire[d] : ReceiveAcked(n, d, p)
              \/ \E n \in Node, d \in Broker : \E x \in ackq[n][d] : PublishAck(n, d, x)
          BY <4>3, <4>5 DEF Receive, ReceiveMsg, Stamp, QueueAck
        <4> QED BY <4>1, <4>2, <4>6
      <3>2. PICK x \in ackq[n][d] : d = b /\ a = AckPacketOf(n, x)
        BY <2>2, <3>1 DEF TypeOK
      <3>3. a.src = n /\ a.dst = x.dst /\ a.queue = x.queue /\ a.seq = x.seq
        BY <3>2 DEF AckPacketOf
      <3>4. HandedFor(n, x.dst, b, x.queue, x.seq)
        BY <3>2 DEF AckInv
      <3> QED BY <3>3, <3>4, HandedForStable
    <2> QED BY <2>1, <2>2
  <1> QED BY <1>1, <1>2 DEF AckInv

\* The packet an entry's queue and sequence number name is the entry's own.
LEMMA SeqNamesText ==
  ASSUME SentInv, WireInv, NEW r \in Request, NEW b \in Broker, sent[r][b] # None,
         HandedFor(r.dst, r.src, b, r.queue, sent[r][b].seq)
  PROVE  Handed(r.dst, r.text)
  <1>1. PICK p \in msgWire[b] :
          /\ p.src = r.src /\ p.queue = r.queue /\ p.seq = sent[r][b].seq
          /\ Handed(r.dst, p.text)
    BY DEF HandedFor
  <1>2. PICK q \in Request : MadeFrom(p, q, b)
    BY DEF WireInv
  <1>3. q = r
    <2>1. CASE q \in PipeRequest
      BY <1>1, <1>2, <2>1, FreshQueueAssumption DEF MadeFrom
    <2>2. CASE q \notin PipeRequest
      <3>1. q.src = r.src /\ q.queue = r.queue /\ sent[q][b] # None
            /\ sent[q][b].seq = sent[r][b].seq
        BY <1>1, <1>2, <2>2 DEF MadeFrom
      <3> QED BY <3>1 DEF SentInv
    <2> QED BY <2>1, <2>2
  <1> QED BY <1>1, <1>2, <1>3 DEF MadeFrom

\* An entry whose future is done is one whose text was handed over.
LEMMA AckedNext ==
  ASSUME TypeOK, SentInv, WireInv, AckInv, AckedInv, [Next]_vars
  PROVE  AckedInv'
  <1>0. ASSUME NEW r \in Request, Handed(r.dst, r.text) PROVE Handed(r.dst, r.text)'
    BY <1>0, RequestType, Growth
  <1> SUFFICES ASSUME NEW r \in Request, NEW b \in Broker,
                      sent'[r][b] # None, sent'[r][b].acked
               PROVE  Handed(r.dst, r.text)'
    BY DEF AckedInv
  <1>1. ASSUME sent'[r][b] = sent[r][b] PROVE Handed(r.dst, r.text)'
    BY <1>0, <1>1 DEF AckedInv
  <1>2. ASSUME NEW q \in QueueRequest, NEW d \in Broker, QueueMsg(q, d)
        PROVE  Handed(r.dst, r.text)'
    <2>1. PICK s \in NextSeqs(SeqsInUse(q, d)) :
            sent' = [sent EXCEPT ![q][d] = NewEntry(q, s)]
      BY <1>2 DEF QueueMsg
    <2>2. NewEntry(q, s).acked = FALSE
      BY DEF NewEntry
    <2>3. sent'[r][b] = sent[r][b]
      BY <2>1, <2>2 DEF TypeOK
    <2> QED BY <1>1, <2>3
  <1>3. ASSUME NEW q \in PipeRequest, PipeSend(q) PROVE Handed(r.dst, r.text)'
    <2>1. NewEntry(q, 0).acked = FALSE
      BY DEF NewEntry
    <2>2. sent'[r][b] = sent[r][b]
      BY <1>3, <2>1 DEF PipeSend, TypeOK
    <2> QED BY <1>1, <2>2
  <1>4. ASSUME NEW q \in PipeRequest, PipeOk(q) \/ PipeTimeout(q)
        PROVE  Handed(r.dst, r.text)'
    <2>1. sent' = [sent EXCEPT ![q] = [c \in Broker |-> None]]
      BY <1>4 DEF PipeOk, PipeTimeout, PipeEnd
    <2>2. sent'[r][b] = sent[r][b]
      BY <2>1 DEF TypeOK
    <2> QED BY <1>1, <2>2
  <1>5. ASSUME NEW q \in Request, NEW d \in Broker, NEW a \in ackWire[d],
               ReceiveAck(q, d, a)
        PROVE  Handed(r.dst, r.text)'
    <2>1. CASE q = r /\ d = b
      <3>1. /\ sent[r][b] # None
            /\ HandedFor(r.dst, r.src, b, r.queue, sent[r][b].seq)
        BY <1>5, <2>1 DEF ReceiveAck, AckInv
      <3> QED BY <1>0, <3>1, SeqNamesText
    <2>2. CASE ~(q = r /\ d = b)
      <3>1. sent'[r][b] = sent[r][b]
        BY <1>5, <2>2 DEF ReceiveAck, TypeOK
      <3> QED BY <1>1, <3>1
    <2> QED BY <2>1, <2>2
  <1> QED BY <1>1, <1>2, <1>3, <1>4, <1>5, SentCases

\* The invariant of the delivery holds of empty tables.
LEMMA DeliveryInit == Init => DeliveryInv
  <1> SUFFICES ASSUME Init PROVE DeliveryInv
    OBVIOUS
  <1>1. WireInv /\ AckInv
    BY DEF Init, WireInv, AckInv
  <1>2. \A r \in Request, b \in Broker : sent[r][b] = None
    BY DEF Init
  <1>3. SentInv /\ AckedInv
    BY <1>2 DEF SentInv, AckedInv, Request
  <1>4. TaskInv
    BY DEF Init, TaskInv, TaskOK, RememberedOK
  <1> QED BY <1>1, <1>3, <1>4, TypeInit DEF DeliveryInv

\* Every step keeps it.
LEMMA DeliveryNext ==
  DeliveryInv /\ [Next]_vars => DeliveryInv'
  BY TypeNext, SentNext, WireNext, TaskNext, AckNext, AckedNext DEF DeliveryInv

-----------------------------------------------------------------------------
(* The refinement. *)

\* The initial state is one of the contract.
LEMMA ContractInit == Init => Contract!Init
  <1> SUFFICES ASSUME Init PROVE Contract!Init
    OBVIOUS
  <1>1. \A n \in Node, x \in Text : ~Handed(n, x)
    BY DEF Init, Handed
  <1> QED BY <1>1 DEF Init, Contract!Init

\* Every step of the protocol is a step of the contract or changes nothing it
\* sees.
LEMMA ContractStep ==
  DeliveryInv /\ [Next]_vars => [Contract!Next]_(Contract!vars)
  <1> SUFFICES ASSUME DeliveryInv, [Next]_vars
               PROVE  [Contract!Next]_(Contract!vars)
    OBVIOUS
  <1> DEFINE given == {w \in Node \X Text : Handed(w[1], w[2])}
  <1>0. TypeOK
    BY DEF DeliveryInv
  <1>1. ASSUME UNCHANGED handed PROVE given' = given
    BY <1>1 DEF Handed
  <1>2. CASE UNCHANGED <<outcome, handed>>
    BY <1>1, <1>2 DEF Contract!vars
  <1>3. ASSUME NEW r \in QueueRequest, NEW b \in Broker, QueueMsg(r, b)
        PROVE  Contract!Next
    BY <1>1, <1>3 DEF QueueMsg, Contract!Next, Contract!Issue, Request
  <1>4. ASSUME NEW r \in PipeRequest, PipeSend(r) PROVE Contract!Next
    BY <1>1, <1>4 DEF PipeSend, Contract!Next, Contract!Issue, Request
  <1>5. ASSUME NEW r \in PipeRequest, PipeOk(r) PROVE Contract!Next
    <2>1. r \in Request /\ Handed(r.dst, r.text)
      BY <1>5 DEF PipeOk, DeliveryInv, AckedInv, Request
    <2>2. <<r.dst, r.text>> \in given
      BY <2>1, RequestType
    <2> QED BY <1>1, <1>5, <2>1, <2>2 DEF PipeOk, PipeEnd, Contract!Next, Contract!Confirm
  <1>6. ASSUME NEW r \in PipeRequest, PipeTimeout(r) PROVE Contract!Next
    BY <1>1, <1>6 DEF PipeTimeout, PipeEnd, Contract!Next, Contract!GiveUp, Request
  <1>7. ASSUME NEW r \in QueueRequest, NEW b \in Broker, NEW a \in ackWire[b],
               ReceiveAck(r, b, a)
        PROVE  Contract!Next
    <2>1. r \in Request
      BY DEF Request
    <2>2. sent[r][b] # None /\ ~sent[r][b].acked
      BY <1>7 DEF ReceiveAck
    <2>3. outcome[r] = "sending"
      BY <2>1, <2>2 DEF DeliveryInv, SentInv
    <2>4. HandedFor(r.dst, r.src, b, r.queue, sent[r][b].seq)
      BY <1>7 DEF ReceiveAck, DeliveryInv, AckInv
    <2>5. Handed(r.dst, r.text)
      BY <2>1, <2>2, <2>4, SeqNamesText DEF DeliveryInv
    <2>6. <<r.dst, r.text>> \in given
      BY <2>1, <2>5, RequestType
    <2>7. outcome' = [outcome EXCEPT ![r] = "ok"] /\ UNCHANGED handed
      BY <1>7 DEF ReceiveAck
    <2> QED BY <1>1, <2>1, <2>3, <2>6, <2>7 DEF Contract!Next, Contract!Confirm
  <1>8. ASSUME NEW r \in Request, r \notin QueueRequest, NEW b \in Broker,
               NEW a \in ackWire[b], ReceiveAck(r, b, a)
        PROVE  UNCHANGED <<outcome, handed>>
    BY <1>8 DEF ReceiveAck
  <1>9. ASSUME NEW k \in Task, Stamp(k) PROVE [Contract!Next]_(Contract!vars)
    <2>1. PICK n \in Node, x \in Text :
           /\ n = task[k].node /\ x = task[k].pkt.text
           /\ task[k] \in Running
           /\ \/ /\ recvIds[n][x] # None
                 /\ UNCHANGED <<recvIds, handed>>
              \/ /\ recvIds[n][x] = None
                 /\ recvIds' = [recvIds EXCEPT ![n][x] = Now(n)]
                 /\ handed' = [handed EXCEPT ![n][x] =
                                 [times |-> @.times + 1, last |-> Now(n)]]
      BY <1>0, <1>9, StampCases
    <2>2. UNCHANGED outcome
      BY <1>9 DEF Stamp
    <2>3. CASE UNCHANGED handed
      BY <1>2, <2>2, <2>3
    <2>4. CASE ~UNCHANGED handed
      <3>1. /\ handed'[n][x].times = handed[n][x].times + 1
            /\ \A m \in Node, y \in Text :
                 ~(m = n /\ y = x) => handed'[m][y] = handed[m][y]
        BY <1>0, <2>1, <2>4 DEF TypeOK
      <3>2. handed[n][x].times \in Nat
        BY <1>0 DEF TypeOK
      <3>3. given' = given \cup {<<n, x>>}
        BY <3>1, <3>2 DEF Handed
      <3>4. task[k].pkt \in msgWire[task[k].broker] /\ task[k].pkt.dst = n
            /\ task[k].broker \in Broker
        BY <1>9, <2>1 DEF DeliveryInv, TaskInv, TaskOK, Stamp, Idle, Running
      <3>5. PICK r \in Request : MadeFrom(task[k].pkt, r, task[k].broker)
        BY <3>4 DEF DeliveryInv, WireInv
      <3>6. r.dst = n /\ r.text = x /\ outcome[r] # "new"
        BY <2>1, <3>4, <3>5 DEF MadeFrom
      <3>7. Contract!HandOff(r)
        BY <2>2, <3>3, <3>6 DEF Contract!HandOff
      <3> QED BY <3>7 DEF Contract!Next
    <2> QED BY <2>3, <2>4
  <1>10. CASE Send
    BY <1>2, <1>3, <1>4, <1>5, <1>6, <1>7, <1>8, <1>10 DEF Send, PublishMsg
  <1>11. CASE Receive
    BY <1>2, <1>9, <1>11 DEF Receive, ReceiveAcked, ReceiveMsg, QueueAck, PublishAck
  <1>12. CASE Network \/ (\E n \in Node : Prune(n)) \/ Tick \/ UNCHANGED vars
    BY <1>2, <1>12 DEF Prune, Tick, Network, Lose, vars
  <1> QED BY <1>10, <1>11, <1>12 DEF Next

\* The protocol implements the contract: a caller told that a message was delivered is told
\* so after its text was handed over, and only texts that were sent are.
THEOREM ContractImplemented ==
  Spec => ImplementsContract
  <1>1. DeliveryInv /\ [Next]_vars => DeliveryInv'
    BY DeliveryNext
  <1>2. DeliveryInv /\ [Next]_vars => [Contract!Next]_(Contract!vars)
    BY ContractStep
  <1> QED BY <1>1, <1>2, DeliveryInit, ContractInit, PTL
          DEF Spec, ImplementsContract, Contract!Spec

-----------------------------------------------------------------------------
(* Order.  Whoever awaits each ack has them all but the last.                *)

\* What OrderedHandOff and AckPruneSafe are true for: all entries of a queue but
\* the one with the last sequence number are acked.
FlowInv ==
  \A r, q \in QueueRequest, b \in Broker :
    /\ r.src = q.src /\ r.queue = q.queue
    /\ sent[r][b] # None /\ sent[q][b] # None
    /\ sent[r][b].seq < sent[q][b].seq
    => sent[r][b].acked

\* No queue has an entry at the start.
LEMMA FlowInit == Init => FlowInv
  BY DEF Init, FlowInv, Request

\* A message is queued behind others only when all of them are acked.
LEMMA FlowNext ==
  ASSUME AwaitAcks, TypeOK, SentInv, FlowInv, [Next]_vars
  PROVE  FlowInv'
  <1> SUFFICES ASSUME NEW r \in QueueRequest, NEW q \in QueueRequest, NEW b \in Broker,
                      r.src = q.src, r.queue = q.queue,
                      sent'[r][b] # None, sent'[q][b] # None,
                      sent'[r][b].seq < sent'[q][b].seq
               PROVE  sent'[r][b].acked
    BY DEF FlowInv
  <1>0. r \in Request /\ q \in Request /\ r \notin PipeRequest /\ q \notin PipeRequest
    BY RequestAssumption DEF Request
  <1>1. ASSUME sent'[r][b] = sent[r][b], sent'[q][b] = sent[q][b]
        PROVE  sent'[r][b].acked
    BY <1>1 DEF FlowInv
  <1>2. CASE UNCHANGED <<sent, outcome>>
    BY <1>1, <1>2
  <1>3. ASSUME NEW o \in QueueRequest, NEW d \in Broker, QueueMsg(o, d)
        PROVE  sent'[r][b].acked
    <2>1. PICK s \in NextSeqs(SeqsInUse(o, d)) :
            sent' = [sent EXCEPT ![o][d] = NewEntry(o, s)]
      BY <1>3 DEF QueueMsg
    <2>2. o \in Request /\ s \in Nat
      BY <2>1, NextSeqType DEF Request
    <2>3. outcome[o] = "new"
      BY <1>3 DEF QueueMsg
    <2>4. CASE q = o /\ b = d
      <3>1. r # o
        <4>1. sent'[q][b].seq = s
          BY <1>0, <2>1, <2>4 DEF TypeOK, NewEntry
        <4>2. ~(s < s)
          BY <2>2
        <4> QED BY <2>4, <4>1, <4>2
      <3>2. sent'[r][b] = sent[r][b]
        BY <1>0, <2>1, <3>1 DEF TypeOK
      <3>3. outcome[r] # "sending"
        BY <1>3, <2>4 DEF QueueMsg
      <3> QED BY <3>2, <3>3 DEF SentInv
    <2>5. CASE r = o /\ b = d /\ q # o
      <3>1. sent'[r][b].seq = s
        BY <1>0, <2>1, <2>5 DEF TypeOK, NewEntry
      <3>2. sent'[q][b] = sent[q][b]
        BY <1>0, <2>1, <2>5 DEF TypeOK
      <3>3. sent[q][b].seq \in SeqsInUse(o, d)
        BY <1>0, <2>5, <3>2 DEF SeqsInUse
      <3>4. sent[q][b].seq < s
        BY <2>1, <3>3 DEF NextSeqs
      <3>5. sent[q][b].seq \in Nat
        BY <1>0, <3>2 DEF TypeOK, SentEntry
      <3> QED BY <2>2, <3>1, <3>2, <3>4, <3>5
    <2>6. CASE b # d \/ (q # o /\ r # o)
      <3>1. sent'[r][b] = sent[r][b] /\ sent'[q][b] = sent[q][b]
        BY <1>0, <2>1, <2>6 DEF TypeOK
      <3> QED BY <1>1, <3>1
    <2> QED BY <2>4, <2>5, <2>6
  <1>4. ASSUME NEW o \in PipeRequest, PipeSend(o) PROVE sent'[r][b].acked
    <2>1. sent'[r] = sent[r] /\ sent'[q] = sent[q]
      BY <1>0, <1>4 DEF PipeSend, TypeOK
    <2> QED BY <1>1, <2>1
  <1>5. ASSUME NEW o \in PipeRequest, PipeOk(o) \/ PipeTimeout(o) PROVE sent'[r][b].acked
    <2>1. sent'[r] = sent[r] /\ sent'[q] = sent[q]
      BY <1>0, <1>5 DEF PipeOk, PipeTimeout, PipeEnd, TypeOK
    <2> QED BY <1>1, <2>1
  <1>6. ASSUME NEW o \in Request, NEW d \in Broker, NEW a \in ackWire[d], ReceiveAck(o, d, a)
        PROVE  sent'[r][b].acked
    <2>1. sent' = [sent EXCEPT ![o][d].acked = TRUE] /\ sent[o][d] # None
      BY <1>6 DEF ReceiveAck
    <2>2. sent[o][d] \in SentEntry
      BY <2>1 DEF TypeOK
    <2>3. CASE r = o /\ b = d
      BY <1>0, <2>1, <2>2, <2>3 DEF TypeOK, SentEntry
    <2>4. CASE ~(r = o /\ b = d)
      <3>1. sent'[r][b] = sent[r][b]
        BY <1>0, <2>1, <2>4 DEF TypeOK
      <3>2. sent[q][b] # None /\ sent'[q][b].seq = sent[q][b].seq
        <4>1. CASE q = o /\ b = d
          BY <1>0, <2>1, <2>2, <4>1 DEF TypeOK, SentEntry
        <4>2. CASE ~(q = o /\ b = d)
          BY <1>0, <2>1, <4>2 DEF TypeOK
        <4> QED BY <4>1, <4>2
      <3> QED BY <3>1, <3>2 DEF FlowInv
    <2> QED BY <2>3, <2>4
  <1> QED BY <1>2, <1>3, <1>4, <1>5, <1>6, SentCases

\* mqtt_ordered_send.py:72 and app_proto.py:20-24, for callers that await each
\* ack: a queue is handed over in order, with no gap, over any
\* brokers and whatever they lose, repeat and reorder.
THEOREM QueuesInOrder ==
  ASSUME AwaitAcks
  PROVE  Spec => []OrderedHandOff
  <1>1. DeliveryInv /\ FlowInv => OrderedHandOff
    <2> SUFFICES ASSUME DeliveryInv, FlowInv,
                        NEW r \in QueueRequest, NEW q \in QueueRequest, NEW b \in Broker,
                        r.src = q.src, r.queue = q.queue,
                        sent[r][b] # None, sent[q][b] # None,
                        sent[r][b].seq < sent[q][b].seq
                 PROVE  Handed(r.dst, r.text)
      BY DEF OrderedHandOff
    <2>1. sent[r][b].acked /\ r \in Request
      BY DEF FlowInv, Request
    <2> QED BY <2>1 DEF DeliveryInv, AckedInv
  <1>2. DeliveryInv /\ FlowInv /\ [Next]_vars => FlowInv'
    BY FlowNext DEF DeliveryInv
  <1>3. DeliveryInv /\ [Next]_vars => DeliveryInv'
    BY DeliveryNext
  <1> QED BY <1>1, <1>2, <1>3, DeliveryInit, FlowInit, PTL DEF Spec

\* process_app_msg drops acks below the packet's sequence number only.
LEMMA PruneCases ==
  ASSUME TypeOK, [Next]_vars, NEW n \in Node, NEW b \in Broker,
         NEW a \in ackq[n][b] \ ackq'[n][b]
  PROVE  \E p \in msgWire[b] : p.queue = a.queue /\ a.seq < p.seq
  <1>1. CASE UNCHANGED ackq
    BY <1>1
  <1>2. ASSUME NEW m \in Node, NEW d \in Broker, NEW p \in msgWire[d],
               ackq' = [ackq EXCEPT ![m][d] = PruneAcks(@, p)]
        PROVE  \E o \in msgWire[b] : o.queue = a.queue /\ a.seq < o.seq
    <2>1. m = n /\ d = b /\ a \notin PruneAcks(ackq[n][b], p)
      BY <1>2 DEF TypeOK
    <2> QED BY <2>1 DEF PruneAcks
  <1>3. ASSUME NEW m \in Node, NEW d \in Broker, NEW p \in msgWire[d], ReceiveAcked(m, d, p)
        PROVE  \E o \in msgWire[b] : o.queue = a.queue /\ a.seq < o.seq
    BY <1>2, <1>3 DEF ReceiveAcked
  <1>4. ASSUME NEW m \in Node, NEW d \in Broker, NEW k \in Task, NEW p \in msgWire[d],
               ReceiveMsg(m, d, p, k)
        PROVE  \E o \in msgWire[b] : o.queue = a.queue /\ a.seq < o.seq
    BY <1>2, <1>4 DEF ReceiveMsg
  <1>5. ASSUME NEW k \in Task, QueueAck(k) PROVE FALSE
    <2> DEFINE m == task[k].node
               d == task[k].broker
               p == task[k].pkt
               new == IF AckFor(ackq[m][d], p) = {}
                      THEN ackq[m][d] \cup {[queue |-> p.queue, seq |-> p.seq,
                                             dst |-> p.src, created |-> clock]}
                      ELSE ackq[m][d]
    <2>1. ackq' = [ackq EXCEPT ![m][d] = new] /\ ackq[m][d] \subseteq new
      BY <1>5 DEF QueueAck
    <2> HIDE DEF m, d, new
    <2>2. ackq[n][b] \subseteq ackq'[n][b]
      BY <2>1 DEF TypeOK
    <2> QED BY <2>2
  <1>6. CASE Send
    BY <1>1, <1>6 DEF Send, QueueMsg, PipeSend, PipeOk, PipeTimeout, PipeEnd,
         PublishMsg, ReceiveAck
  <1>7. CASE Receive
    <2>1. ASSUME NEW k \in Task, Stamp(k) PROVE UNCHANGED ackq
      BY <2>1 DEF Stamp
    <2>2. ASSUME NEW m \in Node, NEW d \in Broker, NEW o \in ackq[m][d], PublishAck(m, d, o)
          PROVE  UNCHANGED ackq
      BY <2>2 DEF PublishAck
    <2> QED BY <1>1, <1>3, <1>4, <1>5, <1>7, <2>1, <2>2 DEF Receive
  <1>8. CASE Network \/ (\E m \in Node : Prune(m)) \/ Tick \/ UNCHANGED vars
    BY <1>1, <1>8 DEF Prune, Tick, Network, Lose, vars
  <1> QED BY <1>6, <1>7, <1>8 DEF Next

\* app_proto.py:20-24: "When we receive the next message it means the other side
\* received our ack".  It does, for callers that await each ack and
\* have their queue ids to themselves: the packet was made from a later
\* request of the queue, so the ack below it was received.
THEOREM PrunedAcksNotNeeded ==
  ASSUME AwaitAcks, \A r, q \in Request : r.queue = q.queue => r.src = q.src
  PROVE  Spec => AckPruneSafe
  <1> DEFINE Safe == \A n \in Node, b \in Broker : \A a \in ackq[n][b] \ ackq'[n][b] :
                       \A r \in Request :
                         /\ r.src = a.dst /\ r.queue = a.queue
                         /\ sent[r][b] # None /\ sent[r][b].seq = a.seq
                         => sent[r][b].acked
  <1>1. DeliveryInv /\ FlowInv /\ [Next]_vars => Safe
    <2> SUFFICES ASSUME DeliveryInv, FlowInv, [Next]_vars,
                        NEW n \in Node, NEW b \in Broker, NEW a \in ackq[n][b] \ ackq'[n][b],
                        NEW r \in Request, r.queue = a.queue,
                        sent[r][b] # None, sent[r][b].seq = a.seq
                 PROVE  sent[r][b].acked
      OBVIOUS
    <2>1. TypeOK /\ WireInv
      BY DEF DeliveryInv
    <2>2. PICK p \in msgWire[b] : p.queue = a.queue /\ a.seq < p.seq
      BY <2>1, PruneCases
    <2>3. PICK q \in Request : MadeFrom(p, q, b)
      BY <2>1 DEF WireInv
    <2>4. r.queue = q.queue /\ r.src = q.src
      BY <2>2, <2>3 DEF MadeFrom
    <2>5. sent[r][b].seq \in Nat
      BY <2>1 DEF TypeOK, SentEntry
    <2>6. r # q
      <3> SUFFICES ASSUME r = q PROVE FALSE
        OBVIOUS
      <3>1. sent[r][b].seq = p.seq
        BY <2>3 DEF MadeFrom
      <3> QED BY <2>2, <2>5, <3>1
    <2>7. r \in QueueRequest /\ q \in QueueRequest
      BY <2>4, <2>6, FreshQueueAssumption DEF Request
    <2>8. sent[q][b] # None /\ sent[q][b].seq = p.seq
      BY <2>3, <2>7, RequestAssumption DEF MadeFrom
    <2> QED BY <2>2, <2>4, <2>7, <2>8 DEF FlowInv
  <1>2. DeliveryInv /\ FlowInv /\ [Next]_vars => FlowInv'
    BY FlowNext DEF DeliveryInv
  <1>3. DeliveryInv /\ [Next]_vars => DeliveryInv'
    BY DeliveryNext
  <1>4. DeliveryInv /\ FlowInv /\ [Next]_vars => [Safe]_vars
    BY <1>1
  <1> QED BY <1>2, <1>3, <1>4, DeliveryInit, FlowInit, PTL DEF Spec, AckPruneSafe

-----------------------------------------------------------------------------
(* Age.  A packet older than the window is not accepted.                     *)

\* The first and the last tick of second ts: an age in whole seconds is one of less
\* than a second more in ticks.
Begin(ts) == ts * Tps
End(ts)   == Begin(ts) + (Tps - 1)

\* Multiplication by a natural number keeps an order.
LEMMA Products ==
  ASSUME NEW i \in Nat, NEW j \in Nat, NEW k \in Nat, i <= j
  PROVE  i * k \in Nat /\ j * k \in Nat /\ i * k <= j * k
  <1>1. \A m \in Nat : m * k \in Nat
    OBVIOUS
  <1>2. j - i \in Nat /\ j = i + (j - i)
    OBVIOUS
  <1>3. j * k = i * k + (j - i) * k
    BY <1>2
  <1> QED BY <1>1, <1>2, <1>3

\* A time lies between the first and the last tick of its second.
LEMMA EndFacts ==
  ASSUME NEW t \in Nat
  PROVE  /\ Secs(t) \in Nat /\ Begin(Secs(t)) \in Nat
         /\ Begin(Secs(t)) <= t /\ t <= End(Secs(t))
  <1> DEFINE q == t \div Tps
  <1>1. Tps \in Nat \ {0}
    BY TimeAssumption
  <1>2. q \in Nat /\ q * Tps \in Nat /\ t - q * Tps \in 0 .. Tps - 1
    <2>1. q \in Nat /\ t % Tps \in 0 .. Tps - 1 /\ t = Tps * q + (t % Tps)
      BY <1>1
    <2> HIDE DEF q
    <2>2. q * Tps \in Nat /\ q * Tps = Tps * q
      BY <1>1, <2>1
    <2> QED BY <2>1, <2>2
  <1> HIDE DEF q
  <1>3. q * Tps <= t /\ t <= q * Tps + (Tps - 1)
    <2> DEFINE m == q * Tps
    <2>1. m \in Nat /\ t - m \in 0 .. Tps - 1
      BY <1>2
    <2> HIDE DEF m
    <2>2. m <= t /\ t <= m + (Tps - 1)
      BY <1>1, <2>1
    <2> QED BY <2>2 DEF m
  <1> QED BY <1>2, <1>3 DEF Secs, Begin, End, q

\* The first tick of a second is a natural number.
LEMMA BeginType == ASSUME NEW ts \in Nat PROVE Begin(ts) \in Nat
  BY TimeAssumption DEF Begin

\* The age check of handle_publish, in ticks.
LEMMA AgeBound ==
  ASSUME NEW t \in Nat, NEW ts \in Nat, Secs(t) - ts <= 2 * Republish
  PROVE  t <= Begin(ts) + (Tps - 1) + Window
  <1> DEFINE q == Secs(t)
             z == ts + 2 * Republish
  <1>1. Tps \in Nat \ {0} /\ Republish \in Nat /\ q \in Nat
    BY TimeAssumption, EndFacts
  <1>2. t <= q * Tps + (Tps - 1)
    BY EndFacts DEF Begin, End
  <1>3. z \in Nat /\ q <= z
    <2> HIDE DEF q
    <2> QED BY <1>1 DEF q
  <1>4. q * Tps \in Nat /\ z * Tps \in Nat /\ q * Tps <= z * Tps
    BY <1>1, <1>3, Products
  <1>5. z * Tps = ts * Tps + 2 * (Republish * Tps)
    BY <1>1
  <1>6. ts * Tps \in Nat /\ Republish * Tps \in Nat
    BY <1>1
  <1> DEFINE a == q * Tps
             b == ts * Tps
             c == Republish * Tps
  <1>7. /\ a \in Nat /\ b \in Nat /\ c \in Nat
        /\ a <= b + 2 * c /\ t <= a + (Tps - 1)
    BY <1>2, <1>4, <1>5, <1>6
  <1> HIDE DEF a, b, c, q, z
  <1>8. t <= b + (Tps - 1) + 2 * c
    BY <1>1, <1>7
  <1> QED BY <1>8 DEF Begin, Window, Lifetime, b, c

\* By its sender's clock the second that an entry or a packet is stamped with has
\* begun; and a packet carries the text of a request that was made.
AgeInv ==
  /\ \A r \in Request, b \in Broker : sent[r][b] # None =>
       outcome[r] # "new" /\ Begin(sent[r][b].ts) <= Now(r.src)
  /\ \A b \in Broker : \A p \in msgWire[b] :
       \E r \in Request : /\ Carries(r, p.dst, p.text) /\ outcome[r] # "new"
                          /\ Begin(p.ts) <= Now(r.src)

\* A run that waits for its hash has a packet of the current tick.
HashInv ==
  \A k \in Task : task[k] # Idle =>
    /\ task[k].pkt \in msgWire[task[k].broker] /\ task[k].pkt.dst = task[k].node
    /\ task[k].pc = "hash" => Secs(Now(task[k].node)) - task[k].pkt.ts <= 2 * Republish

\* When it was t at r's receiver, the second ts had begun at r's sender.
Before(r, ts, t) == Begin(ts) + Skew[r.dst] <= t + Skew[r.src]

LastHanded(r) == handed[r.dst][r.text].last

\* A text handed over is older, by the clock of its sender, than its last hand-over.
OnceInv ==
  \A r \in Request : Alone(r) /\ Handed(r.dst, r.text) =>
    /\ outcome[r] # "new"
    /\ \A b \in Broker : sent[r][b] # None => Before(r, sent[r][b].ts, LastHanded(r))
    /\ \A b \in Broker : \A p \in msgWire[b] :
         Carries(r, p.dst, p.text) => Before(r, p.ts, LastHanded(r))

\* An entry is the one there was, or has the time stamp of now and is the first
\* of its request.
LEMMA EntryCases ==
  ASSUME TypeOK, [Next]_vars, NEW r \in Request, NEW b \in Broker, sent'[r][b] # None
  PROVE  \/ sent[r][b] # None /\ sent'[r][b].ts = sent[r][b].ts
         \/ /\ outcome[r] = "new" /\ outcome'[r] # "new"
            /\ sent'[r][b].ts = Secs(Now(r.src)) /\ UNCHANGED <<clock, handed>>
  <1>1. CASE sent'[r][b] = sent[r][b]
    BY <1>1
  <1>2. ASSUME NEW q \in QueueRequest, NEW d \in Broker, QueueMsg(q, d), ~(sent'[r][b] = sent[r][b])
        PROVE  /\ outcome[r] = "new" /\ outcome'[r] # "new"
               /\ sent'[r][b].ts = Secs(Now(r.src)) /\ UNCHANGED <<clock, handed>>
    <2>1. PICK s \in NextSeqs(SeqsInUse(q, d)) :
            sent' = [sent EXCEPT ![q][d] = NewEntry(q, s)]
      BY <1>2 DEF QueueMsg
    <2>2. q = r /\ d = b /\ sent'[r][b] = NewEntry(r, s)
      BY <1>2, <2>1 DEF TypeOK
    <2> QED BY <1>2, <2>2 DEF QueueMsg, NewEntry, TypeOK
  <1>3. ASSUME NEW q \in PipeRequest, PipeSend(q), ~(sent'[r][b] = sent[r][b])
        PROVE  /\ outcome[r] = "new" /\ outcome'[r] # "new"
               /\ sent'[r][b].ts = Secs(Now(r.src)) /\ UNCHANGED <<clock, handed>>
    <2>1. q = r /\ sent'[r][b] = NewEntry(r, 0)
      BY <1>3 DEF PipeSend, TypeOK
    <2> QED BY <1>3, <2>1 DEF PipeSend, NewEntry, TypeOK
  <1>4. ASSUME NEW q \in PipeRequest, PipeOk(q) \/ PipeTimeout(q) PROVE sent'[r][b] = sent[r][b]
    <2>1. sent' = [sent EXCEPT ![q] = [c \in Broker |-> None]]
      BY <1>4 DEF PipeOk, PipeTimeout, PipeEnd
    <2> QED BY <2>1 DEF TypeOK
  <1>5. ASSUME NEW q \in Request, NEW d \in Broker, NEW a \in ackWire[d], ReceiveAck(q, d, a)
        PROVE  sent[r][b] # None /\ sent'[r][b].ts = sent[r][b].ts
    <2>1. sent' = [sent EXCEPT ![q][d].acked = TRUE] /\ sent[q][d] # None
      BY <1>5 DEF ReceiveAck
    <2>2. sent[q][d] \in SentEntry
      BY <2>1 DEF TypeOK
    <2>3. CASE q = r /\ d = b
      BY <2>1, <2>2, <2>3 DEF TypeOK, SentEntry
    <2>4. CASE ~(q = r /\ d = b)
      BY <2>1, <2>4 DEF TypeOK
    <2> QED BY <2>3, <2>4
  <1>7. ASSUME NEW q \in Request, NEW d \in Broker, PublishMsg(q, d)
        PROVE  sent'[r][b] = sent[r][b]
    BY <1>7 DEF PublishMsg
  <1>8. CASE Receive
    BY <1>1, <1>8 DEF Receive, ReceiveAcked, ReceiveMsg, Stamp, QueueAck, PublishAck
  <1>9. CASE Network \/ (\E n \in Node : Prune(n)) \/ Tick \/ UNCHANGED vars
    BY <1>1, <1>9 DEF Prune, Tick, Network, Lose, vars
  <1>10. CASE Send
    BY <1>1, <1>2, <1>3, <1>4, <1>5, <1>7, <1>10 DEF Send
  <1> QED BY <1>8, <1>9, <1>10 DEF Next

\* A packet is one there was, or made of an entry.
LEMMA PacketCases ==
  ASSUME TypeOK, [Next]_vars, NEW b \in Broker, NEW p \in msgWire'[b]
  PROVE  \/ p \in msgWire[b]
         \/ \E r \in Request : /\ sent[r][b] # None /\ p = MsgPacketOf(r, b)
                               /\ UNCHANGED <<clock, outcome, handed>>
  <1>1. ASSUME p \notin msgWire[b]
        PROVE  \E r \in Request : /\ sent[r][b] # None /\ p = MsgPacketOf(r, b)
                                  /\ UNCHANGED <<clock, outcome, handed>>
    <2>1. PICK r \in Request, d \in Broker : PublishMsg(r, d)
      BY <1>1 DEF Next, Send, Receive, vars, QueueMsg, PipeSend, PipeOk,
         PipeTimeout, PipeEnd, ReceiveAck, ReceiveAcked,
         ReceiveMsg, Stamp, QueueAck, PublishAck, Prune, Tick, Network, Lose
    <2>2. d = b /\ p = MsgPacketOf(r, b)
      BY <1>1, <2>1 DEF PublishMsg, TypeOK
    <2> QED BY <2>1, <2>2 DEF PublishMsg
  <1> QED BY <1>1

\* The clock of a node does not go back.
LEMMA ClockGrows ==
  ASSUME TypeOK, TypeOK', [Next]_vars, NEW n \in Node
  PROVE  Now(n) \in Nat /\ Now(n)' \in Nat /\ Now(n) <= Now(n)'
  <1>1. clock \in Nat /\ clock' \in {clock, clock + 1}
    BY DEF TypeOK, Next, Send, Receive, vars, QueueMsg, PipeSend, PipeOk, PipeTimeout,
       PipeEnd, PublishMsg, ReceiveAck, ReceiveAcked, ReceiveMsg, Stamp,
       QueueAck, PublishAck, Prune, Tick, Network, Lose
  <1>2. Skew[n] \in Nat
    BY TimeAssumption
  <1> QED BY <1>1, <1>2 DEF Now

\* Nothing is queued or on the wire at the start.
LEMMA AgeInit == Init => AgeInv
  BY DEF Init, AgeInv, MsgPacket

\* int(get_time()) is not ahead of get_time(), and the clock goes on.
LEMMA AgeNext ==
  ASSUME TypeOK, TypeOK', AgeInv, [Next]_vars
  PROVE  AgeInv'
  <1>0. \A r \in Request : Now(r.src) \in Nat /\ Now(r.src)' \in Nat /\ Now(r.src) <= Now(r.src)'
    BY ClockGrows, RequestType
  <1>1. ASSUME NEW r \in Request, NEW b \in Broker, sent'[r][b] # None
        PROVE  outcome'[r] # "new" /\ Begin(sent'[r][b].ts) <= Now(r.src)'
    <2>1. CASE sent[r][b] # None /\ sent'[r][b].ts = sent[r][b].ts
      <3>1. Begin(sent[r][b].ts) \in Nat
        BY <2>1, BeginType DEF TypeOK, SentEntry
      <3>2. outcome[r] # "new" /\ Begin(sent[r][b].ts) <= Now(r.src)
        BY <2>1 DEF AgeInv
      <3>3. outcome'[r] # "new"
        BY <3>2, Growth
      <3> QED BY <1>0, <2>1, <3>1, <3>2, <3>3
    <2>2. CASE /\ outcome'[r] # "new" /\ sent'[r][b].ts = Secs(Now(r.src))
               /\ UNCHANGED <<clock, handed>>
      <3>1. Now(r.src)' = Now(r.src)
        BY <2>2 DEF Now
      <3> QED BY <1>0, <2>2, <3>1, EndFacts
    <2> QED BY <1>1, <2>1, <2>2, EntryCases
  <1>2. ASSUME NEW b \in Broker, NEW p \in msgWire'[b]
        PROVE  \E r \in Request : /\ Carries(r, p.dst, p.text) /\ outcome'[r] # "new"
                                  /\ Begin(p.ts) <= Now(r.src)'
    <2>1. Begin(p.ts) \in Nat
      BY BeginType DEF TypeOK, MsgPacket
    <2>2. CASE p \in msgWire[b]
      <3>1. PICK r \in Request : /\ Carries(r, p.dst, p.text) /\ outcome[r] # "new"
                                 /\ Begin(p.ts) <= Now(r.src)
        BY <2>2 DEF AgeInv
      <3>2. outcome'[r] # "new"
        BY <3>1, Growth
      <3>3. Begin(p.ts) <= Now(r.src)'
        BY <1>0, <2>1, <3>1
      <3> QED BY <3>1, <3>2, <3>3
    <2>3. ASSUME NEW r \in Request, sent[r][b] # None, p = MsgPacketOf(r, b),
                 UNCHANGED <<clock, outcome, handed>>
          PROVE  /\ Carries(r, p.dst, p.text) /\ outcome'[r] # "new"
                 /\ Begin(p.ts) <= Now(r.src)'
      <3>1. p.ts = sent[r][b].ts /\ p.dst = r.dst /\ p.text = r.text
        BY <2>3 DEF MsgPacketOf
      <3>2. outcome[r] # "new" /\ Begin(sent[r][b].ts) <= Now(r.src)
        BY <2>3 DEF AgeInv
      <3> QED BY <2>3, <3>1, <3>2 DEF Carries, Now
    <2> QED BY <2>2, <2>3, PacketCases
  <1> QED BY <1>1, <1>2 DEF AgeInv

\* A run of process_app_msg goes on as it was, begins with a packet that was
\* accepted, or has its hash.
LEMMA TaskCases ==
  ASSUME TypeOK, [Next]_vars, NEW k \in Task, task'[k] # Idle
  PROVE  \/ task'[k] = task[k]
         \/ \E n \in Node, b \in Broker : \E p \in msgWire[b] :
              /\ Accepts(n, p) /\ UNCHANGED <<clock, msgWire>>
              /\ task'[k] = [pc |-> "hash", node |-> n, broker |-> b, pkt |-> p]
         \/ /\ task[k] \in Running /\ task'[k] = [task[k] EXCEPT !.pc = "ack"]
            /\ UNCHANGED msgWire
  <1>1. CASE UNCHANGED task
    BY <1>1
  <1>2. ASSUME NEW n \in Node, NEW b \in Broker, NEW j \in Task, NEW p \in msgWire[b],
               ReceiveMsg(n, b, p, j)
        PROVE  \/ task'[k] = task[k]
               \/ /\ Accepts(n, p) /\ UNCHANGED <<clock, msgWire>>
                  /\ task'[k] = [pc |-> "hash", node |-> n, broker |-> b, pkt |-> p]
    BY <1>2 DEF ReceiveMsg, TypeOK
  <1>3. ASSUME NEW j \in Task, Stamp(j)
        PROVE  \/ task'[k] = task[k]
               \/ /\ task[k] \in Running /\ task'[k] = [task[k] EXCEPT !.pc = "ack"]
                  /\ UNCHANGED msgWire
    <2>1. task' = [task EXCEPT ![j].pc = "ack"] /\ task[j].pc = "hash" /\ UNCHANGED msgWire
      BY <1>3 DEF Stamp
    <2>2. task[j] \in Running
      BY <2>1 DEF TypeOK, Idle
    <2>3. CASE j = k
      <3>1. task'[k] = [task[k] EXCEPT !.pc = "ack"]
        BY <2>1, <2>3 DEF TypeOK
      <3> QED BY <2>1, <2>2, <2>3, <3>1
    <2>4. CASE j # k
      BY <2>1, <2>4 DEF TypeOK
    <2> QED BY <2>3, <2>4
  <1>4. ASSUME NEW j \in Task, QueueAck(j) PROVE task'[k] = task[k]
    <2>1. task' = [task EXCEPT ![j] = Idle]
      BY <1>4 DEF QueueAck
    <2> QED BY <2>1 DEF TypeOK
  <1>5. CASE Send
    BY <1>1, <1>5 DEF Send, QueueMsg, PipeSend, PipeOk, PipeTimeout, PipeEnd,
         PublishMsg, ReceiveAck
  <1>6. CASE Receive
    <2>1. ASSUME NEW n \in Node, NEW b \in Broker, NEW p \in msgWire[b], ReceiveAcked(n, b, p)
          PROVE  UNCHANGED task
      BY <2>1 DEF ReceiveAcked
    <2>2. ASSUME NEW n \in Node, NEW b \in Broker, NEW a \in ackq[n][b], PublishAck(n, b, a)
          PROVE  UNCHANGED task
      BY <2>2 DEF PublishAck
    <2> QED BY <1>1, <1>2, <1>3, <1>4, <1>6, <2>1, <2>2 DEF Receive
  <1>7. CASE Network \/ (\E n \in Node : Prune(n)) \/ Tick \/ UNCHANGED vars
    BY <1>1, <1>7 DEF Prune, Tick, Network, Lose, vars
  <1> QED BY <1>5, <1>6, <1>7 DEF Next

\* No run of process_app_msg is under way at the start.
LEMMA HashInit == Init => HashInv
  BY DEF Init, HashInv

\* No tick passes between the age check and the hash.
LEMMA HashNext ==
  ASSUME TypeOK, TypeOK', HashInv, PromptHash, [Next]_vars
  PROVE  HashInv'
  <1> SUFFICES ASSUME NEW k \in Task, task'[k] # Idle
               PROVE  /\ task'[k].pkt \in msgWire'[task'[k].broker]
                      /\ task'[k].pkt.dst = task'[k].node
                      /\ task'[k].pc = "hash" =>
                           (clock' + Skew[task'[k].node]) \div Tps - task'[k].pkt.ts
                             <= 2 * Republish
    BY DEF HashInv, Secs, Now
  <1>1. CASE task'[k] = task[k]
    <2>1. task[k] \in Running
      BY <1>1 DEF TypeOK
    <2>2. task[k].broker \in Broker /\ task[k].node \in Node
      BY <2>1 DEF Running
    <2>3. task[k].pkt \in msgWire[task[k].broker] /\ task[k].pkt.dst = task[k].node
      BY <1>1 DEF HashInv
    <2>4. task[k].pkt \in msgWire'[task[k].broker]
      BY <2>2, <2>3, Growth
    <2>5. ASSUME task[k].pc = "hash"
          PROVE  (clock' + Skew[task[k].node]) \div Tps - task[k].pkt.ts <= 2 * Republish
      <3>1. clock' = clock
        BY <2>5 DEF Next, Send, Receive, vars, QueueMsg, PipeSend, PipeOk, PipeTimeout,
           PipeEnd, PublishMsg, ReceiveAck, ReceiveAcked, ReceiveMsg, Stamp,
           QueueAck, PublishAck, Prune, Tick, Network, Lose
      <3>2. Secs(Now(task[k].node)) - task[k].pkt.ts <= 2 * Republish
        BY <1>1, <2>5 DEF HashInv
      <3> QED BY <3>1, <3>2 DEF Now, Secs
    <2> QED BY <1>1, <2>3, <2>4, <2>5
  <1>2. ASSUME NEW n \in Node, NEW b \in Broker, NEW p \in msgWire[b], Accepts(n, p),
               UNCHANGED <<clock, msgWire>>,
               task'[k] = [pc |-> "hash", node |-> n, broker |-> b, pkt |-> p]
        PROVE  /\ task'[k].pkt \in msgWire'[task'[k].broker]
               /\ task'[k].pkt.dst = task'[k].node
               /\ (clock' + Skew[task'[k].node]) \div Tps - task'[k].pkt.ts
                    <= 2 * Republish
    BY <1>2 DEF Accepts, Now, Secs
  <1>3. CASE /\ task[k] \in Running /\ task'[k] = [task[k] EXCEPT !.pc = "ack"]
             /\ UNCHANGED msgWire
    <2>1. /\ task'[k].pc = "ack" /\ task'[k].pkt = task[k].pkt
          /\ task'[k].node = task[k].node /\ task'[k].broker = task[k].broker
      BY <1>3 DEF Running
    <2>2. task[k] # Idle
      BY <1>3 DEF Running, Idle
    <2> QED BY <1>3, <2>1, <2>2 DEF HashInv
  <1> QED BY <1>1, <1>2, <1>3, TaskCases

\* Nothing has been handed over at the start.
LEMMA OnceInit == Init => OnceInv
  BY RequestType DEF Init, OnceInv, Handed

\* A text is handed over when it is not remembered, and from a packet that the age
\* check let through just before.
LEMMA HandOverCases ==
  ASSUME TypeOK, HashInv, [Next]_vars, NEW n \in Node, NEW x \in Text,
         handed'[n][x] # handed[n][x]
  PROVE  /\ recvIds[n][x] = None
         /\ handed'[n][x].last = Now(n)
         /\ handed'[n][x].times = handed[n][x].times + 1
         /\ UNCHANGED <<clock, outcome, sent, msgWire>>
         /\ \E b \in Broker : \E p \in msgWire[b] :
              /\ p.dst = n /\ p.text = x
              /\ Secs(Now(n)) - p.ts <= 2 * Republish
  <1>1. PICK k \in Task : Stamp(k)
    BY DEF Next, Send, Receive, vars, QueueMsg, PipeSend, PipeOk, PipeTimeout,
       PipeEnd, PublishMsg, ReceiveAck, ReceiveAcked, ReceiveMsg,
       QueueAck, PublishAck, Prune, Tick, Network, Lose
  <1>2. PICK m \in Node, y \in Text :
         /\ m = task[k].node /\ y = task[k].pkt.text
         /\ task[k] \in Running
         /\ \/ /\ recvIds[m][y] # None
               /\ UNCHANGED <<recvIds, handed>>
            \/ /\ recvIds[m][y] = None
               /\ recvIds' = [recvIds EXCEPT ![m][y] = Now(m)]
               /\ handed' = [handed EXCEPT ![m][y] =
                               [times |-> @.times + 1, last |-> Now(m)]]
    BY <1>1, StampCases
  <1>3. /\ recvIds[m][y] = None
        /\ handed' = [handed EXCEPT ![m][y] = [times |-> handed[m][y].times + 1, last |-> Now(m)]]
    BY <1>2
  <1>4. m = n /\ y = x
    BY <1>3 DEF TypeOK
  <1>5. handed'[n][x].times = handed[n][x].times + 1 /\ handed'[n][x].last = Now(n)
    BY <1>3, <1>4 DEF TypeOK
  <1>6. task[k] # Idle /\ task[k].pc = "hash" /\ task[k].broker \in Broker
    BY <1>1, <1>2 DEF Stamp, Idle, Running
  <1>7. /\ task[k].pkt \in msgWire[task[k].broker] /\ task[k].pkt.dst = n
        /\ Secs(Now(n)) - task[k].pkt.ts <= 2 * Republish
    BY <1>2, <1>4, <1>6 DEF HashInv
  <1> QED BY <1>1, <1>2, <1>3, <1>4, <1>5, <1>6, <1>7 DEF Stamp

\* What r carries now was stamped before a hand-over of this moment.
LEMMA BeforeNow ==
  ASSUME TypeOK, NEW r \in Request, NEW ts \in Nat, Begin(ts) <= Now(r.src)
  PROVE  Before(r, ts, Now(r.dst))
  <1>1. clock \in Nat /\ Skew[r.src] \in Nat /\ Skew[r.dst] \in Nat
    BY RequestType, TimeAssumption DEF TypeOK
  <1>2. Begin(ts) \in Nat
    BY BeginType
  <1> QED BY <1>1, <1>2 DEF Now, Before

\* Nothing is stamped for a request whose text was handed over.
LEMMA OnceNext ==
  ASSUME TypeOK, TypeOK', AgeInv, HashInv, OnceInv, [Next]_vars
  PROVE  OnceInv'
  <1> SUFFICES ASSUME NEW r \in Request, Alone(r), Handed(r.dst, r.text)'
               PROVE  /\ outcome'[r] # "new"
                      /\ \A b \in Broker : sent'[r][b] # None => Before(r, sent'[r][b].ts, LastHanded(r)')
                      /\ \A b \in Broker : \A p \in msgWire'[b] :
                           Carries(r, p.dst, p.text) => Before(r, p.ts, LastHanded(r)')
    BY DEF OnceInv, Alone, Carries
  <1> DEFINE n == r.dst
             x == r.text
  <1>0. n \in Node /\ x \in Text
    BY RequestType
  <1>1. CASE handed'[n][x] # handed[n][x]
    <2>1. /\ handed'[n][x].last = Now(n)
          /\ UNCHANGED <<clock, outcome, sent, msgWire>>
          /\ \E b \in Broker : \E p \in msgWire[b] : p.dst = n /\ p.text = x
      BY <1>0, <1>1, HandOverCases
    <2>2. PICK b \in Broker : \E p \in msgWire[b] : p.dst = n /\ p.text = x
      BY <2>1
    <2>3. PICK p \in msgWire[b] : p.dst = n /\ p.text = x
      BY <2>2
    <2>4. outcome[r] # "new"
      <3>1. PICK q \in Request : Carries(q, p.dst, p.text) /\ outcome[q] # "new"
        BY DEF AgeInv
      <3> QED BY <2>3, <3>1 DEF Alone
    <2>5. LastHanded(r)' = Now(r.dst)
      BY <2>1 DEF LastHanded
    <2>6. ASSUME NEW c \in Broker, sent'[r][c] # None
          PROVE  Before(r, sent'[r][c].ts, LastHanded(r)')
      <3>1. sent'[r][c] = sent[r][c] /\ sent[r][c].ts \in Nat
        BY <2>1, <2>6 DEF TypeOK, SentEntry
      <3>2. Begin(sent[r][c].ts) <= Now(r.src)
        BY <2>6, <3>1 DEF AgeInv
      <3> QED BY <2>5, <3>1, <3>2, BeforeNow
    <2>7. ASSUME NEW c \in Broker, NEW o \in msgWire'[c], Carries(r, o.dst, o.text)
          PROVE  Before(r, o.ts, LastHanded(r)')
      <3>1. o \in msgWire[c] /\ o.ts \in Nat
        BY <2>1 DEF TypeOK, MsgPacket
      <3>2. PICK q \in Request : Carries(q, o.dst, o.text) /\ Begin(o.ts) <= Now(q.src)
        BY <3>1 DEF AgeInv
      <3>3. q = r
        BY <2>7, <3>2 DEF Alone, Carries
      <3> QED BY <2>5, <3>1, <3>2, <3>3, BeforeNow
    <2> QED BY <2>1, <2>4, <2>6, <2>7
  <1>2. CASE handed'[n][x] = handed[n][x]
    <2>0. /\ outcome[r] # "new"
          /\ \A b \in Broker : sent[r][b] # None => Before(r, sent[r][b].ts, LastHanded(r))
          /\ \A b \in Broker : \A p \in msgWire[b] :
               Carries(r, p.dst, p.text) => Before(r, p.ts, LastHanded(r))
      BY <1>2 DEF OnceInv, Handed
    <2>10. LastHanded(r)' = LastHanded(r)
      BY <1>2 DEF LastHanded
    <2>1. outcome'[r] # "new"
      BY <2>0, Growth
    <2>2. ASSUME NEW b \in Broker, sent'[r][b] # None PROVE Before(r, sent'[r][b].ts, LastHanded(r)')
      <3>1. sent[r][b] # None /\ sent'[r][b].ts = sent[r][b].ts
        BY <2>0, <2>2, EntryCases
      <3> QED BY <2>0, <2>10, <3>1
    <2>3. ASSUME NEW b \in Broker, NEW p \in msgWire'[b], Carries(r, p.dst, p.text)
          PROVE  Before(r, p.ts, LastHanded(r))
      <3>1. CASE p \in msgWire[b]
        BY <2>0, <2>3, <3>1
      <3>2. ASSUME NEW q \in Request, sent[q][b] # None, p = MsgPacketOf(q, b)
            PROVE  Before(r, p.ts, LastHanded(r))
        <4>1. p.dst = q.dst /\ p.text = q.text /\ p.ts = sent[q][b].ts
          BY <3>2 DEF MsgPacketOf
        <4>2. q = r
          BY <2>3, <4>1 DEF Alone, Carries
        <4> QED BY <2>0, <3>2, <4>1, <4>2
      <3> QED BY <3>1, <3>2, PacketCases
    <2>4. ASSUME NEW b \in Broker, NEW p \in msgWire'[b], Carries(r, p.dst, p.text)
          PROVE  Before(r, p.ts, LastHanded(r)')
      BY <2>3, <2>4, <2>10
    <2> QED BY <2>1, <2>2, <2>4
  <1> QED BY <1>1, <1>2

\* A repeat comes from a packet that the age check let through, so it is no later
\* than the window and the gap after the hand-over before it.
LEMMA RepeatStep ==
  ASSUME TypeOK, HashInv, OnceInv, [Next]_vars
  PROVE  RepeatInGap
  <1> SUFFICES ASSUME NEW r \in Request, Alone(r), Handed(r.dst, r.text),
                      handed'[r.dst][r.text] # handed[r.dst][r.text]
               PROVE  handed'[r.dst][r.text].last - handed[r.dst][r.text].last
                        <= Window + Gap(r)
    BY DEF RepeatInGap
  <1>0. r.src \in Node /\ r.dst \in Node /\ r.text \in Text
    BY RequestType
  <1>1. /\ handed'[r.dst][r.text].last = Now(r.dst)
        /\ \E b \in Broker : \E o \in msgWire[b] :
             o.dst = r.dst /\ o.text = r.text /\ Secs(Now(r.dst)) - o.ts <= 2 * Republish
    BY <1>0, HandOverCases
  <1>2. PICK b \in Broker : \E o \in msgWire[b] :
          o.dst = r.dst /\ o.text = r.text /\ Secs(Now(r.dst)) - o.ts <= 2 * Republish
    BY <1>1
  <1>3. PICK p \in msgWire[b] :
          p.dst = r.dst /\ p.text = r.text /\ Secs(Now(r.dst)) - p.ts <= 2 * Republish
    BY <1>2
  <1>4. p.ts \in Nat /\ Now(r.dst) \in Nat
    BY <1>0, NowType DEF TypeOK, MsgPacket
  <1>5. Now(r.dst) <= Begin(p.ts) + (Tps - 1) + Window
    BY <1>3, <1>4, AgeBound
  <1>6. Begin(p.ts) + Skew[r.dst] <= handed[r.dst][r.text].last + Skew[r.src]
    BY <1>3 DEF OnceInv, Carries, Before, LastHanded
  <1>7. /\ Begin(p.ts) \in Nat /\ handed[r.dst][r.text].last \in Nat
        /\ Skew[r.src] \in Nat /\ Skew[r.dst] \in Nat /\ Tps \in Nat
    BY <1>0, <1>4, BeginType, TimeAssumption DEF TypeOK
  <1>8. Now(r.dst) - handed[r.dst][r.text].last
          <= Window + ((Tps - 1) + Skew[r.src] - Skew[r.dst])
    BY <1>4, <1>5, <1>6, <1>7, TimeTypes
  <1> QED BY <1>1, <1>8 DEF Gap

\* handle_publish's age check, in whole seconds, against recv_msg_ids, in fractions:
\* handlers are given a text that one request carries again only in the gap between
\* the two, less than a second plus what the sender's clock is ahead of the
\* receiver's, over any brokers and whatever they repeat, if the clock does not
\* advance while a text is hashed.
THEOREM RepeatsOnlyInGap ==
  ASSUME PromptHash PROVE Spec => RepeatsEnd
  <1> DEFINE I == TypeOK /\ AgeInv /\ HashInv /\ OnceInv
  <1>1. Init => I
    BY TypeInit, AgeInit, HashInit, OnceInit
  <1>2. I /\ [Next]_vars => I' /\ [RepeatInGap]_vars
    <2> SUFFICES ASSUME I, [Next]_vars PROVE I' /\ RepeatInGap
      OBVIOUS
    <2>1. TypeOK'
      BY TypeNext
    <2>2. AgeInv'
      BY <2>1, AgeNext
    <2>3. HashInv'
      BY <2>1, HashNext
    <2>4. OnceInv'
      BY <2>1, OnceNext
    <2> QED BY <2>1, <2>2, <2>3, <2>4, RepeatStep
  <1> HIDE DEF I
  <1> QED BY <1>1, <1>2, PTL DEF Spec, RepeatsEnd
=============================================================================
