------------------------------ MODULE AppProto ------------------------------
(***************************************************************************)
(* Reliable delivery of application messages: MSG and MSGACK packets       *)
(* between the routers of several nodes, over several brokers at once.     *)
(*                                                                         *)
(* A node has one MQTTClient per broker.  A client keeps the messages it   *)
(* sends and the acks it sends in msg_queues; the dispatcher publishes     *)
(* them; the packet reader handles what the broker delivers.  All clients  *)
(* of a node share recv_msg_ids, the table of hashes of received texts.    *)
(*                                                                         *)
(* The network is the set of packets ever published, without those all of  *)
(* whose copies are gone: a broker may deliver any of them any number of   *)
(* times, late, in any order, or lose it, until it is published again.     *)
(* What happens between two awaits of the code is one step; Task holds the *)
(* runs of process_app_msg that are at an await.                           *)
(***************************************************************************)
EXTENDS Naturals, Integers

CONSTANTS
  Node, Broker, Queue, Text,
  PipeRequest,    \* requests made by SmartPipe.send
  QueueRequest,   \* requests made by MQTTClient.queue_msg
  Task,           \* slots for concurrent runs of process_app_msg
  Republish,      \* client.republish_duration, in seconds
  Tps,            \* clock ticks per second: time stamps are whole seconds
  Skew,           \* per node, how far its get_time is ahead (ticks)
  MaxTime,        \* bound on the clock
  AwaitAcks,      \* callers of queue_msg await each ack before the next send
  PromptHash,     \* hashing a text takes less than one tick
  MaxLoss,        \* bound on how often a packet is lost
  None

Request == PipeRequest \cup QueueRequest

ASSUME RequestAssumption ==
  /\ Request \subseteq [src: Node, dst: Node, queue: Queue, text: Text]
  /\ PipeRequest \cap QueueRequest = {}

\* SmartPipe.send draws a fresh 32-byte queue id for every call.
ASSUME FreshQueueAssumption ==
  \A r \in PipeRequest, q \in Request : r.queue = q.queue => r = q

ASSUME TimeAssumption ==
  /\ Republish \in Nat
  /\ Tps \in Nat \ {0}
  /\ Skew \in [Node -> Nat]
  /\ MaxTime \in Nat
  /\ MaxLoss \in Nat

ASSUME SwitchAssumption ==
  /\ AwaitAcks \in BOOLEAN
  /\ PromptHash \in BOOLEAN

ASSUME NoneAssumption ==
  /\ None \notin [seq: Nat, ts: Nat, created: Nat, acked: BOOLEAN]
  /\ None \notin Nat

VARIABLES
  clock,     \* true time, in ticks
  outcome,   \* what the caller of each request knows
  sent,      \* sent[r][b]: r's entry of msg_queues[MSG] of its client of b
  msgWire,   \* msgWire[b]: the MSG packets published on b
  ackWire,   \* ackWire[b]: the MSGACK packets published on b
  gone,      \* gone[b]: those of both that were lost, until published again
  losses,    \* how often a packet was lost
  ackq,      \* ackq[n][b]: msg_queues[MSGACK] of n's client of b
  recvIds,   \* recv_msg_ids of each node's router
  task,      \* the runs of process_app_msg that are at an await
  handed     \* history: how often, and when last, handlers were given a text

net  == <<gone, losses>>
vars == <<clock, outcome, sent, msgWire, ackWire, net, ackq, recvIds, task, handed>>

SentEntry == [seq: Nat, ts: Nat, created: Nat, acked: BOOLEAN]
AckEntry  == [queue: Queue, seq: Nat, dst: Node, created: Nat]
MsgPacket == [src: Node, dst: Node, queue: Queue, seq: Nat, ts: Nat, text: Text]
AckPacket == [src: Node, dst: Node, queue: Queue, seq: Nat]

Idle    == [pc |-> "idle"]
Running == [pc: {"hash", "ack"}, node: Node, broker: Broker, pkt: MsgPacket]

Now(n)   == clock + Skew[n]           \* get_time() of node n
Secs(t)  == t \div Tps                \* int(t)
Lifetime == Republish * Tps           \* republish_duration, in ticks
Window   == 2 * Lifetime              \* how long recv_msg_ids remembers

-----------------------------------------------------------------------------
Init ==
  /\ clock = 0
  /\ outcome = [r \in Request |-> "new"]
  /\ sent = [r \in Request |-> [b \in Broker |-> None]]
  /\ msgWire = [b \in Broker |-> {}]
  /\ ackWire = [b \in Broker |-> {}]
  /\ gone = [b \in Broker |-> {}]
  /\ losses = 0
  /\ ackq = [n \in Node |-> [b \in Broker |-> {}]]
  /\ recvIds = [n \in Node |-> [x \in Text |-> None]]
  /\ task = [k \in Task |-> Idle]
  /\ handed = [n \in Node |-> [x \in Text |-> [times |-> 0, last |-> 0]]]

-----------------------------------------------------------------------------
(* Sending. *)

\* The sequence numbers in use in r's queue at the sender's client of b.
SeqsInUse(r, b) ==
  {sent[q][b].seq : q \in {q \in Request : /\ q.src = r.src
                                           /\ q.queue = r.queue
                                           /\ sent[q][b] # None}}

\* Fault: the number before the first one, "max of what is there, or -1".
NextSeqsFromLast(K) == {s \in {-1} \cup K : \A x \in K : x <= s}

\* max + 1, or 0 for an empty queue.
NextSeqs(K) == {s \in {0} \cup {x + 1 : x \in K} : \A x \in K : x < s}

NewEntry(r, s) == [seq |-> s, ts |-> Secs(Now(r.src)),
                   created |-> clock, acked |-> FALSE]

MsgPacketOf(r, b) ==
  [src |-> r.src, dst |-> r.dst, queue |-> r.queue, seq |-> sent[r][b].seq,
   ts |-> sent[r][b].ts, text |-> r.text]

\* MQTTClient.queue_msg on the client of b, sequence number chosen by it.
QueueMsg(r, b) ==
  /\ outcome[r] = "new"
  /\ AwaitAcks => \A q \in QueueRequest :
                     q.src = r.src /\ q.queue = r.queue => outcome[q] # "sending"
  /\ \E s \in NextSeqs(SeqsInUse(r, b)) :
       sent' = [sent EXCEPT ![r][b] = NewEntry(r, s)]
  /\ outcome' = [outcome EXCEPT ![r] = "sending"]
  /\ UNCHANGED <<clock, msgWire, ackWire, net, ackq, recvIds, task, handed>>

\* SmartPipe.send up to its first await: the message is queued on all clients
\* under a fresh queue id.
PipeSend(r) ==
  /\ outcome[r] = "new"
  /\ sent' = [sent EXCEPT ![r] = [b \in Broker |-> NewEntry(r, 0)]]
  /\ outcome' = [outcome EXCEPT ![r] = "sending"]
  /\ UNCHANGED <<clock, msgWire, ackWire, net, ackq, recvIds, task, handed>>

\* A new copy of a packet.
Copied(p, b) == gone' = [gone EXCEPT ![b] = @ \ {p}] /\ UNCHANGED losses

\* Fault: a message is published once.
PublishMsgOnce(r, b) ==
  /\ sent[r][b] # None
  /\ clock - sent[r][b].created < Lifetime
  /\ MsgPacketOf(r, b) \notin msgWire[b]
  /\ msgWire' = [msgWire EXCEPT ![b] = @ \cup {MsgPacketOf(r, b)}]
  /\ Copied(MsgPacketOf(r, b), b)
  /\ UNCHANGED <<clock, outcome, sent, ackWire, ackq, recvIds, task, handed>>

\* The dispatcher of the client of b publishes a queued message that is still
\* within its lifetime, acked or not: again, if it did before.
PublishMsg(r, b) ==
  /\ sent[r][b] # None
  /\ clock - sent[r][b].created < Lifetime
  /\ msgWire' = [msgWire EXCEPT ![b] = @ \cup {MsgPacketOf(r, b)}]
  /\ Copied(MsgPacketOf(r, b), b)
  /\ UNCHANGED <<clock, outcome, sent, ackWire, ackq, recvIds, task, handed>>

AckPacketOf(n, a) == [src |-> n, dst |-> a.dst, queue |-> a.queue, seq |-> a.seq]

\* The same for a queued ack.
PublishAck(n, b, a) ==
  /\ a \in ackq[n][b]
  /\ clock - a.created < Lifetime
  /\ ackWire' = [ackWire EXCEPT ![b] = @ \cup {AckPacketOf(n, a)}]
  /\ Copied(AckPacketOf(n, a), b)
  /\ UNCHANGED <<clock, outcome, sent, msgWire, ackq, recvIds, task, handed>>

\* Every copy of a packet that a broker has is lost.
Lose(p, b) ==
  /\ losses < MaxLoss
  /\ p \notin gone[b]
  /\ gone' = [gone EXCEPT ![b] = @ \cup {p}]
  /\ losses' = losses + 1
  /\ UNCHANGED <<clock, outcome, sent, msgWire, ackWire, ackq, recvIds, task, handed>>

\* process_app_ack: the ack resolves the future of the entry it names, if it
\* comes from the node the message was sent to.  A caller of queue_msg awaits
\* that future itself.
ReceiveAck(r, b, a) ==
  /\ a \in ackWire[b] \ gone[b]
  /\ sent[r][b] # None
  /\ a.dst = r.src /\ a.queue = r.queue /\ a.seq = sent[r][b].seq
  /\ a.src = r.dst
  /\ ~sent[r][b].acked
  /\ sent' = [sent EXCEPT ![r][b].acked = TRUE]
  /\ outcome' = IF r \in QueueRequest THEN [outcome EXCEPT ![r] = "ok"] ELSE outcome
  /\ UNCHANGED <<clock, msgWire, ackWire, net, ackq, recvIds, task, handed>>

\* The rest of SmartPipe.send, once an ack future is done (PipeOk) or every
\* wait_for has timed out (PipeTimeout): the queue is dropped on all clients.
PipeEnd(r, result) ==
  /\ outcome[r] = "sending"
  /\ outcome' = [outcome EXCEPT ![r] = result]
  /\ sent' = [sent EXCEPT ![r] = [b \in Broker |-> None]]
  /\ UNCHANGED <<clock, msgWire, ackWire, net, ackq, recvIds, task, handed>>

\* Fault: a wait that timed out counts as one that was answered.
PipeOkOnAnyWait(r) == PipeEnd(r, "ok")

PipeOk(r) ==
  /\ \E b \in Broker : sent[r][b] # None /\ sent[r][b].acked
  /\ PipeEnd(r, "ok")

PipeTimeout(r) == PipeEnd(r, "failed")

-----------------------------------------------------------------------------
(* Receiving. *)

\* Fault: one second too lenient.
AcceptsLate(n, p) == p.dst = n /\ Secs(Now(n)) - p.ts <= 2 * Republish + 1

\* handle_publish: the packet is for n and young enough by n's own clock.
Accepts(n, p) == p.dst = n /\ Secs(Now(n)) - p.ts <= 2 * Republish

\* Fault: the ack of the message itself is pruned too.
PruneAcksUpTo(acks, p) == {a \in acks : ~(a.queue = p.queue /\ a.seq <= p.seq)}

\* Acks below the sequence number just received are no longer needed.
PruneAcks(acks, p) == {a \in acks : ~(a.queue = p.queue /\ a.seq < p.seq)}

AckFor(acks, p) == {a \in acks : a.queue = p.queue /\ a.seq = p.seq}

\* process_app_msg for a packet that has an ack queued: the queued ack is
\* published again, to whoever it was made for.
ReceiveAcked(n, b, p) ==
  /\ p \in msgWire[b] \ gone[b] /\ Accepts(n, p)
  /\ ackq' = [ackq EXCEPT ![n][b] = PruneAcks(@, p)]
  /\ \E a \in AckFor(PruneAcks(ackq[n][b], p), p) :
       /\ ackWire' = [ackWire EXCEPT ![b] = @ \cup {AckPacketOf(n, a)}]
       /\ Copied(AckPacketOf(n, a), b)
  /\ UNCHANGED <<clock, outcome, sent, msgWire, recvIds, task, handed>>

\* Fault: the ack is queued before the handlers have run.
ReceiveMsgAckFirst(n, b, p, k) ==
  /\ task[k] = Idle
  /\ p \in msgWire[b] \ gone[b] /\ Accepts(n, p)
  /\ AckFor(PruneAcks(ackq[n][b], p), p) = {}
  /\ ackq' = [ackq EXCEPT ![n][b] =
                PruneAcks(@, p) \cup {[queue |-> p.queue, seq |-> p.seq,
                                        dst |-> p.src, created |-> clock]}]
  /\ task' = [task EXCEPT ![k] = [pc |-> "hash", node |-> n, broker |-> b, pkt |-> p]]
  /\ UNCHANGED <<clock, outcome, sent, msgWire, ackWire, net, recvIds, handed>>

\* process_app_msg for any other packet, up to the await of the text's hash.
ReceiveMsg(n, b, p, k) ==
  /\ task[k] = Idle
  /\ p \in msgWire[b] \ gone[b] /\ Accepts(n, p)
  /\ AckFor(PruneAcks(ackq[n][b], p), p) = {}
  /\ ackq' = [ackq EXCEPT ![n][b] = PruneAcks(@, p)]
  /\ task' = [task EXCEPT ![k] = [pc |-> "hash", node |-> n, broker |-> b, pkt |-> p]]
  /\ UNCHANGED <<clock, outcome, sent, msgWire, ackWire, net, recvIds, handed>>

\* The hash is there: a text that is not in recv_msg_ids is stamped and given
\* to the handlers.
Stamp(k) ==
  /\ task[k].pc = "hash"
  /\ LET n == task[k].node
         x == task[k].pkt.text
     IN IF recvIds[n][x] = None
        THEN /\ recvIds' = [recvIds EXCEPT ![n][x] = Now(n)]
             /\ handed' = [handed EXCEPT ![n][x] =
                             [times |-> @.times + 1, last |-> Now(n)]]
        ELSE UNCHANGED <<recvIds, handed>>
  /\ task' = [task EXCEPT ![k].pc = "ack"]
  /\ UNCHANGED <<clock, outcome, sent, msgWire, ackWire, net, ackq>>

\* The handlers have returned and the ack is signed: it is queued unless one
\* is there by now.
QueueAck(k) ==
  /\ task[k].pc = "ack"
  /\ LET n == task[k].node
         b == task[k].broker
         p == task[k].pkt
     IN ackq' = [ackq EXCEPT ![n][b] =
                   IF AckFor(@, p) = {}
                   THEN @ \cup {[queue |-> p.queue, seq |-> p.seq,
                                 dst |-> p.src, created |-> clock]}
                   ELSE @]
  /\ task' = [task EXCEPT ![k] = Idle]
  /\ UNCHANGED <<clock, outcome, sent, msgWire, ackWire, net, recvIds, handed>>

\* Fault: hashes are remembered for one republish_duration only.
PruneEarly(n) ==
  /\ recvIds' = [recvIds EXCEPT ![n] =
                   [x \in Text |-> IF @[x] # None /\ Now(n) - @[x] > Lifetime
                                   THEN None ELSE @[x]]]
  /\ recvIds' # recvIds
  /\ UNCHANGED <<clock, outcome, sent, msgWire, ackWire, net, ackq, task, handed>>

\* prune_msg_ids, with the time at which the dispatcher began its sweep.
Prune(n) ==
  /\ \E now \in 0 .. Now(n) :
       recvIds' = [recvIds EXCEPT ![n] =
                     [x \in Text |-> IF @[x] # None /\ now - @[x] > Window
                                     THEN None ELSE @[x]]]
  /\ recvIds' # recvIds
  /\ UNCHANGED <<clock, outcome, sent, msgWire, ackWire, net, ackq, task, handed>>

Tick ==
  /\ clock < MaxTime
  /\ PromptHash => \A k \in Task : task[k].pc # "hash"
  /\ clock' = clock + 1
  /\ UNCHANGED <<outcome, sent, msgWire, ackWire, net, ackq, recvIds, task, handed>>

-----------------------------------------------------------------------------
Send ==
  \/ \E r \in QueueRequest, b \in Broker : QueueMsg(r, b)
  \/ \E r \in PipeRequest : PipeSend(r) \/ PipeOk(r) \/ PipeTimeout(r)
  \/ \E r \in Request, b \in Broker : PublishMsg(r, b)
  \/ \E r \in Request, b \in Broker : \E a \in ackWire[b] : ReceiveAck(r, b, a)

Receive ==
  \/ \E n \in Node, b \in Broker : \E p \in msgWire[b] : ReceiveAcked(n, b, p)
  \/ \E n \in Node, b \in Broker, k \in Task :
       \E p \in msgWire[b] : ReceiveMsg(n, b, p, k)
  \/ \E k \in Task : Stamp(k) \/ QueueAck(k)
  \/ \E n \in Node, b \in Broker : \E a \in ackq[n][b] : PublishAck(n, b, a)

Network == \E b \in Broker : \E p \in msgWire[b] \cup ackWire[b] : Lose(p, b)

Next == Send \/ Receive \/ Network \/ (\E n \in Node : Prune(n)) \/ Tick

Spec == Init /\ [][Next]_vars

\* A copy of a packet that carries r's text reaches n, acked before or not.
Delivered(r, n, b) ==
  \E p \in msgWire[b] :
    /\ p.src = r.src /\ p.text = r.text
    /\ ReceiveAcked(n, b, p) \/ \E k \in Task : ReceiveMsg(n, b, p, k)

(* Fairness: the dispatcher publishes a queued packet when no copy of it is   *)
(* left, and of the copies that are not lost one gets through; awaits end.    *)
(* That asks for at most MaxLoss + 1 publications of a packet.                *)
Fairness ==
  /\ \A r \in QueueRequest, b \in Broker : WF_vars(QueueMsg(r, b))
  /\ \A r \in Request, b \in Broker :
       /\ WF_vars(PublishMsg(r, b))
       /\ WF_vars(\E a \in ackWire[b] : ReceiveAck(r, b, a))
       /\ \A n \in Node : SF_vars(Delivered(r, n, b))
  /\ \A n \in Node, b \in Broker : WF_vars(\E a \in ackq[n][b] : PublishAck(n, b, a))
  /\ \A k \in Task : WF_vars(Stamp(k)) /\ WF_vars(QueueAck(k))

FairSpec == Spec /\ Fairness

-----------------------------------------------------------------------------
(* Properties. *)

\* The variables hold what the code's tables hold.
TypeOK ==
  /\ clock \in Nat
  /\ outcome \in [Request -> {"new", "sending", "ok", "failed"}]
  /\ sent \in [Request -> [Broker -> SentEntry \cup {None}]]
  /\ msgWire \in [Broker -> SUBSET MsgPacket]
  /\ ackWire \in [Broker -> SUBSET AckPacket]
  /\ gone \in [Broker -> SUBSET (MsgPacket \cup AckPacket)]
  /\ losses \in 0 .. MaxLoss
  /\ ackq \in [Node -> [Broker -> SUBSET AckEntry]]
  /\ recvIds \in [Node -> [Text -> Nat \cup {None}]]
  /\ task \in [Task -> {Idle} \cup Running]
  /\ handed \in [Node -> [Text -> [times: Nat, last: Nat]]]

\* recv_msg_ids, shared by all clients of a router and stamped before any
\* handler runs: handlers are never given the same text twice within twice
\* republish_duration, whatever the readers of the clients interleave, whatever
\* the network repeats, and whenever the table is pruned.
NoEarlyRepeat ==
  \A n \in Node, x \in Text :
    handed'[n][x].times > handed[n][x].times /\ handed[n][x].times > 0
      => handed'[n][x].last - handed[n][x].last > Window

DedupWindow == [][NoEarlyRepeat]_vars

Carries(r, n, x) == r.dst = n /\ r.text = x

Handed(n, x) == handed[n][x].times > 0

\* No other request brings r's text to r's receiver.
Alone(r) == \A q \in Request : Carries(q, r.dst, r.text) => q = r

\* Replay protection: prune_msg_ids forgets a text after the window, and the age
\* check of handle_publish, which counts whole seconds from the sender's stamp,
\* refuses it soon after.  Handlers see a text that one request carries again in
\* that gap only: it is shorter than a second plus what the sender's clock is
\* ahead of the receiver's.
Gap(r) == (Tps - 1) + Skew[r.src] - Skew[r.dst]

RepeatInGap ==
  \A r \in Request :
    Alone(r) /\ Handed(r.dst, r.text) /\ handed'[r.dst][r.text] # handed[r.dst][r.text]
      => handed'[r.dst][r.text].last - handed[r.dst][r.text].last <= Window + Gap(r)

RepeatsEnd == [][RepeatInGap]_vars

\* The callers of queue_msg that await each ack before the next send
\* have their queue handed over in order, with no gap.
OrderedHandOff ==
  \A r, q \in QueueRequest, b \in Broker :
    /\ r.src = q.src /\ r.queue = q.queue
    /\ sent[r][b] # None /\ sent[q][b] # None
    /\ sent[r][b].seq < sent[q][b].seq
    /\ Alone(q)
    /\ Handed(q.dst, q.text)
    => Handed(r.dst, r.text)

\* process_app_msg drops a queued ack only when the sender it was meant for no
\* longer waits for it ("it means the other side received our ack").
AckPruneSafe ==
  [][\A n \in Node, b \in Broker : \A a \in ackq[n][b] \ ackq'[n][b] :
       \A r \in Request :
         /\ r.src = a.dst /\ r.queue = a.queue
         /\ sent[r][b] # None /\ sent[r][b].seq = a.seq
         => sent[r][b].acked]_vars

\* Reliable delivery: a queued message is confirmed in the end, whichever of its
\* packets and acks are lost, as long as the losses are fewer than the copies.
EveryRequestConfirmed ==
  \A r \in QueueRequest : outcome[r] = "sending" ~> outcome[r] = "ok"

\* Refinement: outcomes are what the contract says they are, given the texts
\* handlers were handed.
Contract == INSTANCE SignalContract WITH
  given <- {w \in Node \X Text : Handed(w[1], w[2])}

ImplementsContract == Contract!Spec
=============================================================================
