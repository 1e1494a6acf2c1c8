----------------------------- MODULE Dispatcher -----------------------------
(***************************************************************************)
(* One MQTTClient: its msg_queues, the dispatcher task that republishes    *)
(* what is in them, and the calls and incoming acks that change them while *)
(* the dispatcher is at an await.                                          *)
(*                                                                         *)
(* The event loop runs one task at a time.  While the dispatcher computes  *)
(* (pc = "run") nothing else happens; everything else happens while it     *)
(* waits: for a connection ("reconnect"), for pipe.send ("send") or for    *)
(* its pause between sweeps ("sleep").                                     *)
(*                                                                         *)
(* Times are left out: a message is "old" once republish_duration has      *)
(* passed, and whether the jittered backoff of a message that was already  *)
(* published has elapsed is left open.  The pipe is up or down; how it is  *)
(* opened is the subject of Session.                                       *)
(***************************************************************************)
EXTENDS Naturals, Sequences

CONSTANTS
  Queue,        \* queue ids of messages
  ProbeQueue,   \* queue ids of probes, this client's own and incoming ones
  MaxSeq,       \* bound on sequence numbers
  MaxLost,      \* bound on how often the connection breaks
  IgnoreAcked,  \* the ignore_acked argument of connect()
  DropQueues,   \* callers use dequeue_msg(queue_id)
  None

\* send_probe draws a fresh 32-byte queue id for every probe.
ASSUME DispatcherAssumption ==
  /\ MaxSeq \in Nat /\ MaxLost \in Nat
  /\ IgnoreAcked \in BOOLEAN /\ DropQueues \in BOOLEAN
  /\ Queue \cap ProbeQueue = {}

VARIABLES
  queues,   \* msg_queues[type][queue id]: None, or [seqs in use -> meta]
  pc,       \* where the dispatcher task is
  sweep,    \* the position of its iter_all_messages generator
  pipeUp,   \* client.pipe is set and open
  losses,   \* how often the connection broke
  closed,   \* how far close() is, from setting client.is_closed on
  signing,  \* acks whose signature is being computed by queue_msg_async
  emitted,  \* the message this step hands to the pipe, or None
  finished, \* history: messages acked or dequeued, until requeued
  direct    \* history: messages published by send_probe and send_probe_ack

vars == <<queues, pc, sweep, pipeUp, losses, closed, signing, emitted, finished, direct>>

Type    == {"MSG", "MSGACK", "PROBE"}
Id      == Queue \cup ProbeQueue
Seqs    == 0 .. MaxSeq
Meta    == [acked: BOOLEAN, oneShot: BOOLEAN, tried: BOOLEAN, old: BOOLEAN]
Key     == Type \X Id \X Seqs
NewMeta == [acked |-> FALSE, oneShot |-> FALSE, tried |-> FALSE, old |-> FALSE]
OneShot == [NewMeta EXCEPT !.oneShot = TRUE]
Tables  == UNION {[used -> Meta] : used \in SUBSET Seqs}

ASSUME NoneAssumption == None \notin Tables

\* types: the message types still to come; type, ids: the current one and its
\* queue ids still to come; queue, seqs: the current queue and its sequence
\* numbers still to come; orphan: the current queue, if it left msg_queues.
NoSweep == [types |-> <<>>, type |-> None, ids |-> {}, queue |-> None, seqs |-> {},
            orphan |-> None]

Init ==
  /\ queues = [t \in Type |-> [x \in Id |-> None]]
  /\ pc = "reconnect"
  /\ sweep = NoSweep
  /\ pipeUp = TRUE
  /\ losses = 0
  /\ closed = "no"
  /\ signing = {}
  /\ emitted = None
  /\ finished = {}
  /\ direct = {}

LoopFree == pc # "run"

\* The task has ended, by cancellation or by an exception it does not catch.
Stopped == pc \in {"off", "dead"}

Min(S) == CHOOSE s \in S : \A r \in S : s <= r

\* max + 1, or 0 for an empty queue.
NextSeq(used) ==
  CHOOSE s \in {0} \cup {u + 1 : u \in used} : \A u \in used : u < s

Used(t, x) == IF queues[t][x] = None THEN {} ELSE DOMAIN queues[t][x]

\* The queue with meta m under s (a new queue if there was none).
Put(t, x, s, m) ==
  [queues EXCEPT ![t][x] = [u \in Used(t, x) \cup {s} |-> IF u = s THEN m ELSE @[u]]]

Without(f, gone) == [s \in DOMAIN f \ gone |-> f[s]]

\* Deleting a queue the generator is in does not stop the generator: it still
\* holds the queue it looked up.
Orphaned(t, x) ==
  IF /\ pc = "send" /\ sweep.seqs # {} /\ sweep.orphan = None
     /\ sweep.type = t /\ sweep.queue = x
  THEN [sweep EXCEPT !.orphan = queues[t][x]] ELSE sweep

-----------------------------------------------------------------------------
(* What callers and the packet reader do. *)

\* queue_msg: ordered_ack_send with a sequence number of its own.
QueueMsg(x) ==
  /\ LoopFree
  /\ LET s == NextSeq(Used("MSG", x))
     IN /\ s <= MaxSeq
        /\ queues' = Put("MSG", x, s, NewMeta)
        /\ finished' = finished \ {<<"MSG", x, s>>}
  /\ emitted' = None
  /\ UNCHANGED <<pc, sweep, pipeUp, losses, closed, signing, direct>>

\* queue_msg_async for an ack, up to the await of its signature: the queue is
\* there from now on, the ack is not.
SignAck(x, s) ==
  /\ LoopFree
  /\ <<x, s>> \notin signing
  /\ s \notin Used("MSGACK", x)
  /\ signing' = signing \cup {<<x, s>>}
  /\ queues' = [queues EXCEPT !["MSGACK"][x] = IF @ = None THEN <<>> ELSE @]
  /\ emitted' = None
  /\ UNCHANGED <<pc, sweep, pipeUp, losses, closed, finished, direct>>

\* The rest of it: an ack that is there by now stays.
QueueAck(x, s) ==
  /\ LoopFree
  /\ <<x, s>> \in signing
  /\ signing' = signing \ {<<x, s>>}
  /\ IF s \in Used("MSGACK", x) THEN UNCHANGED <<queues, finished>>
     ELSE /\ queues' = Put("MSGACK", x, s, NewMeta)
          /\ finished' = finished \ {<<"MSGACK", x, s>>}
  /\ emitted' = None
  /\ UNCHANGED <<pc, sweep, pipeUp, losses, closed, direct>>

\* Fault: an ack queue that is empty then goes as well.
PruneAcksAll(x, s) ==
  /\ LoopFree
  /\ \E u \in Used("MSGACK", x) : u < s
  /\ queues' = [queues EXCEPT !["MSGACK"][x] =
                  IF \A u \in DOMAIN @ : u < s THEN None
                  ELSE Without(@, {u \in DOMAIN @ : u < s})]
  /\ emitted' = None
  /\ UNCHANGED <<pc, sweep, pipeUp, losses, closed, signing, finished, direct>>

\* process_app_msg for sequence number s: older acks go.
PruneAcks(x, s) ==
  /\ LoopFree
  /\ \E u \in Used("MSGACK", x) : u < s
  /\ queues' = [queues EXCEPT !["MSGACK"][x] = Without(@, {u \in DOMAIN @ : u < s})]
  /\ emitted' = None
  /\ UNCHANGED <<pc, sweep, pipeUp, losses, closed, signing, finished, direct>>

\* A one-shot message is registered and, with the pipe up, published at once.
PublishDirectly(t, x) ==
  /\ LoopFree
  /\ queues' = Put(t, x, 0, OneShot)
  /\ emitted' = IF pipeUp THEN <<t, x, 0>> ELSE None
  /\ direct' = direct \cup {<<t, x, 0>>}
  /\ UNCHANGED <<pc, sweep, pipeUp, losses, closed, signing, finished>>

\* send_probe, under a queue id of its own.
SendProbe(x) == <<"PROBE", x, 0>> \notin direct /\ PublishDirectly("PROBE", x)

\* process_app_probe and send_probe_ack: a probe that has an ack queued is not
\* answered again.
SendProbeAck(x) == 0 \notin Used("MSGACK", x) /\ PublishDirectly("MSGACK", x)

\* Fault: an acked entry is emptied, not marked or removed.
AckedEmptied(t, x, s) ==
  /\ s \in Used(t, x)
  /\ ~queues[t][x][s].acked
  /\ finished' = finished \cup {<<t, x, s>>}
  /\ queues' = [queues EXCEPT ![t][x][s] = None]

\* process_app_ack: the future of the entry it names, a MSG before a PROBE, is
\* resolved; a probe's entry goes, and its queue with its last entry.
Acked(t, x, s) ==
  /\ s \in Used(t, x)
  /\ ~queues[t][x][s].acked
  /\ finished' = finished \cup {<<t, x, s>>}
  /\ IF queues[t][x][s].oneShot
     THEN queues' = [queues EXCEPT ![t][x] =
                       IF DOMAIN @ = {s} THEN None ELSE Without(@, {s})]
     ELSE queues' = [queues EXCEPT ![t][x][s].acked = TRUE]

ReceiveAck(x, s) ==
  /\ LoopFree
  /\ IF s \in Used("MSG", x) THEN Acked("MSG", x, s) ELSE Acked("PROBE", x, s)
  /\ emitted' = None
  /\ UNCHANGED <<pc, sweep, pipeUp, losses, closed, signing, direct>>

\* dequeue_msg(queue_id, seq_no): the future is resolved, the entry stays.
DequeueSeq(x, s) ==
  /\ LoopFree
  /\ s \in Used("MSG", x)
  /\ ~queues["MSG"][x][s].acked
  /\ queues' = [queues EXCEPT !["MSG"][x][s].acked = TRUE]
  /\ finished' = finished \cup {<<"MSG", x, s>>}
  /\ emitted' = None
  /\ UNCHANGED <<pc, sweep, pipeUp, losses, closed, signing, direct>>

\* Fault: the futures are resolved, the queue stays.
DequeueAllStays(x) ==
  /\ LoopFree
  /\ DropQueues
  /\ queues["MSG"][x] # None
  /\ finished' = finished \cup {<<"MSG", x, s>> : s \in Used("MSG", x)}
  /\ emitted' = None
  /\ UNCHANGED <<queues, sweep, pc, pipeUp, losses, closed, signing, direct>>

\* dequeue_msg(queue_id): the queue goes, whatever the state of its entries.
DequeueAll(x) ==
  /\ LoopFree
  /\ DropQueues
  /\ queues["MSG"][x] # None
  /\ sweep' = Orphaned("MSG", x)
  /\ queues' = [queues EXCEPT !["MSG"][x] = None]
  /\ finished' = finished \cup {<<"MSG", x, s>> : s \in Used("MSG", x)}
  /\ emitted' = None
  /\ UNCHANGED <<pc, pipeUp, losses, closed, signing, direct>>

\* republish_duration passes.
Expire(t, x, s) ==
  /\ LoopFree
  /\ s \in Used(t, x) /\ ~queues[t][x][s].old
  /\ queues' = [queues EXCEPT ![t][x][s].old = TRUE]
  /\ emitted' = None
  /\ UNCHANGED <<pc, sweep, pipeUp, losses, closed, signing, finished, direct>>

PipeLost ==
  /\ LoopFree
  /\ pipeUp /\ losses < MaxLost
  /\ pipeUp' = FALSE /\ losses' = losses + 1
  /\ emitted' = None
  /\ UNCHANGED <<queues, pc, sweep, closed, signing, finished, direct>>

\* close() marks the client closed and cancels the dispatcher ...
Close ==
  /\ LoopFree
  /\ closed = "no"
  /\ closed' = "closing"
  /\ emitted' = None
  /\ UNCHANGED <<queues, pc, sweep, pipeUp, losses, signing, finished, direct>>

\* Fault: close() does not wait for the task it has cancelled.
DisconnectAtOnce ==
  /\ LoopFree
  /\ closed = "closing" /\ pipeUp
  /\ closed' = "bye"
  /\ emitted' = None
  /\ UNCHANGED <<queues, pc, sweep, pipeUp, losses, signing, finished, direct>>

\* ... waits until the task is done; if there is a pipe it sends DISCONNECT and
\* awaits pipe.close(), during which callers may go on ...
Disconnect ==
  /\ LoopFree
  /\ closed = "closing" /\ Stopped /\ pipeUp
  /\ closed' = "bye"
  /\ emitted' = None
  /\ UNCHANGED <<queues, pc, sweep, pipeUp, losses, signing, finished, direct>>

\* ... and returns without a pipe.
CloseDone ==
  /\ LoopFree
  /\ closed = "bye" \/ (closed = "closing" /\ Stopped /\ ~pipeUp)
  /\ closed' = "closed" /\ pipeUp' = FALSE
  /\ emitted' = None
  /\ UNCHANGED <<queues, pc, sweep, losses, signing, finished, direct>>

-----------------------------------------------------------------------------
(* The dispatcher task. *)

Quiet == /\ emitted' = None
         /\ UNCHANGED <<queues, losses, closed, signing, finished, direct>>

\* close() has cancelled the task: CancelledError at the await it is at.
Cancelled ==
  /\ closed # "no" /\ pc \in {"reconnect", "send", "sleep"}
  /\ pc' = "off" /\ sweep' = NoSweep
  /\ Quiet /\ UNCHANGED pipeUp

\* reconnect_loop opens a pipe if there is none.
Reconnect ==
  /\ pc = "reconnect" /\ closed = "no" /\ ~pipeUp
  /\ pipeUp' = TRUE
  /\ Quiet /\ UNCHANGED <<pc, sweep>>

\* The pipe is open: a sweep over all messages begins.
BeginSweep ==
  /\ pc = "reconnect" /\ closed = "no" /\ pipeUp
  /\ pc' = "run"
  /\ sweep' = [NoSweep EXCEPT !.types = <<"MSG", "MSGACK", "PROBE">>]
  /\ Quiet /\ UNCHANGED pipeUp

\* iter_all_messages takes a snapshot of the queue ids of the next type ...
NextType ==
  /\ pc = "run" /\ sweep.seqs = {} /\ sweep.ids = {} /\ sweep.types # <<>>
  /\ LET t == Head(sweep.types)
     IN sweep' = [NoSweep EXCEPT !.types = Tail(sweep.types), !.type = t,
                                 !.ids = {x \in Id : queues[t][x] # None}]
  /\ Quiet /\ UNCHANGED <<pc, pipeUp>>

\* ... looks each of them up, which fails if it has been deleted since: the
\* KeyError is none of the exceptions the dispatcher catches ...
NextQueue ==
  /\ pc = "run" /\ sweep.seqs = {}
  /\ \E x \in sweep.ids :
       LET q == queues[sweep.type][x]
       IN IF q = None
          THEN pc' = "dead" /\ sweep' = NoSweep
          ELSE /\ sweep' = [sweep EXCEPT !.ids = @ \ {x}, !.queue = x, !.orphan = None,
                                         !.seqs = DOMAIN q]
               /\ UNCHANGED pc
  /\ Quiet /\ UNCHANGED pipeUp

\* What the generator finds under s in the queue it holds, or None.
Found(s) ==
  LET q == IF sweep.orphan = None THEN queues[sweep.type][sweep.queue] ELSE sweep.orphan
  IN IF s \in DOMAIN q THEN q[s] ELSE None

\* Fault: one_shot is not looked at.
DueOneShot(m) == ~(IgnoreAcked /\ m.acked) /\ ~m.old

\* republish_meta lets m pass, if its backoff has elapsed.
Due(m) == ~m.oneShot /\ ~(IgnoreAcked /\ m.acked) /\ ~m.old

\* ... and yields the entries of the queue that are still there by their
\* sequence numbers.  An entry that is due is published; a pipe that broke
\* ends the sweep.
Skip(s) ==
  /\ Found(s) # None => pipeUp /\ (Due(Found(s)) => Found(s).tried)
  /\ sweep' = [sweep EXCEPT !.seqs = @ \ {s}]
  /\ Quiet /\ UNCHANGED <<pc, pipeUp>>

\* Fault: a broken pipe ends the dispatcher, not the sweep.
BreakForGood(s) ==
  /\ Found(s) # None /\ ~pipeUp
  /\ pc' = "off" /\ sweep' = NoSweep
  /\ Quiet /\ UNCHANGED pipeUp

Break(s) ==
  /\ Found(s) # None /\ ~pipeUp
  /\ pc' = "sleep" /\ sweep' = NoSweep
  /\ Quiet /\ UNCHANGED pipeUp

Republish(s) ==
  /\ Found(s) # None /\ pipeUp /\ Due(Found(s))
  /\ pc' = "send"
  /\ sweep' = [sweep EXCEPT !.seqs = @ \ {s}]
  /\ queues' = IF sweep.orphan = None
               THEN [queues EXCEPT ![sweep.type][sweep.queue][s].tried = TRUE]
               ELSE queues
  /\ emitted' = <<sweep.type, sweep.queue, s>>
  /\ UNCHANGED <<pipeUp, losses, closed, signing, finished, direct>>

NextMeta ==
  /\ pc = "run" /\ sweep.seqs # {}
  /\ LET s == Min(sweep.seqs) IN Skip(s) \/ Break(s) \/ Republish(s)

SendDone ==
  /\ pc = "send" /\ closed = "no"
  /\ pc' = "run"
  /\ Quiet /\ UNCHANGED <<sweep, pipeUp>>

EndSweep ==
  /\ pc = "run" /\ sweep.seqs = {} /\ sweep.ids = {} /\ sweep.types = <<>>
  /\ pc' = "sleep" /\ sweep' = NoSweep
  /\ Quiet /\ UNCHANGED pipeUp

SleepDone ==
  /\ pc = "sleep" /\ closed = "no"
  /\ pc' = "reconnect"
  /\ Quiet /\ UNCHANGED <<sweep, pipeUp>>

Task == \/ Cancelled \/ Reconnect \/ BeginSweep \/ NextType \/ NextQueue
        \/ NextMeta \/ SendDone \/ EndSweep \/ SleepDone

Environment ==
  \/ \E x \in Queue : QueueMsg(x) \/ DequeueAll(x)
  \/ \E x \in ProbeQueue : SendProbe(x) \/ SendProbeAck(x)
  \/ \E x \in Queue, s \in Seqs :
       SignAck(x, s) \/ QueueAck(x, s) \/ PruneAcks(x, s + 1) \/ DequeueSeq(x, s)
  \/ \E x \in Id, s \in Seqs : ReceiveAck(x, s)
  \/ \E t \in {"MSG", "MSGACK"}, x \in Queue, s \in Seqs : Expire(t, x, s)
  \/ PipeLost \/ Close \/ Disconnect \/ CloseDone

Next == Task \/ Environment

Spec == Init /\ [][Next]_vars

\* The event loop runs a task that can go on, and a broker can be reached again.
FairSpec == Spec /\ WF_vars(Task) /\ WF_vars(Disconnect) /\ WF_vars(CloseDone)

-----------------------------------------------------------------------------
(* Properties. *)

TypeOK ==
  /\ \A t \in Type, x \in Id :
       /\ Used(t, x) \subseteq Seqs
       /\ \A s \in Used(t, x) : queues[t][x][s] \in Meta
  /\ pc \in {"reconnect", "run", "send", "sleep", "off", "dead"}
  /\ pipeUp \in BOOLEAN /\ losses \in 0 .. MaxLost
  /\ closed \in {"no", "closing", "bye", "closed"}
  /\ signing \subseteq Queue \X Seqs
  /\ emitted \in Key \cup {None}
  /\ finished \subseteq Key /\ direct \subseteq Key

\* dequeue_msg(queue_id) stops retransmission of what it drops, however that falls
\* between two steps of a sweep: what is published though it is finished is still
\* queued, acked or dequeued by its number, and ignore_acked is not set (the default
\* of connect()); except, once, the later entries of a queue dropped while the sweep
\* is in it.
AgainOnlyAcked ==
  emitted' # None /\ sweep.orphan = None /\ emitted' \in finished =>
    /\ ~IgnoreAcked
    /\ \E t \in Type, x \in Id : \E s \in Used(t, x) :
         emitted' = <<t, x, s>> /\ queues[t][x][s].acked

OnlyAckedAgain == [][AgainOnlyAcked]_vars

\* A message published by send_probe or send_probe_ack leaves that way only:
\* the sweep does not publish it again.
OneShotOnce == [][emitted' # None => emitted' \notin direct]_vars

\* No dispatcher is left when close() sends DISCONNECT, and once close() has
\* returned nothing is published, by send_probe and send_probe_ack neither.
QuietAfterClose ==
  [][/\ closed \in {"bye", "closed"} => Stopped
     /\ closed = "closed" => emitted' = None]_vars

\* mqtt_dispatch.py:37: "Loop forever until is close is set or task cancelled."
DispatcherSurvives == pc = "dead" => closed # "no"

\* The dispatcher dies at the lookup of a MSG queue only, one that dequeue_msg(queue_id)
\* took away after the snapshot; ack and probe queues that go do not end it.
LookupFails == sweep.type = "MSG" /\ \E x \in sweep.ids : queues["MSG"][x] = None

DiesOfDropsOnly == [][pc' = "dead" => pc = "dead" \/ LookupFails]_vars

\* A message that is queued is published unless it is dropped, finished or
\* old first, the client is closed or its dispatcher has died; across lost
\* connections too.
Waiting(t, x, s) == s \in Used(t, x) /\ Due(queues[t][x][s]) /\ ~queues[t][x][s].tried

EveryMessagePublished ==
  \A t \in {"MSG", "MSGACK"}, x \in Queue, s \in Seqs :
    Waiting(t, x, s) ~> (~Waiting(t, x, s) \/ closed # "no" \/ pc = "dead")
=============================================================================
