------------------------------ MODULE Inbound ------------------------------
(***************************************************************************)
(* From bytes to handlers: the packet reader of one MQTTClient, which cuts *)
(* the stream of a connection into packets, and the loop that gives a      *)
(* received text to the handlers.                                          *)
(*                                                                         *)
(* A chunk of the stream is read by a task of its own.  All of them share  *)
(* client.buf; a task that has a whole packet is at an await until the     *)
(* packet is handled, and then goes on with whatever is in client.buf.     *)
(* recv_msg_ids is kept for good here: AppProto is about its pruning.      *)
(***************************************************************************)
EXTENDS Integers, FiniteSets, SequencesExt

CONSTANTS
  Radix,      \* a byte is a digit to this base and a continuation bit (128)
  Packet,     \* what the broker sends: a first byte and a body
  Msg,        \* those that handle_publish takes to be a MSG, each with its text
  Known,      \* first bytes whose type is in MQTTEnum
  Handler, Reader,
  Boundary,   \* lengths at which to look at the encoding to base 128
  MaxSent,    \* bound on the packets of a connection
  MaxConns,   \* bound on how often the client connects again
  None

Byte == 0 .. 2 * Radix - 1

\* The least number that does not fit into the length of a packet.
FourDigits(r) == r * r * r * r

ASSUME InboundAssumption ==
  /\ Radix \in Nat \ {0, 1} /\ MaxSent \in Nat /\ MaxConns \in Nat
  /\ Known \subseteq Byte /\ Boundary \subseteq Nat
  /\ Packet \subseteq [first: Known, body: Seq(Byte)]
  /\ \A p \in Packet : Len(p.body) < FourDigits(Radix)
  /\ Msg \subseteq Packet
  /\ \A H \in SUBSET Handler : H # None

VARIABLES
  wire,      \* bytes of the connection that have not arrived
  buf,       \* client.buf
  reader,    \* the runs of mqtt_packet_reader that are at an await
  handlers,  \* client.msg_handlers
  stamped,   \* recv_msg_ids: the handlers there were when a text was stamped
  acked,     \* the texts an ack was queued for
  conn,      \* how often the client has connected again
  sent,      \* history: the packets the broker has sent on this connection
  cut,       \* history: the packets the readers cut out of it
  aligned,   \* history: its first byte did not follow bytes of the last one
  calls      \* history: how often each handler was given each text

vars == <<wire, buf, reader, handlers, stamped, acked, conn, sent, cut, aligned, calls>>

Idle == [at |-> "idle"]

Init ==
  /\ wire = <<>> /\ buf = <<>> /\ sent = <<>> /\ cut = <<>>
  /\ reader = [k \in Reader |-> Idle]
  /\ handlers = {} /\ acked = {}
  /\ stamped = [x \in Msg |-> None]
  /\ calls = [x \in Msg |-> [h \in Handler |-> 0]]
  /\ conn = 0 /\ aligned = TRUE

-----------------------------------------------------------------------------
(* Packets and bytes. *)

\* mqtt_encode_varint: low digits first, all but the last marked.
EncodeVarint(r, v) ==
  LET enc[x \in Nat] == IF x < r THEN <<x>> ELSE <<(x % r) + r>> \o enc[x \div r]
  IN enc[v]

\* Fault: one byte less.
DecodeVarintThree(r, b, offset) ==
  LET dec[i \in 0 .. 3] ==
        IF i = 3 \/ offset + i >= Len(b) THEN [value |-> 0, used |-> 0]
        ELSE LET byte == b[offset + i + 1]
                 rest == dec[i + 1]
             IN IF byte < r THEN [value |-> byte, used |-> i + 1]
                ELSE [value |-> byte - r + r * rest.value, used |-> rest.used]
  IN dec[0]

\* mqtt_decode_varint: the value and the bytes it takes; used = 0 is ValueError,
\* too few bytes or four that are all marked.
DecodeVarint(r, b, offset) ==
  LET dec[i \in 0 .. 4] ==
        IF i = 4 \/ offset + i >= Len(b) THEN [value |-> 0, used |-> 0]
        ELSE LET byte == b[offset + i + 1]
                 rest == dec[i + 1]
             IN IF byte < r THEN [value |-> byte, used |-> i + 1]
                ELSE [value |-> byte - r + r * rest.value, used |-> rest.used]
  IN dec[0]

\* build(), as the broker does it.
Bytes ==
  [p \in Packet |-> <<p.first>> \o EncodeVarint(Radix, Len(p.body)) \o p.body]

\* Fault: the varint is taken to have one byte.
ParsePacketShort(raw) == [first |-> raw[1], body |-> SubSeq(raw, 3, Len(raw))]

\* mqtt_parse_packet.
ParsePacket(raw) ==
  [first |-> raw[1],
   body  |-> SubSeq(raw, 2 + DecodeVarint(Radix, raw, 1).used, Len(raw))]

-----------------------------------------------------------------------------
(* mqtt_packet_reader. *)

\* The packet at the start of b, if all of it is there: how long it is.
PacketLen(b) ==
  {1 + d.used + d.value : d \in {d \in {DecodeVarint(Radix, b, 1)} :
                                  /\ Len(b) >= 2 /\ d.used > 0
                                  /\ Len(b) >= 1 + d.used + d.value}}

\* A packet is handled, at an await.  A type that is not in MQTTEnum has raised
\* and ended the run.
Handling(p) == IF p.first \in Known THEN [at |-> "packet", pkt |-> p] ELSE Idle

\* The loop of reader k, with client.buf = b: it ends, or takes out a packet.
Loop(k, b) ==
  \/ /\ PacketLen(b) = {}
     /\ buf' = b
     /\ reader' = [reader EXCEPT ![k] = Idle]
     /\ UNCHANGED cut
  \/ \E total \in PacketLen(b) : \E p \in {ParsePacket(SubSeq(b, 1, total))} :
       /\ buf' = SubSeq(b, total + 1, Len(b))
       /\ cut' = Append(cut, p)
       /\ reader' = [reader EXCEPT ![k] = Handling(p)]

\* A chunk arrives.
Chunk(k) ==
  /\ reader[k] = Idle
  /\ \E n \in 1 .. Len(wire) :
       /\ wire' = SubSeq(wire, n + 1, Len(wire))
       /\ \E b \in {buf \o SubSeq(wire, 1, n)} : Loop(k, b)
  /\ UNCHANGED <<handlers, stamped, acked, conn, sent, aligned, calls>>

\* Fault: one packet for each chunk.
ResumeReturns(k) == reader' = [reader EXCEPT ![k] = Idle] /\ UNCHANGED <<buf, cut>>

\* handle_mqtt_packet has returned or raised.
Resume(k) == Loop(k, buf)

\* It returned for a packet that is no MSG, or because the PUBACK for one
\* could not be sent.
HandleEnds(k) ==
  /\ reader[k].at = "packet"
  /\ Resume(k)
  /\ UNCHANGED <<wire, handlers, stamped, acked, conn, sent, aligned, calls>>

-----------------------------------------------------------------------------
(* process_app_msg: the loop over the handlers. *)

\* The next handler is called and awaited; there is no order among them.
Iterate(k, x, todo) ==
  IF todo = {}
  THEN reader' = [reader EXCEPT ![k] = [at |-> "ack", pkt |-> x]] /\ UNCHANGED calls
  ELSE \E h \in todo :
         /\ calls' = [calls EXCEPT ![x][h] = @ + 1]
         /\ reader' = [reader EXCEPT ![k] = [at |-> "call", pkt |-> x, todo |-> todo \ {h}]]

\* Fault: the text is not stamped before its handlers are called.
StampLate(k) ==
  /\ reader[k].at = "packet" /\ reader[k].pkt \in Msg
  /\ LET x == reader[k].pkt
     IN IF stamped[x] # None
        THEN reader' = [reader EXCEPT ![k] = [at |-> "ack", pkt |-> x]]
             /\ UNCHANGED <<stamped, calls>>
        ELSE Iterate(k, x, handlers) /\ UNCHANGED stamped
  /\ UNCHANGED <<wire, buf, handlers, acked, conn, sent, cut, aligned>>

\* The text is hashed.  Its handlers are not called if it is stamped, as it is
\* also when an ack of it is queued.
Stamp(k) ==
  /\ reader[k].at = "packet" /\ reader[k].pkt \in Msg
  /\ LET x == reader[k].pkt
     IN IF stamped[x] # None
        THEN reader' = [reader EXCEPT ![k] = [at |-> "ack", pkt |-> x]]
             /\ UNCHANGED <<stamped, calls>>
        ELSE Iterate(k, x, handlers) /\ stamped' = [stamped EXCEPT ![x] = handlers]
  /\ UNCHANGED <<wire, buf, handlers, acked, conn, sent, cut, aligned>>

\* Fault: an error of a handler is not caught.
HandlerReturnsOrRaises(k) ==
  /\ reader[k].at = "call"
  /\ \/ Resume(k) /\ UNCHANGED calls
     \/ Iterate(k, reader[k].pkt, reader[k].todo) /\ UNCHANGED <<buf, cut>>
  /\ UNCHANGED <<wire, handlers, stamped, acked, conn, sent, aligned>>

\* A handler has returned or raised.  If msg_handlers has grown since the loop
\* began, the iterator raises, and no ack is queued by this run.
HandlerReturns(k) ==
  /\ reader[k].at = "call"
  /\ IF handlers # stamped[reader[k].pkt]
     THEN Resume(k) /\ UNCHANGED calls
     ELSE Iterate(k, reader[k].pkt, reader[k].todo) /\ UNCHANGED <<buf, cut>>
  /\ UNCHANGED <<wire, handlers, stamped, acked, conn, sent, aligned>>

\* The ack is queued.
QueueAck(k) ==
  /\ reader[k].at = "ack"
  /\ acked' = acked \cup {reader[k].pkt}
  /\ Resume(k)
  /\ UNCHANGED <<wire, handlers, stamped, conn, sent, aligned, calls>>

\* add_msg_handler of a client in use.
AddHandler(h) ==
  /\ h \notin handlers
  /\ handlers' = handlers \cup {h}
  /\ UNCHANGED <<wire, buf, reader, stamped, acked, conn, sent, cut, aligned, calls>>

-----------------------------------------------------------------------------
(* The broker and the connection. *)

Send(p) ==
  /\ Len(sent) < MaxSent
  /\ sent' = Append(sent, p)
  /\ wire' = wire \o Bytes[p]
  /\ UNCHANGED <<buf, reader, handlers, stamped, acked, conn, cut, aligned, calls>>

\* A connection is replaced, with what is still under way on it lost.
Replaced ==
  /\ conn < MaxConns /\ conn' = conn + 1
  /\ wire' = <<>> /\ sent' = <<>> /\ cut' = <<>>
  /\ UNCHANGED <<reader, handlers, stamped, acked, calls>>

\* Fault: only the tables are reset.
ReconnectKeepsBuf == Replaced /\ aligned' = TRUE /\ UNCHANGED buf

\* reconnect_loop: reset_session_state(client), then mqtt_connect.
Reconnect == Replaced /\ aligned' = TRUE /\ buf' = <<>>

\* connect() after the idle closer's close(), or after a connect that failed:
\* MQTTClient.reset_session_state leaves the buffer as it is.
Reopen == Replaced /\ aligned' = (buf = <<>>) /\ UNCHANGED buf

-----------------------------------------------------------------------------
Step(k) == HandleEnds(k) \/ Stamp(k) \/ HandlerReturns(k) \/ QueueAck(k)

Next ==
  \/ \E k \in Reader : Chunk(k) \/ Step(k)
  \/ \E h \in Handler : AddHandler(h)
  \/ \E p \in Packet : Send(p)
  \/ Reconnect \/ Reopen

Spec == Init /\ [][Next]_vars

\* What is sent arrives, and handlers and sends return.
FairSpec ==
  /\ Spec
  /\ WF_vars(\E k \in Reader : Chunk(k))
  /\ \A k \in Reader : WF_vars(Step(k))

-----------------------------------------------------------------------------
(* Properties. *)

\* Readers hold packets the broker sends, as long as the stream is aligned.
TypeOK ==
  /\ \A i \in 1 .. Len(wire) : wire[i] \in Byte
  /\ \A i \in 1 .. Len(buf) : buf[i] \in Byte
  /\ \A k \in Reader :
       \/ reader[k] = Idle
       \/ reader[k].at = "packet" /\ (aligned /\ conn = 0 => reader[k].pkt \in Packet)
       \/ reader[k].at = "ack" /\ reader[k].pkt \in Msg
       \/ reader[k].at = "call" /\ reader[k].pkt \in Msg /\ reader[k].todo \subseteq Handler
  /\ handlers \subseteq Handler /\ acked \subseteq Msg
  /\ \A x \in Msg : stamped[x] = None \/ stamped[x] \subseteq Handler
  /\ conn \in 0 .. MaxConns /\ aligned \in BOOLEAN

\* mqtt_encode_varint and mqtt_decode_varint, at every step of the number of
\* bytes: a length of up to four bytes is read back from exactly its bytes,
\* whatever follows, and never from fewer; a longer one is refused.  (Nothing
\* of it changes: the initial state is enough.)
VarintExact ==
  Init => \A r \in {Radix, 128} :
            \A v \in IF r = 128 THEN Boundary ELSE 0 .. FourDigits(r) :
    LET e == EncodeVarint(r, v)
    IN IF v < FourDigits(r)
       THEN /\ DecodeVarint(r, e \o <<0>>, 0) = [value |-> v, used |-> Len(e)]
            /\ \A n \in 0 .. Len(e) - 1 : DecodeVarint(r, SubSeq(e, 1, n), 0).used = 0
       ELSE DecodeVarint(r, e, 0).used = 0

Stream(s) ==
  LET upto[i \in 0 .. Len(s)] == IF i = 0 THEN <<>> ELSE upto[i - 1] \o Bytes[s[i]]
  IN upto[Len(s)]

\* mqtt_reader.py:18: however the stream is cut into chunks, and however the
\* readers of the chunks overtake each other while packets are handled: the
\* packets that are handled are those that were sent, in that order, and
\* nothing of the stream is lost.
Framed ==
  aligned => /\ IsPrefix(cut, sent)
             /\ Stream(cut) \o buf \o wire = Stream(sent)

\* app_proto.py:52-55: no handler is given a text twice, although the broker
\* may send it again while its handlers run.
CalledOnce == \A x \in Msg, h \in Handler : calls[x][h] <= 1

\* mqtt_reader.py:18-36: every packet of a connection that goes on is handled,
\* without any further chunk having to arrive.
PacketsRead == aligned /\ cut # sent ~> ~aligned \/ cut = sent

\* app_proto.py:58: once a text is stamped, all the handlers there were are
\* called, unless another one is added.
HandlersReached ==
  \A x \in Msg :
    stamped[x] # None ~>
      handlers # stamped[x] \/ \A h \in stamped[x] : calls[x][h] > 0
=============================================================================
