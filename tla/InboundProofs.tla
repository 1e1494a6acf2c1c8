--------------------------- MODULE InboundProofs ---------------------------
(***************************************************************************)
(* Proofs about Inbound, for any packets, handlers and number of readers:  *)
(* the loop over the handlers, with handlers added at any time; the length *)
(* of a packet, for any base; the packets cut out of the stream, however   *)
(* it is cut into chunks; and what a reader holds.                         *)
(***************************************************************************)
EXTENDS Inbound, Recursion, SequenceTheorems, TLAPS

Calling(k) == reader[k].at = "call"

\* A run that is in the loop works on a text that is stamped, and has handlers
\* before it that nobody has given the text to.
CallOK(k) ==
  Calling(k) => /\ reader[k].pkt \in Msg /\ reader[k].todo \subseteq Handler
                /\ stamped[reader[k].pkt] # None
                /\ \A h \in reader[k].todo : calls[reader[k].pkt][h] = 0

\* CalledOnce alone is not inductive: it needs that no two runs are in the loop
\* for one text, and that a text which is not stamped was given to nobody.
CallInv ==
  /\ DOMAIN reader = Reader /\ DOMAIN stamped = Msg /\ handlers \subseteq Handler
  /\ calls \in [Msg -> [Handler -> Nat]]
  /\ \A x \in Msg : stamped[x] = None => \A h \in Handler : calls[x][h] = 0
  /\ \A k \in Reader : CallOK(k)
  /\ \A j, k \in Reader : j # k /\ Calling(j) /\ Calling(k) => reader[j].pkt # reader[k].pkt
  /\ CalledOnce

\* No handler has been called at the start.
LEMMA CallInit == Init => CallInv
  BY DEF Init, Idle, CallInv, CallOK, Calling, CalledOnce

\* A step that takes reader k out of the loop, or leaves it out of it, and
\* changes no table.
LEMMA OutOfLoop ==
  ASSUME CallInv, NEW k \in Reader, NEW r, reader' = [reader EXCEPT ![k] = r],
         r.at # "call", handlers' \subseteq Handler, UNCHANGED <<stamped, calls>>
  PROVE  CallInv'
  BY DEF CallInv, CallOK, Calling, CalledOnce

\* mqtt_packet_reader takes the next packet or ends; it is not in a handler.
LEMMA LoopLeaves ==
  ASSUME NEW k \in Reader, NEW b, Loop(k, b)
  PROVE  \E r : reader' = [reader EXCEPT ![k] = r] /\ r.at # "call"
  <1>1. Idle.at # "call"
    BY DEF Idle
  <1>2. CASE reader' = [reader EXCEPT ![k] = Idle]
    BY <1>1, <1>2
  <1>3. ASSUME NEW p, reader' = [reader EXCEPT ![k] = Handling(p)]
        PROVE  \E r : reader' = [reader EXCEPT ![k] = r] /\ r.at # "call"
    <2>1. Handling(p).at # "call"
      BY DEF Handling, Idle
    <2> QED BY <1>3, <2>1
  <1> QED BY <1>2, <1>3 DEF Loop

\* The loop of the packet reader goes on.
LEMMA LoopKeeps ==
  ASSUME CallInv, NEW k \in Reader, NEW b, Loop(k, b),
         UNCHANGED <<handlers, stamped, calls>>
  PROVE  CallInv'
  <1>1. PICK r : reader' = [reader EXCEPT ![k] = r] /\ r.at # "call"
    BY LoopLeaves
  <1> QED BY <1>1, OutOfLoop DEF CallInv

\* The loop over the handlers comes to the next one: nobody was given the text
\* yet of those to come, and no other run works on it.
LEMMA IterateKeeps ==
  ASSUME CallInv, NEW k \in Reader, NEW x \in Msg, NEW todo \in SUBSET Handler,
         Iterate(k, x, todo),
         \A h \in todo : calls[x][h] = 0,
         \A j \in Reader : j # k /\ Calling(j) => reader[j].pkt # x,
         handlers' = handlers, DOMAIN stamped' = Msg, stamped'[x] # None,
         \A y \in Msg : y # x => stamped'[y] = stamped[y]
  PROVE  CallInv'
  <1>1. CASE todo = {}
    <2>1. /\ reader' = [reader EXCEPT ![k] = [at |-> "ack", pkt |-> x]]
          /\ UNCHANGED calls
      BY <1>1 DEF Iterate
    <2>2. DOMAIN reader' = Reader /\ ~Calling(k)'
          /\ \A j \in Reader : j # k => reader'[j] = reader[j]
      BY <2>1 DEF CallInv, Calling
    <2> QED BY <2>1, <2>2 DEF CallInv, CallOK, Calling, CalledOnce
  <1>2. CASE todo # {}
    <2>1. PICK h \in todo :
            /\ calls' = [calls EXCEPT ![x][h] = @ + 1]
            /\ reader' = [reader EXCEPT ![k] =
                            [at |-> "call", pkt |-> x, todo |-> todo \ {h}]]
      BY <1>2 DEF Iterate
    <2>2. /\ calls' \in [Msg -> [Handler -> Nat]]
          /\ calls'[x][h] = 1
          /\ \A y \in Msg, g \in Handler :
               ~(y = x /\ g = h) => calls'[y][g] = calls[y][g]
      BY <2>1 DEF CallInv
    <2>3. /\ DOMAIN reader' = Reader
          /\ reader'[k].pkt = x /\ reader'[k].todo = todo \ {h}
          /\ \A j \in Reader : j # k => reader'[j] = reader[j]
      BY <2>1 DEF CallInv
    <2>4. \A y \in Msg : stamped'[y] = None => \A g \in Handler : calls'[y][g] = 0
      BY <2>2 DEF CallInv
    <2>5. ASSUME NEW j \in Reader PROVE CallOK(j)'
      <3>1. CASE j = k
        BY <2>2, <2>3, <3>1 DEF CallOK
      <3>2. CASE j # k
        BY <2>2, <2>3, <3>2 DEF CallInv, CallOK, Calling
      <3> QED BY <3>1, <3>2
    <2>6. \A i, j \in Reader :
            i # j /\ Calling(i)' /\ Calling(j)' => reader'[i].pkt # reader'[j].pkt
      BY <2>3 DEF CallInv, Calling
    <2>7. CalledOnce'
      BY <2>2 DEF CallInv, CalledOnce
    <2> QED BY <2>2, <2>3, <2>4, <2>5, <2>6, <2>7 DEF CallInv
  <1> QED BY <1>1, <1>2

\* Every step of the readers keeps the invariant of the calls.
LEMMA CallNext == CallInv /\ [Next]_vars => CallInv'
  <1> SUFFICES ASSUME CallInv, [Next]_vars PROVE CallInv'
    OBVIOUS
  <1>1. ASSUME NEW k \in Reader, Chunk(k) PROVE CallInv'
    BY <1>1, LoopKeeps DEF Chunk
  <1>2. ASSUME NEW k \in Reader, HandleEnds(k) PROVE CallInv'
    BY <1>2, LoopKeeps DEF HandleEnds, Resume
  <1>3. ASSUME NEW k \in Reader, Stamp(k) PROVE CallInv'
    <2> DEFINE x == reader[k].pkt
    <2>0. x \in Msg /\ UNCHANGED handlers
      BY <1>3 DEF Stamp
    <2>1. CASE stamped[x] # None
      <3> DEFINE r == [at |-> "ack", pkt |-> x]
      <3>1. reader' = [reader EXCEPT ![k] = r] /\ UNCHANGED <<stamped, calls>>
        BY <1>3, <2>1 DEF Stamp
      <3>2. r.at # "call" /\ handlers' \subseteq Handler
        BY <2>0 DEF CallInv
      <3> HIDE DEF r
      <3> QED BY <3>1, <3>2, OutOfLoop
    <2>2. CASE stamped[x] = None
      <3>1. Iterate(k, x, handlers) /\ stamped' = [stamped EXCEPT ![x] = handlers]
        BY <1>3, <2>2 DEF Stamp
      <3>2. \A h \in handlers : calls[x][h] = 0
        BY <2>0, <2>2 DEF CallInv
      <3>3. \A j \in Reader : j # k /\ Calling(j) => reader[j].pkt # x
        BY <2>2 DEF CallInv, CallOK
      <3>4. /\ DOMAIN stamped' = Msg /\ stamped'[x] # None
            /\ \A y \in Msg : y # x => stamped'[y] = stamped[y]
        BY <2>0, <3>1, InboundAssumption DEF CallInv
      <3>5. handlers \in SUBSET Handler
        BY DEF CallInv
      <3> HIDE DEF x
      <3> QED BY <2>0, <3>1, <3>2, <3>3, <3>4, <3>5, IterateKeeps
    <2> QED BY <2>1, <2>2
  <1>4. ASSUME NEW k \in Reader, HandlerReturns(k) PROVE CallInv'
    <2> DEFINE x == reader[k].pkt
               todo == reader[k].todo
    <2>0. Calling(k) /\ UNCHANGED <<handlers, stamped>>
      BY <1>4 DEF HandlerReturns, Calling
    <2>1. CASE handlers # stamped[x]
      BY <1>4, <2>0, <2>1, LoopKeeps DEF HandlerReturns, Resume
    <2>2. CASE handlers = stamped[x]
      <3>1. Iterate(k, x, todo)
        BY <1>4, <2>2 DEF HandlerReturns
      <3>2. /\ x \in Msg /\ todo \in SUBSET Handler /\ stamped[x] # None
            /\ \A h \in todo : calls[x][h] = 0
        BY <2>0 DEF CallInv, CallOK
      <3>3. \A j \in Reader : j # k /\ Calling(j) => reader[j].pkt # x
        BY <2>0 DEF CallInv
      <3>4. DOMAIN stamped = Msg
        BY DEF CallInv
      <3> HIDE DEF x, todo
      <3> QED BY <2>0, <3>1, <3>2, <3>3, <3>4, IterateKeeps
    <2> QED BY <2>1, <2>2
  <1>5. ASSUME NEW k \in Reader, QueueAck(k) PROVE CallInv'
    BY <1>5, LoopKeeps DEF QueueAck, Resume
  <1>6. ASSUME NEW h \in Handler, AddHandler(h) PROVE CallInv'
    BY <1>6 DEF AddHandler, CallInv, CallOK, Calling, CalledOnce
  <1>7. CASE (\E p \in Packet : Send(p)) \/ Reconnect \/ Reopen \/ UNCHANGED vars
    BY <1>7 DEF Send, Reconnect, Reopen, Replaced, vars,
                CallInv, CallOK, Calling, CalledOnce
  <1> QED BY <1>1, <1>2, <1>3, <1>4, <1>5, <1>6, <1>7 DEF Next, Step

\* process_app_msg (app_proto.py:51-59): no handler is given a text twice by the
\* runs that work on copies of it at the same time, however many there are and
\* whenever handlers are added, as long as its hash is remembered.
THEOREM HandlersCalledOnce == Spec => []CalledOnce
  <1>1. CallInv => CalledOnce
    BY DEF CallInv
  <1> QED BY <1>1, CallInit, CallNext, PTL DEF Spec

-----------------------------------------------------------------------------
(* The length of a packet. *)

\* The loop of mqtt_encode_varint, as a recursion on the value.
LEMMA EncodeUnfolds ==
  ASSUME NEW r \in Nat \ {0, 1}
  PROVE  \A v \in Nat :
           EncodeVarint(r, v) = IF v < r THEN <<v>>
                                ELSE <<(v % r) + r>> \o EncodeVarint(r, v \div r)
<1> DEFINE V == Seq(Nat)
           stop == 0 .. r - 1
           base == [x \in Nat |-> <<x>>]
           down == [x \in Nat |-> x \div r]
           step == [s \in Nat \X V |-> <<(s[1] % r) + r>> \o s[2]]
           Enc(f) == f = [x \in Nat |-> IF x < r THEN <<x>>
                                        ELSE <<(x % r) + r>> \o f[x \div r]]
<1>1. \A x \in Nat : x \div r \in Nat /\ x % r \in 0 .. r - 1 /\ (x >= r => x \div r < x)
  OBVIOUS
<1>2. step \in [Nat \X V -> V]
  <2> SUFFICES ASSUME NEW x \in Nat, NEW s \in V PROVE <<(x % r) + r>> \o s \in V
    OBVIOUS
  <2>1. (x % r) + r \in Nat
    BY <1>1
  <2> QED
    BY <2>1
<1>3. down \in [Nat -> Nat] /\ \A x \in Nat \ stop : down[x] < x
  BY <1>1
<1>4. stop \in SUBSET Nat /\ base \in [Nat -> V]
  OBVIOUS
<1>5. \A x \in Nat, s \in V :
        /\ base[x] = <<x>> /\ down[x] = x \div r /\ step[<<x, s>>] = <<(x % r) + r>> \o s
        /\ (x \in stop <=> x < r)
  OBVIOUS
<1> HIDE DEF base, down, step, stop, V
<1>6. PICK f \in [Nat -> V] : \A x \in Nat : Follows(f, x, stop, base, down, step)
  BY <1>2, <1>3, <1>4, RecursionEnds
<1>7. ASSUME NEW x \in Nat
      PROVE  f[x] = IF x < r THEN <<x>> ELSE <<(x % r) + r>> \o f[x \div r]
  <2>1. Follows(f, x, stop, base, down, step) /\ f[x \div r] \in V
    BY <1>1, <1>6
  <2> QED
    BY <1>5, <2>1 DEF Follows
<1>8. Enc(f)
  BY <1>7
<1> DEFINE g == CHOOSE h : Enc(h)
<1>9. Enc(g)
  <2> HIDE DEF Enc
  <2> QED
    BY <1>8
<1>10. \A x : EncodeVarint(r, x) = g[x]
  BY DEF EncodeVarint
<1> HIDE DEF g
<1> QED
  BY <1>1, <1>9, <1>10

\* It emits bytes.
LEMMA EncodeBytes ==
  ASSUME NEW r \in Nat \ {0, 1}
  PROVE  \A v \in Nat : EncodeVarint(r, v) \in Seq(0 .. 2 * r - 1)
<1> DEFINE E(v) == EncodeVarint(r, v)
           Good(v) == E(v) \in Seq(0 .. 2 * r - 1)
           Bad == {v \in Nat : ~Good(v)}
<1>1. ASSUME NEW v \in Nat, \A w \in Nat : w < v => Good(w) PROVE Good(v)
  <2>1. E(v) = IF v < r THEN <<v>> ELSE <<(v % r) + r>> \o E(v \div r)
    BY EncodeUnfolds
  <2> HIDE DEF E
  <2>2. CASE v < r
    BY <2>1, <2>2
  <2>3. CASE v >= r
    <3> DEFINE e == E(v \div r)
               d == (v % r) + r
    <3>1. v \div r \in Nat /\ v \div r < v /\ d \in 0 .. 2 * r - 1
      BY <2>3
    <3>2. e \in Seq(0 .. 2 * r - 1) /\ E(v) = <<d>> \o e
      BY <1>1, <2>1, <2>3, <3>1
    <3> HIDE DEF d, e
    <3> QED
      BY <3>1, <3>2
  <2> QED
    BY <2>2, <2>3
<1> HIDE DEF Good
<1>2. Bad = {}
  <2> SUFFICES ASSUME Bad # {} PROVE FALSE
    OBVIOUS
  <2>1. PICK v \in Bad : \A w \in Bad : v <= w
    <3>1. Bad \in SUBSET Nat
      OBVIOUS
    <3> HIDE DEF Bad
    <3> QED
      BY <3>1, LeastNumber
  <2> QED
    BY <1>1, <2>1
<1> QED
  BY <1>2 DEF Good

\* The first byte of an encoded length, and the rest of it.
LEMMA EncodeParts ==
  ASSUME NEW r \in Nat \ {0, 1}, NEW v \in Nat
  PROVE  /\ v \div r \in Nat /\ v % r \in 0 .. r - 1 /\ (v % r) + r * (v \div r) = v
         /\ Len(EncodeVarint(r, v)) \in Nat \ {0}
         /\ v < r => Len(EncodeVarint(r, v)) = 1 /\ EncodeVarint(r, v)[1] = v
         /\ v >= r => /\ Len(EncodeVarint(r, v)) = 1 + Len(EncodeVarint(r, v \div r))
                      /\ EncodeVarint(r, v)[1] = (v % r) + r
                      /\ \A j \in 1 .. Len(EncodeVarint(r, v \div r)) :
                           EncodeVarint(r, v)[j + 1] = EncodeVarint(r, v \div r)[j]
<1>1. v \div r \in Nat /\ v % r \in 0 .. r - 1 /\ (v % r) + r * (v \div r) = v
  OBVIOUS
<1> DEFINE e == EncodeVarint(r, v)
           f == EncodeVarint(r, v \div r)
           d == (v % r) + r
<1>2. e \in Seq(0 .. 2 * r - 1) /\ f \in Seq(0 .. 2 * r - 1) /\ d \in Nat
  <2>1. d \in Nat
    BY <1>1
  <2>2. e \in Seq(0 .. 2 * r - 1) /\ f \in Seq(0 .. 2 * r - 1)
    <3> DEFINE E(x) == EncodeVarint(r, x)
    <3>1. \A x \in Nat : E(x) \in Seq(0 .. 2 * r - 1)
      BY EncodeBytes
    <3> HIDE DEF E
    <3>2. E(v) \in Seq(0 .. 2 * r - 1) /\ E(v \div r) \in Seq(0 .. 2 * r - 1)
      BY <1>1, <3>1
    <3> QED
      BY <3>2 DEF E
  <2> QED
    BY <2>1, <2>2
<1>3. e = IF v < r THEN <<v>> ELSE <<d>> \o f
  BY EncodeUnfolds
<1> HIDE DEF d, e, f
<1>4. v < r => Len(e) = 1 /\ e[1] = v
  BY <1>3
<1>5. v >= r => /\ Len(e) = 1 + Len(f) /\ e[1] = d
                /\ \A j \in 1 .. Len(f) : e[j + 1] = f[j]
  BY <1>2, <1>3
<1>6. Len(e) \in Nat \ {0}
  BY <1>2, <1>4, <1>5
<1> QED
  BY <1>1, <1>4, <1>5, <1>6 DEF d, e, f

Refused == [value |-> 0, used |-> 0]

\* What mqtt_decode_varint makes of byte i, with what it makes of the rest.
Digit(r, b, o, i, rest) ==
  IF o + i >= Len(b) THEN Refused
  ELSE IF b[o + i + 1] < r THEN [value |-> b[o + i + 1], used |-> i + 1]
  ELSE [value |-> b[o + i + 1] - r + r * rest.value, used |-> rest.used]

\* d is what mqtt_decode_varint has at each of its rounds.
Rounds(r, b, o, d) ==
  /\ d[4] = Refused
  /\ \A i \in 0 .. 3 : d[i] = Digit(r, b, o, i, d[i + 1])
  /\ DecodeVarint(r, b, o) = d[0]

\* The loop of mqtt_decode_varint, as its four rounds and what follows them.
LEMMA DecodeUnfolds ==
  ASSUME NEW r, NEW b, NEW o
  PROVE  \E d : Rounds(r, b, o, d)
<1> DEFINE D3 == Digit(r, b, o, 3, Refused)
           D2 == Digit(r, b, o, 2, D3)
           D1 == Digit(r, b, o, 1, D2)
           D0 == Digit(r, b, o, 0, D1)
           f == [i \in 0 .. 4 |-> IF i = 4 THEN Refused ELSE IF i = 3 THEN D3
                                 ELSE IF i = 2 THEN D2 ELSE IF i = 1 THEN D1 ELSE D0]
           Dec(d) == d = [i \in 0 .. 4 |-> IF i = 4 THEN Refused
                                          ELSE Digit(r, b, o, i, d[i + 1])]
<1>1. Dec(f)
  <2>1. \A i \in 0 .. 4 : f[i] = IF i = 4 THEN Refused ELSE Digit(r, b, o, i, f[i + 1])
    <3> HIDE DEF D3, D2, D1, D0
    <3>1. f[4] = Refused /\ f[3] = D3 /\ f[2] = D2 /\ f[1] = D1 /\ f[0] = D0
      OBVIOUS
    <3> HIDE DEF f
    <3> QED
      BY <3>1 DEF D3, D2, D1, D0
  <2>2. f = [i \in 0 .. 4 |-> f[i]]
    OBVIOUS
  <2> HIDE DEF f
  <2> QED
    BY <2>1, <2>2
<1> HIDE DEF f
<1> DEFINE d == CHOOSE g : Dec(g)
<1>2. Dec(d)
  <2> HIDE DEF Dec
  <2> QED
    BY <1>1
<1>3. DecodeVarint(r, b, o) = d[0]
  BY DEF DecodeVarint, Digit, Refused
<1> HIDE DEF d
<1>4. d[4] = Refused /\ \A i \in 0 .. 3 : d[i] = Digit(r, b, o, i, d[i + 1])
  BY <1>2
<1>5. Rounds(r, b, o, d)
  BY <1>3, <1>4 DEF Rounds
<1> QED
  BY <1>5

\* Behind its first o bytes, b is e as far as it goes.
Agrees(b, o, e) == \A j \in 1 .. Len(e) : o + j <= Len(b) => b[o + j] = e[j]

\* What is read of length x from byte i on, if all of it is there.
Reads(r, b, o, i, x, d) ==
  IF o + i + Len(EncodeVarint(r, x)) <= Len(b)
  THEN d = [value |-> x, used |-> i + Len(EncodeVarint(r, x))]
  ELSE d.used = 0

\* Bytes that agree with an encoding agree after a digit with the rest of it.
LEMMA AgreesRest ==
  ASSUME NEW r \in Nat \ {0, 1}, NEW b \in Seq(Nat), NEW o \in Nat, NEW x \in Nat, x >= r,
         Agrees(b, o, EncodeVarint(r, x))
  PROVE  Agrees(b, o + 1, EncodeVarint(r, x \div r))
<1> DEFINE e == EncodeVarint(r, x)
           f == EncodeVarint(r, x \div r)
<1>1. /\ Len(e) = 1 + Len(f) /\ \A j \in 1 .. Len(f) : e[j + 1] = f[j]
      /\ Len(f) \in Nat
  BY EncodeParts
<1>2. Agrees(b, o, e)
  OBVIOUS
<1> HIDE DEF e, f
<1> SUFFICES ASSUME NEW j \in 1 .. Len(f), o + 1 + j <= Len(b)
             PROVE  b[o + 1 + j] = f[j]
  BY DEF Agrees, f
<1>3. j + 1 \in 1 .. Len(e) /\ o + (j + 1) <= Len(b) /\ o + 1 + j = o + (j + 1)
  BY <1>1
<1>4. b[o + (j + 1)] = e[j + 1]
  BY <1>2, <1>3 DEF Agrees
<1> QED
  BY <1>1, <1>3, <1>4

\* A quotient is below k if and only if the number is below k times the base.
LEMMA Quotients ==
  ASSUME NEW r \in Nat \ {0, 1}, NEW x \in Nat, NEW k \in Nat
  PROVE  x \div r \in Nat /\ (x < k * r => x \div r < k) /\ (x >= k * r => x \div r >= k)
<1>1. x < k * r => x \div r < k
  OBVIOUS
<1>2. x >= k * r => x \div r >= k
  OBVIOUS
<1> QED
  BY <1>1, <1>2

\* Places in the buffer.
LEMMA Places ==
  ASSUME NEW o \in Nat, NEW i \in Nat, NEW k \in Nat, NEW n \in Nat
  PROVE  /\ o + i < n => o + i + 1 <= n
         /\ (i + 1) + k = i + (1 + k)
         /\ o + (i + 1) + k <= n <=> o + i + (1 + k) <= n
         /\ ~(o + i >= n) <=> o + i < n
OBVIOUS

\* One round of the decoder reads one digit of the encoding.
LEMMA DigitReads ==
  ASSUME NEW r \in Nat \ {0, 1}, NEW b \in Seq(Nat), NEW o \in Nat, NEW i \in 0 .. 3,
         NEW x \in Nat, NEW rest, Agrees(b, o + i, EncodeVarint(r, x)),
         x >= r => Reads(r, b, o, i + 1, x \div r, rest)
  PROVE  Reads(r, b, o, i, x, Digit(r, b, o, i, rest))
<1> DEFINE e == EncodeVarint(r, x)
           f == EncodeVarint(r, x \div r)
           q == x \div r
           m == x % r
<1>0. m + r * q = x
  BY EncodeParts
<1>1. /\ q \in Nat /\ m \in 0 .. r - 1
      /\ Len(e) \in Nat \ {0} /\ Len(f) \in Nat \ {0}
      /\ x < r => Len(e) = 1 /\ e[1] = x
      /\ x >= r => Len(e) = 1 + Len(f) /\ e[1] = m + r
  BY EncodeParts
<1>2. o + i < Len(b) => b[o + i + 1] = e[1]
  <2>1. Agrees(b, o + i, e)
    OBVIOUS
  <2> HIDE DEF e
  <2>2. 1 \in 1 .. Len(e) /\ (o + i < Len(b) => (o + i) + 1 <= Len(b))
    BY <1>1
  <2> QED
    BY <2>1, <2>2 DEF Agrees
<1>3. Len(b) \in Nat
  OBVIOUS
<1>8. i \in Nat /\ Len(f) \in Nat
  BY <1>1
<1>4. x >= r => IF o + (i + 1) + Len(f) <= Len(b)
                THEN rest = [value |-> q, used |-> (i + 1) + Len(f)] ELSE rest.used = 0
  BY DEF Reads
<1> HIDE DEF e, f, q, m
<1> DEFINE c == b[o + i + 1]
<1>5. CASE o + i >= Len(b)
  <2>1. ~(o + i + Len(e) <= Len(b))
    BY <1>1, <1>3, <1>5
  <2>2. Digit(r, b, o, i, rest).used = 0
    BY <1>5 DEF Digit, Refused
  <2> QED
    BY <2>1, <2>2 DEF Reads, e
<1>6. CASE o + i < Len(b) /\ x < r
  <2>1. ~(o + i >= Len(b)) /\ b[o + i + 1] = x /\ x < r
    BY <1>1, <1>2, <1>3, <1>6
  <2>2. Digit(r, b, o, i, rest) = [value |-> x, used |-> i + 1]
    BY <2>1 DEF Digit
  <2>3. Len(e) = 1
    BY <1>1, <1>6
  <2>4. o + i + 1 <= Len(b)
    BY <1>3, <1>6, <1>8, Places
  <2> QED
    BY <2>2, <2>3, <2>4 DEF Reads, e
<1>7. CASE o + i < Len(b) /\ x >= r
  <2>1. c = m + r
    BY <1>1, <1>2, <1>7
  <2>2. Digit(r, b, o, i, rest) = [value |-> c - r + r * rest.value, used |-> rest.used]
    <3>1. ~(o + i >= Len(b))
      BY <1>3, <1>7, <1>8, Places
    <3>2. ~(c < r)
      <4> HIDE DEF c
      <4> QED
        BY <1>1, <2>1
    <3> QED
      BY <3>1, <3>2 DEF Digit
  <2> HIDE DEF c
  <2>3. CASE o + i + Len(e) <= Len(b)
    <3>1. rest.value = q /\ rest.used = i + Len(e)
      <4>1. o + (i + 1) + Len(f) <= Len(b) /\ (i + 1) + Len(f) = i + Len(e)
        <5>1. Len(e) = 1 + Len(f)
          BY <1>1, <1>7
        <5> QED
          BY <1>3, <1>8, <2>3, <5>1, Places
      <4>2. rest = [value |-> q, used |-> (i + 1) + Len(f)]
        BY <1>4, <1>7, <4>1
      <4> QED
        BY <4>1, <4>2
    <3>2. c - r + r * q = x
      <4>1. r * q \in Nat
        BY <1>1
      <4> QED
        BY <1>0, <1>1, <2>1, <4>1
    <3>3. Digit(r, b, o, i, rest) = [value |-> x, used |-> i + Len(e)]
      BY <2>2, <3>1, <3>2
    <3> QED
      BY <2>3, <3>3 DEF Reads, e
  <2>4. CASE ~(o + i + Len(e) <= Len(b))
    <3>1. ~(o + (i + 1) + Len(f) <= Len(b))
      <4>1. Len(e) = 1 + Len(f)
        BY <1>1, <1>7
      <4> QED
        BY <1>3, <1>8, <2>4, <4>1, Places
    <3>2. rest.used = 0
      BY <1>4, <1>7, <3>1
    <3> QED
      BY <2>2, <2>4, <3>2 DEF Reads, e
  <2> QED
    BY <2>3, <2>4
<1> QED
  BY <1>3, <1>5, <1>6, <1>7

\* mqtt_decode_varint reads a length of up to four bytes back from exactly its
\* bytes, whatever follows, and never from fewer.
LEMMA DecodeExact ==
  ASSUME NEW r \in Nat \ {0, 1}, NEW b \in Seq(Nat), NEW o \in Nat, NEW x \in Nat,
         x < FourDigits(r), Agrees(b, o, EncodeVarint(r, x))
  PROVE  Reads(r, b, o, 0, x, DecodeVarint(r, b, o))
<1> DEFINE x1 == x \div r
           x2 == x1 \div r
           x3 == x2 \div r
<1>0. r * r \in Nat /\ r * r * r \in Nat
  OBVIOUS
<1>1. x1 \in Nat /\ x1 < r * r * r
  BY <1>0, Quotients DEF FourDigits
<1>2. x2 \in Nat /\ x2 < r * r
  <2> HIDE DEF x1
  <2> QED
    BY <1>0, <1>1, Quotients
<1>3. x3 \in Nat /\ x3 < r
  <2> HIDE DEF x2
  <2> QED
    BY <1>2, Quotients
<1>41. PICK d : Rounds(r, b, o, d)
  BY DecodeUnfolds
<1>4. /\ d[4] = Refused
      /\ \A i \in 0 .. 3 : d[i] = Digit(r, b, o, i, d[i + 1])
      /\ DecodeVarint(r, b, o) = d[0]
  BY <1>41 DEF Rounds
<1>5. /\ d[0] = Digit(r, b, o, 0, d[1]) /\ d[1] = Digit(r, b, o, 1, d[2])
      /\ d[2] = Digit(r, b, o, 2, d[3]) /\ d[3] = Digit(r, b, o, 3, d[4])
  BY <1>4
<1> HIDE DEF x3
<1>6. Agrees(b, o + 3, EncodeVarint(r, x3)) => Reads(r, b, o, 3, x3, d[3])
  BY <1>3, <1>5, DigitReads
<1>7. Agrees(b, o + 2, EncodeVarint(r, x2)) => Reads(r, b, o, 2, x2, d[2])
  <2> SUFFICES ASSUME Agrees(b, o + 2, EncodeVarint(r, x2)) PROVE Reads(r, b, o, 2, x2, d[2])
    OBVIOUS
  <2> HIDE DEF x2
  <2>1. x2 >= r => Agrees(b, o + 3, EncodeVarint(r, x3))
    <3>1. o + 2 \in Nat /\ (o + 2) + 1 = o + 3
      OBVIOUS
    <3>2. x2 >= r => Agrees(b, (o + 2) + 1, EncodeVarint(r, x2 \div r))
      BY <1>2, <3>1, AgreesRest
    <3> QED
      BY <3>1, <3>2 DEF x3
  <2>2. x2 >= r => Reads(r, b, o, 2 + 1, x2 \div r, d[3])
    BY <1>6, <2>1 DEF x3
  <2>3. o + 2 \in Nat /\ 2 \in 0 .. 3
    OBVIOUS
  <2> QED
    BY <1>2, <1>5, <2>2, <2>3, DigitReads
<1> HIDE DEF x2
<1>8. Agrees(b, o + 1, EncodeVarint(r, x1)) => Reads(r, b, o, 1, x1, d[1])
  <2> SUFFICES ASSUME Agrees(b, o + 1, EncodeVarint(r, x1)) PROVE Reads(r, b, o, 1, x1, d[1])
    OBVIOUS
  <2> HIDE DEF x1
  <2>1. x1 >= r => Agrees(b, o + 2, EncodeVarint(r, x2))
    <3>1. o + 1 \in Nat /\ (o + 1) + 1 = o + 2
      OBVIOUS
    <3>2. x1 >= r => Agrees(b, (o + 1) + 1, EncodeVarint(r, x1 \div r))
      BY <1>1, <3>1, AgreesRest
    <3> QED
      BY <3>1, <3>2 DEF x2
  <2>2. x1 >= r => Reads(r, b, o, 1 + 1, x1 \div r, d[2])
    BY <1>7, <2>1 DEF x2
  <2> QED
    BY <1>1, <1>5, <2>2, DigitReads
<1> HIDE DEF x1
<1>9. x >= r => Agrees(b, o + 1, EncodeVarint(r, x1))
  BY AgreesRest DEF x1
<1>10. x >= r => Reads(r, b, o, 0 + 1, x \div r, d[1])
  BY <1>8, <1>9 DEF x1
<1>11. Agrees(b, o + 0, EncodeVarint(r, x))
  OBVIOUS
<1> QED
  BY <1>4, <1>5, <1>10, <1>11, DigitReads

\* The first byte of a length of more than one byte is marked.
LEMMA EncodeMarked ==
  ASSUME NEW r \in Nat \ {0, 1}, NEW y \in Nat, y >= r
  PROVE  /\ y \div r \in Nat
         /\ EncodeVarint(r, y)[1] >= r
         /\ Len(EncodeVarint(r, y)) = 1 + Len(EncodeVarint(r, y \div r))
         /\ Len(EncodeVarint(r, y \div r)) \in Nat \ {0}
         /\ \A j \in 1 .. Len(EncodeVarint(r, y \div r)) :
              EncodeVarint(r, y)[j + 1] = EncodeVarint(r, y \div r)[j]
<1> DEFINE e == EncodeVarint(r, y)
           f == EncodeVarint(r, y \div r)
<1>1. /\ Len(e) = 1 + Len(f) /\ \A j \in 1 .. Len(f) : e[j + 1] = f[j]
      /\ Len(f) \in Nat
  BY EncodeParts
<1>5. e[1] = (y % r) + r
  BY EncodeParts
<1>2. y \div r \in Nat /\ (y % r) + r >= r
  OBVIOUS
<1>3. Len(f) \in Nat \ {0}
  BY <1>2, EncodeParts
<1> HIDE DEF e, f
<1>4. e[1] >= r
  BY <1>2, <1>5
<1> QED
  BY <1>1, <1>2, <1>3, <1>4 DEF e, f

\* It refuses four bytes that are all marked.
LEMMA LongRefused ==
  ASSUME NEW r \in Nat \ {0, 1}, NEW x \in Nat, x >= FourDigits(r)
  PROVE  DecodeVarint(r, EncodeVarint(r, x), 0).used = 0
<1> DEFINE x1 == x \div r
           x2 == x1 \div r
           x3 == x2 \div r
           e == EncodeVarint(r, x)
<1>0. r * r \in Nat /\ r * r * r \in Nat
  OBVIOUS
<1>1. x1 \in Nat /\ x1 >= r * r * r
  BY <1>0, Quotients DEF FourDigits
<1>2. x2 \in Nat /\ x2 >= r * r
  <2> HIDE DEF x1
  <2> QED
    BY <1>0, <1>1, Quotients
<1>3. x3 \in Nat /\ x3 >= r
  <2> HIDE DEF x2
  <2> QED
    BY <1>2, Quotients
<1>4. x >= r /\ x1 >= r /\ x2 >= r
  <2>1. r * r >= r /\ r * r * r >= r /\ r * r * r * r >= r
    OBVIOUS
  <2> HIDE DEF x1, x2
  <2> QED
    BY <1>1, <1>2, <2>1 DEF FourDigits
<1> DEFINE e1 == EncodeVarint(r, x1)
           e2 == EncodeVarint(r, x2)
           e3 == EncodeVarint(r, x3)
           e4 == EncodeVarint(r, x3 \div r)
<1>6. /\ e[1] >= r /\ Len(e) = 1 + Len(e1) /\ \A j \in 1 .. Len(e1) : e[j + 1] = e1[j]
  BY <1>4, EncodeMarked
<1>7. /\ e1[1] >= r /\ Len(e1) = 1 + Len(e2) /\ \A j \in 1 .. Len(e2) : e1[j + 1] = e2[j]
  BY <1>1, <1>4, EncodeMarked
<1>8. /\ e2[1] >= r /\ Len(e2) = 1 + Len(e3) /\ \A j \in 1 .. Len(e3) : e2[j + 1] = e3[j]
  BY <1>2, <1>4, EncodeMarked
<1>9. e3[1] >= r /\ Len(e3) = 1 + Len(e4) /\ Len(e4) \in Nat
  BY <1>3, EncodeMarked
<1>101. PICK d : Rounds(r, e, 0, d)
  BY DecodeUnfolds
<1>10. /\ d[4] = Refused
       /\ \A i \in 0 .. 3 : d[i] = Digit(r, e, 0, i, d[i + 1])
       /\ DecodeVarint(r, e, 0) = d[0]
  BY <1>101 DEF Rounds
<1>11. e \in Seq(Nat)
  BY EncodeBytes
<1> HIDE DEF e, e1, e2, e3, e4
<1>12. \A i \in 0 .. 3 : e[0 + i + 1] \in Nat /\ e[0 + i + 1] >= r /\ 0 + i < Len(e)
  <2>1. Len(e3) \in Nat \ {0} /\ Len(e2) >= 2 /\ Len(e1) >= 3 /\ Len(e) >= 4
    BY <1>6, <1>7, <1>8, <1>9
  <2>2. e[2] = e1[1] /\ e[3] = e1[2] /\ e[4] = e1[3]
    BY <1>6, <2>1
  <2>3. e1[2] = e2[1] /\ e1[3] = e2[2] /\ e2[2] = e3[1]
    BY <1>7, <1>8, <2>1
  <2>4. e[1] >= r /\ e[2] >= r /\ e[3] >= r /\ e[4] >= r
    BY <1>6, <1>7, <1>8, <1>9, <2>2, <2>3
  <2>5. e[1] \in Nat /\ e[2] \in Nat /\ e[3] \in Nat /\ e[4] \in Nat
    <3>1. 1 \in 1 .. Len(e) /\ 2 \in 1 .. Len(e) /\ 3 \in 1 .. Len(e) /\ 4 \in 1 .. Len(e)
      BY <1>11, <2>1
    <3>2. \A j \in 1 .. Len(e) : e[j] \in Nat
      BY <1>11
    <3> QED
      BY <3>1, <3>2
  <2>6. \A i \in 0 .. 3 : e[i + 1] \in Nat /\ e[i + 1] >= r /\ i < Len(e)
    <3> SUFFICES ASSUME NEW i \in 0 .. 3
                 PROVE  e[i + 1] \in Nat /\ e[i + 1] >= r /\ i < Len(e)
      OBVIOUS
    <3>1. i = 0 \/ i = 1 \/ i = 2 \/ i = 3
      OBVIOUS
    <3> QED
      BY <2>1, <2>4, <2>5, <3>1
  <2> QED
    BY <2>6
<1>13. \A i \in 0 .. 3 : d[i].used = d[i + 1].used
  <2> SUFFICES ASSUME NEW i \in 0 .. 3 PROVE d[i].used = d[i + 1].used
    OBVIOUS
  <2>1. ~(0 + i >= Len(e)) /\ ~(e[0 + i + 1] < r)
    <3>1. Len(e) \in Nat /\ 0 + i < Len(e) /\ e[0 + i + 1] \in Nat /\ e[0 + i + 1] >= r
      BY <1>11, <1>12
    <3> QED
      BY <3>1
  <2>2. d[i] = Digit(r, e, 0, i, d[i + 1])
    BY <1>10
  <2> DEFINE v == e[0 + i + 1] - r + r * d[i + 1].value
  <2>3. Digit(r, e, 0, i, d[i + 1]) = [value |-> v, used |-> d[i + 1].used]
    BY <2>1, Zenon DEF Digit
  <2> HIDE DEF v
  <2> QED
    BY <2>2, <2>3
<1>14. d[0].used = 0
  BY <1>10, <1>13 DEF Refused
<1> QED
  BY <1>10, <1>14 DEF e

\* What fits four bytes is read back from its bytes, and from no fewer.
LEMMA ExactRead ==
  ASSUME NEW r \in Nat \ {0, 1}, NEW v \in Nat, v < FourDigits(r)
  PROVE  LET e == EncodeVarint(r, v)
         IN /\ DecodeVarint(r, e \o <<0>>, 0) = [value |-> v, used |-> Len(e)]
            /\ \A n \in 0 .. Len(e) - 1 : DecodeVarint(r, SubSeq(e, 1, n), 0).used = 0
<1> DEFINE e == EncodeVarint(r, v)
<1>1. e \in Seq(Nat)
  <2> DEFINE E(x) == EncodeVarint(r, x)
  <2>1. \A x \in Nat : E(x) \in Seq(0 .. 2 * r - 1)
    BY EncodeBytes
  <2> HIDE DEF E
  <2>2. E(v) \in Seq(0 .. 2 * r - 1)
    BY <2>1
  <2>3. E(v) \in Seq(Nat)
    BY <2>2
  <2> QED
    BY <2>3 DEF E
<1>2. ASSUME NEW b \in Seq(Nat), Agrees(b, 0, e)
      PROVE  IF Len(e) <= Len(b)
             THEN DecodeVarint(r, b, 0) = [value |-> v, used |-> Len(e)]
             ELSE DecodeVarint(r, b, 0).used = 0
  <2>1. Reads(r, b, 0, 0, v, DecodeVarint(r, b, 0))
    BY <1>2, DecodeExact
  <2>2. 0 + 0 + Len(e) = Len(e) /\ 0 + Len(e) = Len(e)
    <3> HIDE DEF e
    <3> QED
      BY <1>1
  <2> QED
    BY <2>1, <2>2 DEF Reads
<1> HIDE DEF e
<1>3. DecodeVarint(r, e \o <<0>>, 0) = [value |-> v, used |-> Len(e)]
  <2> DEFINE b == e \o <<0>>
  <2>1. b \in Seq(Nat) /\ Len(e) <= Len(b) /\ \A j \in 1 .. Len(e) : b[0 + j] = e[j]
    BY <1>1
  <2> HIDE DEF b
  <2>2. Agrees(b, 0, e)
    BY <2>1 DEF Agrees
  <2>3. DecodeVarint(r, b, 0) = [value |-> v, used |-> Len(e)]
    BY <1>2, <2>1, <2>2
  <2> QED
    BY <2>3 DEF b
<1>4. ASSUME NEW n \in 0 .. Len(e) - 1
      PROVE  DecodeVarint(r, SubSeq(e, 1, n), 0).used = 0
  <2> DEFINE b == SubSeq(e, 1, n)
  <2>1. b \in Seq(Nat) /\ ~(Len(e) <= Len(b)) /\ \A j \in 1 .. Len(b) : b[j] = e[j]
    BY <1>1
  <2> HIDE DEF b
  <2>2. Agrees(b, 0, e)
    BY <1>1, <2>1 DEF Agrees
  <2>3. DecodeVarint(r, b, 0).used = 0
    BY <1>2, <2>1, <2>2
  <2> QED
    BY <2>3 DEF b
<1> QED
  BY <1>3, <1>4 DEF e

\* mqtt_encode_varint and mqtt_decode_varint (mqtt/utils.py:22-58), for every base
\* and every length: what is encoded is read back from exactly its bytes, never
\* from fewer, and a length of more than four bytes is refused.
THEOREM LengthsReadBack ==
  ASSUME NEW r \in Nat \ {0, 1}, NEW v \in Nat
  PROVE  LET e == EncodeVarint(r, v)
         IN IF v < FourDigits(r)
            THEN /\ DecodeVarint(r, e \o <<0>>, 0) = [value |-> v, used |-> Len(e)]
                 /\ \A n \in 0 .. Len(e) - 1 : DecodeVarint(r, SubSeq(e, 1, n), 0).used = 0
            ELSE DecodeVarint(r, e, 0).used = 0
<1>1. CASE v < FourDigits(r)
  BY <1>1, ExactRead
<1>2. CASE ~(v < FourDigits(r))
  <2>1. v >= FourDigits(r)
    BY <1>2 DEF FourDigits
  <2>2. DecodeVarint(r, EncodeVarint(r, v), 0).used = 0
    BY <2>1, LongRefused
  <2> QED
    BY <1>2, <2>2
<1> QED
  BY <1>1, <1>2

\* The same of the lengths the runs look at.
THEOREM LengthsAreExact == Spec => []VarintExact
<1>1. VarintExact
  <2>1. \A r \in {Radix, 128} :
          r \in Nat \ {0, 1} /\ \A v \in IF r = 128 THEN Boundary ELSE 0 .. FourDigits(r) : v \in Nat
    BY InboundAssumption
  <2> QED
    BY <2>1, LengthsReadBack DEF VarintExact
<1> QED
  BY <1>1, PTL

-----------------------------------------------------------------------------
(* A packet. *)

\* The bytes of a packet: the type, its length and its body.
LEMMA BytesFacts ==
  ASSUME NEW p \in Packet
  PROVE  LET e == EncodeVarint(Radix, Len(p.body))
         IN /\ p.first \in Known /\ p.body \in Seq(Byte) /\ Len(p.body) \in Nat
            /\ p = [first |-> p.first, body |-> p.body]
            /\ e \in Seq(Byte) /\ Len(e) \in Nat \ {0}
            /\ Bytes[p] \in Seq(Byte)
            /\ Len(Bytes[p]) = 1 + Len(e) + Len(p.body)
            /\ Bytes[p][1] = p.first
            /\ \A j \in 1 .. Len(e) : Bytes[p][1 + j] = e[j]
            /\ \A j \in 1 .. Len(p.body) : Bytes[p][1 + Len(e) + j] = p.body[j]
<1> DEFINE e == EncodeVarint(Radix, Len(p.body))
           f == p.first
           t == p.body
<1>1. f \in Known /\ t \in Seq(Byte) /\ p = [first |-> f, body |-> t]
  BY InboundAssumption
<1>2. Len(t) \in Nat /\ f \in Byte
  BY <1>1, InboundAssumption
<1>3. e \in Seq(Byte)
  <2> DEFINE E(x) == EncodeVarint(Radix, x)
  <2>1. \A x \in Nat : E(x) \in Seq(Byte)
    BY EncodeBytes, InboundAssumption DEF Byte
  <2> HIDE DEF E
  <2>2. E(Len(t)) \in Seq(Byte)
    BY <1>2, <2>1
  <2> QED
    BY <2>2 DEF E
<1>4. Len(e) \in Nat \ {0}
  BY <1>2, EncodeParts, InboundAssumption
<1>5. Bytes[p] = <<f>> \o e \o t
  BY DEF Bytes
<1> HIDE DEF e, f, t
<1> DEFINE g == <<f>> \o e
<1>6. /\ g \in Seq(Byte) /\ Len(g) = 1 + Len(e) /\ g[1] = f
      /\ \A j \in 1 .. Len(e) : g[1 + j] = e[j]
  BY <1>2, <1>3, <1>4
<1>7. Bytes[p] = g \o t
  BY <1>5
<1> HIDE DEF g
<1>8. Bytes[p] \in Seq(Byte) /\ Len(Bytes[p]) = 1 + Len(e) + Len(t)
  BY <1>1, <1>6, <1>7
<1>9. Bytes[p][1] = f /\ \A j \in 1 .. Len(e) : Bytes[p][1 + j] = e[j]
  BY <1>1, <1>2, <1>4, <1>6, <1>7
<1>10. \A j \in 1 .. Len(t) : Bytes[p][1 + Len(e) + j] = t[j]
  BY <1>1, <1>2, <1>4, <1>6, <1>7
<1> QED
  BY <1>1, <1>2, <1>3, <1>4, <1>8, <1>9, <1>10 DEF e, f, t

\* The length of a packet is read from where it is, if it is there.
LEMMA LengthRead ==
  ASSUME NEW p \in Packet, NEW b \in Seq(Byte), Agrees(b, 0, Bytes[p])
  PROVE  LET e == EncodeVarint(Radix, Len(p.body))
         IN IF 1 + Len(e) <= Len(b)
            THEN DecodeVarint(Radix, b, 1) = [value |-> Len(p.body), used |-> Len(e)]
            ELSE DecodeVarint(Radix, b, 1).used = 0
<1> DEFINE l == Len(p.body)
           e == EncodeVarint(Radix, l)
<1>1. /\ l \in Nat /\ Len(e) \in Nat \ {0} /\ Len(Bytes[p]) = 1 + Len(e) + l
      /\ \A j \in 1 .. Len(e) : Bytes[p][1 + j] = e[j]
  BY BytesFacts
<1>2. l < FourDigits(Radix) /\ Radix \in Nat \ {0, 1}
  BY InboundAssumption
<1>3. b \in Seq(Nat)
  BY InboundAssumption DEF Byte
<1> HIDE DEF l
<1>4. Agrees(b, 1, e)
  <2> HIDE DEF e
  <2> SUFFICES ASSUME NEW j \in 1 .. Len(e), 1 + j <= Len(b) PROVE b[1 + j] = e[j]
    BY DEF Agrees
  <2>1. 1 + j \in 1 .. Len(Bytes[p]) /\ 0 + (1 + j) = 1 + j
    BY <1>1
  <2>2. b[1 + j] = Bytes[p][1 + j]
    BY <2>1 DEF Agrees
  <2> QED
    BY <1>1, <2>2
<1>5. Reads(Radix, b, 1, 0, l, DecodeVarint(Radix, b, 1))
  BY <1>1, <1>2, <1>3, <1>4, DecodeExact
<1>6. 1 + 0 + Len(e) = 1 + Len(e) /\ 0 + Len(e) = Len(e)
  <2> HIDE DEF e
  <2> QED
    BY <1>1
<1>7. IF 1 + Len(e) <= Len(b)
      THEN DecodeVarint(Radix, b, 1) = [value |-> l, used |-> Len(e)]
      ELSE DecodeVarint(Radix, b, 1).used = 0
  BY <1>5, <1>6 DEF Reads
<1> QED
  BY <1>7 DEF l

\* mqtt_packet_reader takes a packet for complete when it is.
LEMMA PacketFound ==
  ASSUME NEW p \in Packet, NEW b \in Seq(Byte), Agrees(b, 0, Bytes[p])
  PROVE  PacketLen(b) = IF Len(Bytes[p]) <= Len(b) THEN {Len(Bytes[p])} ELSE {}
<1> DEFINE l == Len(p.body)
           e == EncodeVarint(Radix, l)
           d == DecodeVarint(Radix, b, 1)
           There == Len(b) >= 2 /\ d.used > 0 /\ Len(b) >= 1 + d.used + d.value
<1>1. l \in Nat /\ Len(e) \in Nat \ {0} /\ Len(Bytes[p]) = 1 + Len(e) + l
  BY BytesFacts
<1>2. IF 1 + Len(e) <= Len(b) THEN d = [value |-> l, used |-> Len(e)] ELSE d.used = 0
  BY LengthRead
<1>3. PacketLen(b) = IF There THEN {1 + d.used + d.value} ELSE {}
  <2> HIDE DEF d
  <2>1. PacketLen(b) = {1 + g.used + g.value : g \in {g \in {d} :
                          Len(b) >= 2 /\ g.used > 0 /\ Len(b) >= 1 + g.used + g.value}}
    BY DEF PacketLen, d
  <2> QED
    BY <2>1
<1>4. Len(b) \in Nat
  OBVIOUS
<1> HIDE DEF l, e, d
<1>5. CASE 1 + Len(e) <= Len(b)
  <2>1. d.used = Len(e) /\ d.value = l
    BY <1>2, <1>5
  <2>2. There <=> 1 + Len(e) + l <= Len(b)
    BY <1>1, <1>4, <1>5, <2>1
  <2>3. 1 + d.used + d.value = Len(Bytes[p])
    BY <1>1, <2>1
  <2> HIDE DEF There
  <2> QED
    BY <1>1, <1>3, <2>2, <2>3
<1>6. CASE ~(1 + Len(e) <= Len(b))
  <2>1. ~There
    BY <1>2, <1>6
  <2>2. ~(Len(Bytes[p]) <= Len(b))
    BY <1>1, <1>4, <1>6
  <2> HIDE DEF There
  <2> QED
    BY <1>3, <2>1, <2>2
<1> QED
  BY <1>5, <1>6

\* mqtt_parse_packet undoes build().
LEMMA PacketParsed ==
  ASSUME NEW p \in Packet
  PROVE  ParsePacket(Bytes[p]) = p
<1> DEFINE l == Len(p.body)
           e == EncodeVarint(Radix, l)
           t == p.body
           b == Bytes[p]
<1>1. /\ l \in Nat /\ Len(e) \in Nat \ {0} /\ b \in Seq(Byte) /\ t \in Seq(Byte)
      /\ Len(b) = 1 + Len(e) + l /\ b[1] = p.first
      /\ p = [first |-> p.first, body |-> t]
  BY BytesFacts
<1>2. \A j \in 1 .. l : b[1 + Len(e) + j] = t[j]
  BY BytesFacts
<1>3. Agrees(b, 0, b)
  BY <1>1 DEF Agrees
<1>4. DecodeVarint(Radix, b, 1).used = Len(e)
  <2>1. IF 1 + Len(e) <= Len(b) THEN DecodeVarint(Radix, b, 1) = [value |-> l, used |-> Len(e)]
        ELSE DecodeVarint(Radix, b, 1).used = 0
    BY <1>1, <1>3, LengthRead
  <2> HIDE DEF b, e, l
  <2>2. 1 + Len(e) <= Len(b)
    BY <1>1
  <2> QED
    BY <2>1, <2>2
<1>5. ParsePacket(b) = [first |-> b[1], body |-> SubSeq(b, 2 + Len(e), Len(b))]
  BY <1>4 DEF ParsePacket
<1>6. Len(t) = l
  OBVIOUS
<1> HIDE DEF b, e, l, t
<1>7. SubSeq(b, 2 + Len(e), Len(b)) = t
  <2> DEFINE u == SubSeq(b, 2 + Len(e), Len(b))
  <2>1. /\ u \in Seq(Byte) /\ Len(u) = l
        /\ \A j \in 1 .. l : u[j] = b[1 + Len(e) + j]
    <3> DEFINE m == 2 + Len(e)
               n == Len(b)
    <3>1. /\ m \in Int /\ n \in Int /\ n - m + 1 = l /\ (~(m <= n) => l = 0)
          /\ \A j \in 1 .. l : m + j - 1 = 1 + Len(e) + j
      <4>1. Len(e) \in Nat /\ l \in Nat /\ n = 1 + Len(e) + l
        BY <1>1
      <4> HIDE DEF n
      <4>2. m \in Int /\ n \in Int
        BY <4>1
      <4>3. n - m + 1 = l /\ (~(m <= n) => l = 0)
        BY <4>1
      <4>4. \A j \in 1 .. l : m + j - 1 = 1 + Len(e) + j
        BY <4>1
      <4> QED
        BY <4>2, <4>3, <4>4
    <3>2. \A i \in m .. n : b[i] \in Byte
      BY <1>1
    <3> HIDE DEF m, n
    <3>3. /\ SubSeq(b, m, n) \in Seq(Byte)
          /\ Len(SubSeq(b, m, n)) = IF m <= n THEN n - m + 1 ELSE 0
          /\ \A i \in 1 .. n - m + 1 : SubSeq(b, m, n)[i] = b[m + i - 1]
      BY <3>1, <3>2, SubSeqProperties
    <3>4. /\ SubSeq(b, m, n) \in Seq(Byte) /\ Len(SubSeq(b, m, n)) = l
          /\ \A j \in 1 .. l : SubSeq(b, m, n)[j] = b[1 + Len(e) + j]
      BY <3>1, <3>3
    <3> QED
      BY <3>4 DEF m, n
  <2> HIDE DEF u
  <2>2. \A j \in 1 .. Len(u) : u[j] = t[j]
    BY <1>2, <2>1
  <2>3. u = t
    BY <1>1, <1>6, <2>1, <2>2, SeqEqual
  <2> QED
    BY <2>3 DEF u
<1>8. ParsePacket(b) = p
  BY <1>1, <1>5, <1>7
<1> QED
  BY <1>8 DEF b

-----------------------------------------------------------------------------
(* The stream. *)

\* The bytes of the first packets of s, for each number of them.
Sums(u, s) ==
  /\ u \in [0 .. Len(s) -> Seq(Byte)] /\ u[0] = <<>>
  /\ \A i \in 1 .. Len(s) : u[i] = u[i - 1] \o Bytes[s[i]]

\* A stream is the last of the sums of its packets.
LEMMA StreamUnfolds ==
  ASSUME NEW s \in Seq(Packet)
  PROVE  \E u : Sums(u, s) /\ Stream(s) = u[Len(s)]
<1> DEFINE n == Len(s)
           V == Seq(Byte)
           stop == {0}
           base == [x \in Nat |-> <<>>]
           down == [x \in Nat |-> IF x = 0 THEN 0 ELSE x - 1]
           step == [a \in Nat \X V |-> IF a[1] \in 1 .. n THEN a[2] \o Bytes[s[a[1]]] ELSE a[2]]
           Up(g) == g = [i \in 0 .. n |-> IF i = 0 THEN <<>> ELSE g[i - 1] \o Bytes[s[i]]]
<1>0. n \in Nat
  OBVIOUS
<1>1. \A i \in 1 .. n : Bytes[s[i]] \in V
  <2> SUFFICES ASSUME NEW i \in 1 .. n PROVE Bytes[s[i]] \in V
    OBVIOUS
  <2>1. s[i] \in Packet
    OBVIOUS
  <2> QED
    BY <2>1, BytesFacts
<1>2. stop \in SUBSET Nat /\ base \in [Nat -> V]
  OBVIOUS
<1>3. down \in [Nat -> Nat] /\ \A x \in Nat \ stop : down[x] < x
  OBVIOUS
<1>4. step \in [Nat \X V -> V]
  <2> SUFFICES ASSUME NEW x \in Nat, NEW t \in V
               PROVE  (IF x \in 1 .. n THEN t \o Bytes[s[x]] ELSE t) \in V
    OBVIOUS
  <2> HIDE DEF n
  <2>1. CASE x \in 1 .. n
    <3>1. Bytes[s[x]] \in V
      BY <1>1, <2>1
    <3>2. t \o Bytes[s[x]] \in V
      BY <3>1, ConcatProperties
    <3> QED
      BY <2>1, <3>2
  <2> QED
    BY <2>1
<1>5. /\ base[0] = <<>> /\ \A i \in 1 .. n : down[i] = i - 1
      /\ \A i \in 1 .. n, t \in V : step[<<i, t>>] = t \o Bytes[s[i]]
  <2>1. base[0] = <<>> /\ \A i \in 1 .. n : down[i] = i - 1
    OBVIOUS
  <2>2. ASSUME NEW i \in 1 .. n, NEW t \in V PROVE step[<<i, t>>] = t \o Bytes[s[i]]
    <3> HIDE DEF n, V
    <3>1. i \in Nat
      OBVIOUS
    <3>2. <<i, t>> \in Nat \X V /\ <<i, t>>[1] = i /\ <<i, t>>[2] = t
      BY <3>1
    <3> QED
      BY <3>2
  <2> HIDE DEF base, down, step
  <2> QED
    BY <2>1, <2>2
<1> HIDE DEF stop, base, down, step, V
<1>6. PICK f \in [Nat -> V] : \A x \in Nat : Follows(f, x, stop, base, down, step)
  BY <1>2, <1>3, <1>4, RecursionEnds
<1>7. f[0] = <<>>
  BY <1>5, <1>6 DEF Follows, stop
<1>8. ASSUME NEW i \in 1 .. n PROVE f[i] = f[i - 1] \o Bytes[s[i]]
  <2>1. i \in Nat /\ i \notin stop /\ i - 1 \in Nat
    BY DEF stop
  <2>2. f[i] = step[<<i, f[down[i]]>>]
    BY <1>6, <2>1 DEF Follows
  <2>3. f[i - 1] \in V /\ down[i] = i - 1
    BY <1>5, <1>6, <2>1
  <2> QED
    BY <1>5, <2>2, <2>3
<1> HIDE DEF n
<1> DEFINE h == [i \in 0 .. n |-> f[i]]
<1>9. Up(h)
  <2>1. \A i \in 0 .. n : h[i] = IF i = 0 THEN <<>> ELSE h[i - 1] \o Bytes[s[i]]
    <3> SUFFICES ASSUME NEW i \in 0 .. n
                 PROVE  f[i] = IF i = 0 THEN <<>> ELSE h[i - 1] \o Bytes[s[i]]
      OBVIOUS
    <3>1. CASE i = 0
      BY <1>7, <3>1
    <3>2. CASE i # 0
      <4>1. i \in 1 .. n /\ i - 1 \in 0 .. n
        BY <1>0, <3>2
      <4> QED
        BY <1>8, <3>2, <4>1
    <3> QED
      BY <3>1, <3>2
  <2>2. h = [i \in 0 .. n |-> h[i]]
    OBVIOUS
  <2> HIDE DEF h
  <2> QED
    BY <2>1, <2>2
<1> HIDE DEF h
<1> DEFINE u == CHOOSE g : Up(g)
<1>10. Up(u)
  <2> HIDE DEF Up
  <2> QED
    BY <1>9
<1>11. Stream(s) = u[n]
  BY DEF Stream, n
<1> HIDE DEF u
<1>12. DOMAIN u = 0 .. n /\ u[0] = <<>> /\ u = [i \in 0 .. n |-> u[i]]
  BY <1>0, <1>10
<1>13. \A i \in 1 .. n : u[i] = u[i - 1] \o Bytes[s[i]]
  BY <1>0, <1>10
<1> HIDE DEF Up
<1>14. \A i \in 0 .. n : u[i] \in V
  <2> DEFINE A == {i \in Nat : i <= n => u[i] \in V}
  <2>1. 0 \in A
    <3>1. <<>> \in V
      BY DEF V
    <3> QED
      BY <1>12, <3>1
  <2>2. ASSUME NEW i \in A PROVE i + 1 \in A
    <3> SUFFICES ASSUME i + 1 <= n PROVE u[i + 1] \in V
      OBVIOUS
    <3>1. i \in Nat /\ i <= n /\ i + 1 \in 1 .. n /\ (i + 1) - 1 = i
      BY <1>0
    <3>2. u[i] \in V /\ u[i + 1] = u[i] \o Bytes[s[i + 1]]
      BY <1>13, <3>1
    <3>3. Bytes[s[i + 1]] \in V
      BY <1>1, <3>1
    <3> QED
      BY <3>2, <3>3, ConcatProperties DEF V
  <2>3. A \in SUBSET Nat
    OBVIOUS
  <2> HIDE DEF A
  <2>4. A = Nat
    BY <2>1, <2>2, <2>3, AllNumbers
  <2> QED
    BY <1>0, <2>4 DEF A
<1>15. u \in [0 .. n -> V]
  BY <1>12, <1>14
<1> QED
  BY <1>11, <1>12, <1>13, <1>15 DEF Sums, n, V

\* The bytes of the packets that two sequences begin with.
LEMMA SumsAgree ==
  ASSUME NEW s \in Seq(Packet), NEW t \in Seq(Packet), NEW u, NEW v, Sums(u, s), Sums(v, t),
         NEW n \in Nat, n <= Len(s), n <= Len(t), \A i \in 1 .. n : s[i] = t[i]
  PROVE  u[n] = v[n]
<1> DEFINE A == {i \in Nat : i <= n => u[i] = v[i]}
<1>1. 0 \in A
  BY DEF Sums
<1>2. ASSUME NEW i \in A PROVE i + 1 \in A
  <2> SUFFICES ASSUME i + 1 <= n PROVE u[i + 1] = v[i + 1]
    OBVIOUS
  <2>1. /\ i + 1 \in 1 .. Len(s) /\ i + 1 \in 1 .. Len(t) /\ i + 1 \in 1 .. n
        /\ (i + 1) - 1 = i /\ i <= n
    OBVIOUS
  <2>2. u[i] = v[i] /\ s[i + 1] = t[i + 1]
    BY <2>1
  <2> QED
    BY <2>1, <2>2 DEF Sums
<1>3. A \in SUBSET Nat
  OBVIOUS
<1> HIDE DEF A
<1>4. A = Nat
  BY <1>1, <1>2, <1>3, AllNumbers
<1> QED
  BY <1>4 DEF A

\* Concatenation of byte strings is associative,
LEMMA BytesAssociative ==
  ASSUME NEW s \in Seq(Byte), NEW t \in Seq(Byte), NEW u \in Seq(Byte)
  PROVE  (s \o t) \o u = s \o (t \o u)
BY ConcatAssociative

\* and what is put in front of two of them cancels.
LEMMA BytesCancel ==
  ASSUME NEW s \in Seq(Byte), NEW t \in Seq(Byte), NEW u \in Seq(Byte), s \o t = s \o u
  PROVE  t = u
<1>1. Len(s) \in Nat /\ Len(t) \in Nat /\ Len(u) \in Nat
  OBVIOUS
<1>2. Len(s \o t) = Len(s) + Len(t) /\ Len(s \o u) = Len(s) + Len(u)
  OBVIOUS
<1>3. Len(t) = Len(u)
  BY <1>1, <1>2
<1>4. ASSUME NEW i \in 1 .. Len(t) PROVE t[i] = u[i]
  <2>1. (s \o t)[Len(s) + i] = t[i]
    BY <1>1
  <2>2. (s \o u)[Len(s) + i] = u[i]
    BY <1>1, <1>3
  <2> QED
    BY <2>1, <2>2
<1> QED
  BY <1>3, <1>4, SeqEqual

\* No packets, no bytes.
LEMMA StreamEmpty == Stream(<<>>) = <<>>
<1>1. <<>> \in Seq(Packet) /\ Len(<<>>) = 0
  OBVIOUS
<1>2. PICK u : Sums(u, <<>>) /\ Stream(<<>>) = u[Len(<<>>)]
  BY <1>1, StreamUnfolds
<1> QED
  BY <1>1, <1>2 DEF Sums

\* A stream is made of bytes.
LEMMA StreamType ==
  ASSUME NEW s \in Seq(Packet)
  PROVE  Stream(s) \in Seq(Byte)
<1>1. PICK u : Sums(u, s) /\ Stream(s) = u[Len(s)]
  BY StreamUnfolds
<1>2. Len(s) \in 0 .. Len(s)
  OBVIOUS
<1> QED
  BY <1>1, <1>2 DEF Sums

\* A packet that is sent is appended to the stream.
LEMMA StreamAppend ==
  ASSUME NEW s \in Seq(Packet), NEW p \in Packet
  PROVE  Stream(Append(s, p)) = Stream(s) \o Bytes[p]
<1> DEFINE t == Append(s, p)
           n == Len(s)
<1>1. /\ n \in Nat /\ t \in Seq(Packet) /\ Len(t) = n + 1 /\ t[n + 1] = p
      /\ \A i \in 1 .. n : s[i] = t[i]
  OBVIOUS
<1>2. PICK u : Sums(u, s) /\ Stream(s) = u[n]
  BY StreamUnfolds
<1> HIDE DEF t
<1>3. PICK v : Sums(v, t) /\ Stream(t) = v[Len(t)]
  BY <1>1, StreamUnfolds
<1> HIDE DEF n
<1>4. u[n] = v[n]
  <2>1. n <= Len(s) /\ n <= Len(t)
    BY <1>1 DEF n
  <2> QED
    BY <1>1, <1>2, <1>3, <2>1, SumsAgree
<1>5. v[n + 1] = v[n] \o Bytes[p]
  <2>1. n + 1 \in 1 .. Len(t) /\ (n + 1) - 1 = n
    BY <1>1
  <2> QED
    BY <1>1, <1>3, <2>1 DEF Sums
<1> QED
  BY <1>1, <1>2, <1>3, <1>4, <1>5 DEF t

\* After the bytes of the packets it begins with come those of the next one.
LEMMA StreamNext ==
  ASSUME NEW s \in Seq(Packet), NEW c \in Seq(Packet), Len(c) < Len(s),
         \A i \in 1 .. Len(c) : c[i] = s[i]
  PROVE  \E rest \in Seq(Byte) : Stream(s) = Stream(c) \o (Bytes[s[Len(c) + 1]] \o rest)
<1> DEFINE n == Len(c)
           q == s[n + 1]
<1>0. n \in Nat /\ Len(s) \in Nat /\ n + 1 \in 1 .. Len(s) /\ n < Len(s)
  OBVIOUS
<1>1. q \in Packet
  BY <1>0
<1>2. PICK u : Sums(u, s) /\ Stream(s) = u[Len(s)]
  BY StreamUnfolds
<1>3. PICK v : Sums(v, c) /\ Stream(c) = v[n]
  BY StreamUnfolds
<1>4. u[n] = v[n]
  <2>1. n <= Len(s) /\ n <= Len(c) /\ \A i \in 1 .. n : s[i] = c[i]
    BY <1>0
  <2> HIDE DEF n
  <2> QED
    BY <1>0, <1>2, <1>3, <2>1, SumsAgree
<1> HIDE DEF n, q
<1> DEFINE Good(m) == \E rest \in Seq(Byte) : u[m] = u[n] \o (Bytes[q] \o rest)
           A == {m \in Nat : n + 1 + m <= Len(s) => Good(n + 1 + m)}
<1>5. u[n] \in Seq(Byte) /\ Bytes[q] \in Seq(Byte)
  <2>1. n \in 0 .. Len(s)
    BY <1>0
  <2>2. u[n] \in Seq(Byte)
    BY <1>2, <2>1 DEF Sums
  <2>3. Bytes[q] \in Seq(Byte)
    BY <1>1, BytesFacts
  <2> QED
    BY <2>2, <2>3
<1>6. 0 \in A
  <2>1. (n + 1) - 1 = n /\ n + 1 + 0 = n + 1
    BY <1>0
  <2>2. u[n + 1] = u[n] \o Bytes[q]
    BY <1>0, <1>2, <2>1 DEF Sums, q
  <2>3. Bytes[q] = Bytes[q] \o <<>> /\ <<>> \in Seq(Byte)
    BY <1>5, ConcatEmptySeq
  <2>4. Good(n + 1)
    BY <2>2, <2>3
  <2> HIDE DEF Good
  <2> QED
    BY <2>1, <2>4
<1>7. ASSUME NEW m \in A PROVE m + 1 \in A
  <2> HIDE DEF Good
  <2> SUFFICES ASSUME n + 1 + (m + 1) <= Len(s) PROVE Good(n + 1 + (m + 1))
    OBVIOUS
  <2> DEFINE k == n + 1 + m
  <2>1. /\ m \in Nat /\ k <= Len(s) /\ n + 1 + (m + 1) = k + 1
        /\ k + 1 \in 1 .. Len(s) /\ (k + 1) - 1 = k
    BY <1>0
  <2>2. Good(k)
    BY <2>1
  <2> HIDE DEF k
  <2>3. PICK rest \in Seq(Byte) : u[k] = u[n] \o (Bytes[q] \o rest)
    BY <2>2 DEF Good
  <2> DEFINE x == Bytes[s[k + 1]]
  <2>4. x \in Seq(Byte)
    <3>1. s[k + 1] \in Packet
      BY <2>1
    <3> QED
      BY <3>1, BytesFacts
  <2>5. u[k + 1] = u[k] \o x
    BY <1>2, <2>1 DEF Sums
  <2> HIDE DEF x
  <2>6. /\ Bytes[q] \o rest \in Seq(Byte) /\ rest \o x \in Seq(Byte)
        /\ (Bytes[q] \o rest) \o x = Bytes[q] \o (rest \o x)
    <3>1. Bytes[q] \o rest \in Seq(Byte) /\ rest \o x \in Seq(Byte)
      BY <1>5, <2>4
    <3>2. (Bytes[q] \o rest) \o x = Bytes[q] \o (rest \o x)
      BY <1>5, <2>4, BytesAssociative
    <3> QED
      BY <3>1, <3>2
  <2>7. u[k + 1] = u[n] \o (Bytes[q] \o (rest \o x))
    <3>1. (u[n] \o (Bytes[q] \o rest)) \o x = u[n] \o ((Bytes[q] \o rest) \o x)
      BY <1>5, <2>4, <2>6, BytesAssociative
    <3> QED
      BY <2>3, <2>5, <2>6, <3>1, Zenon
  <2> QED
    BY <2>1, <2>6, <2>7 DEF Good
<1>8. A \in SUBSET Nat
  OBVIOUS
<1> HIDE DEF A
<1>9. A = Nat
  BY <1>6, <1>7, <1>8, AllNumbers
<1>10. Good(Len(s))
  <2> DEFINE m == Len(s) - (n + 1)
  <2>1. m \in Nat /\ n + 1 + m = Len(s) /\ Len(s) <= Len(s)
    BY <1>0
  <2> HIDE DEF m, Good
  <2> QED
    BY <1>9, <2>1 DEF A
<1> QED
  BY <1>2, <1>3, <1>4, <1>10 DEF n, q

\* The next packet that is cut out of the stream is the next one that was sent.
LEMMA NextPacket ==
  ASSUME NEW s \in Seq(Packet), NEW c \in Seq(Packet), IsPrefix(c, s),
         NEW b \in Seq(Byte), NEW w \in Seq(Byte), Stream(c) \o (b \o w) = Stream(s),
         NEW total \in PacketLen(b)
  PROVE  LET p == ParsePacket(SubSeq(b, 1, total))
             t == SubSeq(b, total + 1, Len(b))
         IN /\ p \in Packet /\ t \in Seq(Byte)
            /\ Append(c, p) \in Seq(Packet) /\ IsPrefix(Append(c, p), s)
            /\ Stream(Append(c, p)) \o (t \o w) = Stream(s)
<1> DEFINE n == Len(c)
           q == s[n + 1]
<1>0. n \in Nat /\ Len(s) \in Nat
  OBVIOUS
<1>1. n <= Len(s) /\ \A i \in 1 .. n : c[i] = s[i]
  <2>1. n <= Len(s) /\ SubSeq(c, 1, n) = SubSeq(s, 1, n)
    BY DEF IsPrefix
  <2>2. \A i \in 1 .. n : SubSeq(c, 1, n)[i] = c[i] /\ SubSeq(s, 1, n)[i] = s[i]
    BY <2>1
  <2> QED
    BY <2>1, <2>2
<1>2. /\ Stream(c) \in Seq(Byte) /\ b \o w \in Seq(Byte)
      /\ Len(b) \in Nat /\ Len(b \o w) = Len(b) + Len(w) /\ Len(w) \in Nat
  BY StreamType
<1>3. Len(b) > 0
  <2> SUFFICES ASSUME Len(b) = 0 PROVE FALSE
    BY <1>2
  <2>1. ~(Len(b) >= 2)
    OBVIOUS
  <2>2. PacketLen(b) = {}
    BY <2>1 DEF PacketLen
  <2> QED
    BY <2>2
<1>4. n < Len(s)
  <2> SUFFICES ASSUME n = Len(s) PROVE FALSE
    BY <1>0, <1>1
  <2>1. c = s
    BY <1>1, SeqEqual
  <2>2. b \o w = <<>>
    BY <1>2, <2>1, ConcatEqualIffEmpty
  <2> QED
    BY <1>2, <1>3, <2>2
<1>5. q \in Packet
  BY <1>0, <1>4
<1>6. PICK rest \in Seq(Byte) : Stream(s) = Stream(c) \o (Bytes[q] \o rest)
  BY <1>1, <1>4, StreamNext
<1>7. Bytes[q] \in Seq(Byte)
  BY <1>5, BytesFacts
<1> HIDE DEF q, n
<1>8. Bytes[q] \o rest \in Seq(Byte)
  BY <1>7
<1>9. b \o w = Bytes[q] \o rest
  <2>1. Stream(c) \o (b \o w) = Stream(c) \o (Bytes[q] \o rest)
    BY <1>6
  <2>2. Stream(c) \in Seq(Byte) /\ b \o w \in Seq(Byte)
    BY <1>2
  <2> QED
    BY <1>8, <2>1, <2>2, BytesCancel, Zenon
<1> DEFINE y == Bytes[q]
           m == Len(y)
<1>10. y \in Seq(Byte) /\ m \in Nat
  BY <1>7
<1>11. Agrees(b, 0, y)
  <2> HIDE DEF y
  <2> SUFFICES ASSUME NEW j \in 1 .. Len(y), 0 + j <= Len(b) PROVE b[0 + j] = y[j]
    BY DEF Agrees
  <2>1. 0 + j = j /\ j \in 1 .. Len(b)
    BY <1>2
  <2>2. (b \o w)[j] = b[j] /\ (y \o rest)[j] = y[j]
    BY <1>10, <2>1
  <2> QED
    BY <1>9, <2>1, <2>2 DEF y
<1>12. total = m /\ m <= Len(b)
  <2>1. PacketLen(b) = IF Len(Bytes[q]) <= Len(b) THEN {Len(Bytes[q])} ELSE {}
    BY <1>5, <1>11, PacketFound
  <2> QED
    BY <2>1
<1>13. SubSeq(b, 1, m) = y
  <2> DEFINE z == SubSeq(b, 1, m)
  <2> HIDE DEF y, m
  <2>1. z \in Seq(Byte) /\ Len(z) = m /\ \A j \in 1 .. m : z[j] = b[j]
    BY <1>10, <1>12
  <2>2. \A j \in 1 .. m : b[j] = y[j]
    <3> SUFFICES ASSUME NEW j \in 1 .. m PROVE b[j] = y[j]
      OBVIOUS
    <3>1. 0 + j = j /\ 0 + j <= Len(b) /\ j \in 1 .. Len(y)
      BY <1>2, <1>10, <1>12 DEF m
    <3> QED
      BY <1>11, <3>1 DEF Agrees
  <2> HIDE DEF z
  <2>3. \A j \in 1 .. Len(z) : z[j] = y[j]
    BY <2>1, <2>2
  <2>4. Len(z) = Len(y)
    BY <2>1 DEF m
  <2>5. z = y
    BY <1>10, <2>1, <2>3, <2>4, SeqEqual
  <2> QED
    BY <2>5 DEF z
<1> DEFINE t == SubSeq(b, m + 1, Len(b))
<1>14. t \in Seq(Byte) /\ y \o t = b
  <2> HIDE DEF y, m
  <2>1. t \in Seq(Byte)
    BY <1>2, <1>10, <1>12
  <2>2. /\ 1 \in 1 .. Len(b) + 1 /\ m \in 1 - 1 .. Len(b) /\ Len(b) \in m .. Len(b)
    BY <1>2, <1>10, <1>12
  <2>3. SubSeq(b, 1, m) \o SubSeq(b, m + 1, Len(b)) = SubSeq(b, 1, Len(b))
    BY <2>2, ConcatAdjacentSubSeq
  <2>4. SubSeq(b, 1, Len(b)) = b
    BY SubSeqFull
  <2> QED
    BY <1>13, <2>1, <2>3, <2>4
<1>15. ParsePacket(SubSeq(b, 1, m)) = q
  BY <1>5, <1>13, PacketParsed
<1>16. Append(c, q) \in Seq(Packet) /\ IsPrefix(Append(c, q), s)
  <2> DEFINE d == Append(c, q)
  <2>1. /\ d \in Seq(Packet) /\ Len(d) = n + 1 /\ d[n + 1] = q
        /\ \A i \in 1 .. n : d[i] = c[i]
    BY <1>5 DEF n
  <2> HIDE DEF d
  <2>2. Len(d) <= Len(s) /\ \A i \in 1 .. Len(d) : d[i] = s[i]
    <3>1. Len(d) <= Len(s)
      BY <1>0, <1>4, <2>1
    <3>2. ASSUME NEW i \in 1 .. Len(d) PROVE d[i] = s[i]
      <4>1. i \in 1 .. n \/ i = n + 1
        BY <1>0, <2>1
      <4>2. CASE i \in 1 .. n
        BY <1>1, <2>1, <4>2
      <4>3. CASE i = n + 1
        BY <2>1, <4>3 DEF q
      <4> QED
        BY <4>1, <4>2, <4>3
    <3> QED
      BY <3>1, <3>2
  <2> DEFINE g == SubSeq(d, 1, Len(d))
             h == SubSeq(s, 1, Len(d))
  <2>3. /\ g \in Seq(Packet) /\ Len(g) = Len(d) /\ \A i \in 1 .. Len(d) : g[i] = d[i]
    BY <2>1
  <2>4. /\ h \in Seq(Packet) /\ Len(h) = Len(d) /\ \A i \in 1 .. Len(d) : h[i] = s[i]
    BY <1>0, <2>1, <2>2
  <2> HIDE DEF g, h
  <2>5. \A i \in 1 .. Len(g) : g[i] = h[i]
    BY <2>2, <2>3, <2>4
  <2>6. g = h
    BY <2>3, <2>4, <2>5, SeqEqual
  <2> QED
    BY <2>1, <2>2, <2>6 DEF IsPrefix, d, g, h
<1>17. Stream(Append(c, q)) = Stream(c) \o y
  BY <1>5, StreamAppend
<1> HIDE DEF y, m, t
<1>18. (Stream(c) \o y) \o (t \o w) = Stream(c) \o (b \o w)
  <2>1. t \o w \in Seq(Byte)
    BY <1>14
  <2>2. (Stream(c) \o y) \o (t \o w) = Stream(c) \o (y \o (t \o w))
    BY <1>2, <1>10, <2>1, BytesAssociative
  <2>3. y \o (t \o w) = (y \o t) \o w
    <3>1. t \in Seq(Byte) /\ y \in Seq(Byte)
      BY <1>10, <1>14
    <3> QED
      BY <3>1, BytesAssociative, Zenon
  <2> QED
    BY <1>14, <2>2, <2>3
<1>19. Stream(Append(c, q)) \o (t \o w) = Stream(s)
  BY <1>17, <1>18
<1> QED
  BY <1>5, <1>12, <1>14, <1>15, <1>16, <1>19 DEF t

-----------------------------------------------------------------------------
(* The packets that are handled. *)

\* With bytes b to be looked at and w to arrive: what was cut is what was sent
\* first, and nothing of the rest is lost.
Framing(c, b, w) ==
  /\ c \in Seq(Packet) /\ IsPrefix(c, sent)
  /\ Stream(c) \o (b \o w) = Stream(sent)

\* Framed is inductive but for the types, which need every byte to be one.
FrameInv ==
  /\ wire \in Seq(Byte) /\ buf \in Seq(Byte) /\ sent \in Seq(Packet)
  /\ conn \in 0 .. MaxConns /\ aligned \in BOOLEAN /\ (conn = 0 => aligned)
  /\ aligned => Framing(cut, buf, wire)

\* mqtt_decode_varint returns two numbers.
LEMMA DecodeType ==
  ASSUME NEW b \in Seq(Byte), NEW o \in Nat
  PROVE  DecodeVarint(Radix, b, o) \in [value : Nat, used : Nat]
<1> DEFINE T == [value : Nat, used : Nat]
<1>1. Refused \in T
  BY DEF Refused
<1>2. ASSUME NEW i \in 0 .. 3, NEW rest \in T PROVE Digit(Radix, b, o, i, rest) \in T
  <2> DEFINE x == b[o + i + 1]
  <2>1. CASE o + i >= Len(b)
    BY <1>1, <2>1 DEF Digit
  <2>2. CASE ~(o + i >= Len(b))
    <3>1. o + i + 1 \in 1 .. Len(b)
      BY <2>2
    <3>2. x \in Nat /\ Radix \in Nat
      BY <3>1, InboundAssumption DEF Byte
    <3> HIDE DEF x
    <3>3. CASE x < Radix
      <4>1. [value |-> x, used |-> i + 1] \in T
        BY <3>2
      <4> QED
        BY <2>2, <3>3, <4>1 DEF Digit, x
    <3>4. CASE ~(x < Radix)
      <4>1. Radix * rest.value \in Nat /\ x - Radix \in Nat /\ rest.used \in Nat
        BY <3>2, <3>4
      <4>2. [value |-> x - Radix + Radix * rest.value, used |-> rest.used] \in T
        BY <4>1
      <4> QED
        BY <2>2, <3>4, <4>2 DEF Digit, x
    <3> QED
      BY <3>3, <3>4
  <2> QED
    BY <2>1, <2>2
<1>31. PICK d : Rounds(Radix, b, o, d)
  BY DecodeUnfolds
<1>3. /\ d[4] = Refused
      /\ \A i \in 0 .. 3 : d[i] = Digit(Radix, b, o, i, d[i + 1])
      /\ DecodeVarint(Radix, b, o) = d[0]
  BY <1>31 DEF Rounds
<1> HIDE DEF T
<1>4. /\ d[0] = Digit(Radix, b, o, 0, d[1]) /\ d[1] = Digit(Radix, b, o, 1, d[2])
      /\ d[2] = Digit(Radix, b, o, 2, d[3]) /\ d[3] = Digit(Radix, b, o, 3, d[4])
  BY <1>3
<1>5. d[3] \in T
  BY <1>1, <1>2, <1>3, <1>4
<1>6. d[2] \in T
  BY <1>2, <1>4, <1>5
<1>7. d[1] \in T
  BY <1>2, <1>4, <1>6
<1>8. d[0] \in T
  BY <1>2, <1>4, <1>7
<1> QED
  BY <1>3, <1>8 DEF T

\* A packet that is found in the buffer is no longer than it.
LEMMA PacketLenType ==
  ASSUME NEW b \in Seq(Byte), NEW total \in PacketLen(b)
  PROVE  total \in Nat /\ total <= Len(b)
<1> DEFINE d == DecodeVarint(Radix, b, 1)
<1>1. total = 1 + d.used + d.value /\ Len(b) >= 1 + d.used + d.value
  BY DEF PacketLen
<1>2. d.used \in Nat /\ d.value \in Nat
  <2>1. d \in [value : Nat, used : Nat]
    BY DecodeType
  <2> HIDE DEF d
  <2> QED
    BY <2>1
<1> HIDE DEF d
<1> QED
  BY <1>1, <1>2

\* A run of the loop with bytes b leaves what it has not taken out, and works on
\* a packet that was sent.
LEMMA LoopFrames ==
  ASSUME NEW k \in Reader, NEW b \in Seq(Byte), NEW w \in Seq(Byte), sent \in Seq(Packet),
         aligned => Framing(cut, b, w), Loop(k, b)
  PROVE  /\ buf' \in Seq(Byte)
         /\ aligned => Framing(cut', buf', w)
         /\ \/ reader' = [reader EXCEPT ![k] = Idle]
            \/ \E p : /\ reader' = [reader EXCEPT ![k] = Handling(p)]
                      /\ aligned => p \in Packet
<1>1. CASE buf' = b /\ reader' = [reader EXCEPT ![k] = Idle] /\ UNCHANGED cut
  BY <1>1
<1>2. ASSUME NEW total \in PacketLen(b),
             \E p \in {ParsePacket(SubSeq(b, 1, total))} :
               /\ buf' = SubSeq(b, total + 1, Len(b))
               /\ cut' = Append(cut, p)
               /\ reader' = [reader EXCEPT ![k] = Handling(p)]
      PROVE  /\ buf' \in Seq(Byte)
             /\ aligned => Framing(cut', buf', w)
             /\ \E p : /\ reader' = [reader EXCEPT ![k] = Handling(p)]
                       /\ aligned => p \in Packet
  <2> DEFINE p == ParsePacket(SubSeq(b, 1, total))
             t == SubSeq(b, total + 1, Len(b))
  <2>1. buf' = t /\ cut' = Append(cut, p) /\ reader' = [reader EXCEPT ![k] = Handling(p)]
    BY <1>2
  <2>2. t \in Seq(Byte)
    BY PacketLenType
  <2>3. aligned => p \in Packet /\ Framing(Append(cut, p), t, w)
    BY NextPacket DEF Framing
  <2> HIDE DEF p, t
  <2> QED
    BY <2>1, <2>2, <2>3
<1> QED
  BY <1>1, <1>2 DEF Loop

\* A connection begins aligned.
LEMMA FrameInit == Init => FrameInv
<1> SUFFICES ASSUME Init PROVE FrameInv
  OBVIOUS
<1>1. wire = <<>> /\ buf = <<>> /\ sent = <<>> /\ cut = <<>> /\ conn = 0 /\ aligned = TRUE
  BY DEF Init
<1>2. <<>> \in Seq(Byte) /\ <<>> \in Seq(Packet) /\ 0 \in 0 .. MaxConns
  BY InboundAssumption
<1>3. Framing(<<>>, <<>>, <<>>)
  <2>1. IsPrefix(<<>>, sent)
    BY <1>1 DEF IsPrefix
  <2>2. Stream(<<>>) \o (<<>> \o <<>>) = Stream(sent)
    BY <1>1, <1>2, StreamEmpty, ConcatEmptySeq
  <2> QED
    BY <1>2, <2>1, <2>2 DEF Framing
<1> QED
  BY <1>1, <1>2, <1>3 DEF FrameInv

\* A step of the loop in which nothing else of the stream changes.
LEMMA FrameLoop ==
  ASSUME FrameInv, NEW k \in Reader, Loop(k, buf),
         UNCHANGED <<wire, conn, sent, aligned>>
  PROVE  FrameInv'
<1>1. buf' \in Seq(Byte) /\ (aligned => Framing(cut', buf', wire))
  BY LoopFrames DEF FrameInv
<1> QED
  BY <1>1 DEF FrameInv, Framing

\* The framing is untouched as long as the stream is.
LEMMA FrameSame ==
  ASSUME FrameInv, UNCHANGED <<wire, buf, conn, sent, cut, aligned>>
  PROVE  FrameInv'
BY DEF FrameInv, Framing

\* A chunk moves bytes from the wire to the buffer and whole packets out of it.
LEMMA FrameChunk ==
  ASSUME FrameInv, NEW k \in Reader, Chunk(k)
  PROVE  FrameInv'
<1>1. PICK n \in 1 .. Len(wire) : /\ wire' = SubSeq(wire, n + 1, Len(wire))
                                  /\ Loop(k, buf \o SubSeq(wire, 1, n))
  BY DEF Chunk
<1>2. UNCHANGED <<conn, sent, aligned>>
  BY DEF Chunk
<1> DEFINE a == SubSeq(wire, 1, n)
           b == buf \o a
<1>3. wire \in Seq(Byte) /\ buf \in Seq(Byte) /\ sent \in Seq(Packet) /\ Len(wire) \in Nat
  BY DEF FrameInv
<1>4. a \in Seq(Byte) /\ wire' \in Seq(Byte)
  BY <1>1, <1>3
<1>5. a \o wire' = wire
  <2>1. /\ 1 \in 1 .. Len(wire) + 1 /\ n \in 1 - 1 .. Len(wire)
        /\ Len(wire) \in n .. Len(wire)
    BY <1>3
  <2>2. a \o wire' = SubSeq(wire, 1, Len(wire))
    BY <1>1, <1>3, <2>1, ConcatAdjacentSubSeq
  <2> QED
    BY <1>3, <2>2, SubSeqFull
<1> HIDE DEF a
<1>6. b \in Seq(Byte) /\ b \o wire' = buf \o wire
  <2>1. (buf \o a) \o wire' = buf \o (a \o wire')
    BY <1>3, <1>4, BytesAssociative
  <2> QED
    BY <1>3, <1>4, <1>5, <2>1
<1>7. Loop(k, b)
  BY <1>1 DEF a
<1> HIDE DEF b
<1>8. aligned => Framing(cut, b, wire')
  BY <1>6 DEF FrameInv, Framing
<1>9. buf' \in Seq(Byte) /\ (aligned => Framing(cut', buf', wire'))
  BY <1>3, <1>4, <1>6, <1>7, <1>8, LoopFrames
<1> QED
  BY <1>2, <1>3, <1>4, <1>9 DEF FrameInv, Framing

\* A packet that is sent lengthens what is on the wire.
LEMMA FrameSend ==
  ASSUME FrameInv, NEW p \in Packet, Send(p)
  PROVE  FrameInv'
<1>1. /\ sent' = Append(sent, p) /\ wire' = wire \o Bytes[p]
      /\ UNCHANGED <<buf, conn, cut, aligned>>
  BY DEF Send
<1>2. /\ wire \in Seq(Byte) /\ buf \in Seq(Byte) /\ sent \in Seq(Packet)
      /\ Bytes[p] \in Seq(Byte)
  BY BytesFacts DEF FrameInv
<1>3. wire' \in Seq(Byte) /\ sent' \in Seq(Packet)
  BY <1>1, <1>2
<1>4. ASSUME aligned PROVE Framing(cut, buf, wire)'
  <2>1. /\ cut \in Seq(Packet) /\ IsPrefix(cut, sent)
        /\ Stream(cut) \o (buf \o wire) = Stream(sent)
    BY <1>4 DEF FrameInv, Framing
  <2>2. IsPrefix(cut, sent')
    <3>1. Len(cut) \in Nat /\ Len(cut) <= Len(sent) /\ Len(sent') = Len(sent) + 1
      BY <1>1, <1>2, <2>1 DEF IsPrefix
    <3>2. SubSeq(sent', 1, Len(cut)) = SubSeq(sent, 1, Len(cut))
      BY <1>1, <1>2, <3>1
    <3> QED
      BY <1>2, <2>1, <3>1, <3>2 DEF IsPrefix
  <2>3. Stream(cut) \o (buf \o wire') = Stream(sent')
    <3> DEFINE x == Bytes[p]
    <3>1. Stream(cut) \in Seq(Byte) /\ buf \o wire \in Seq(Byte) /\ x \in Seq(Byte)
      BY <1>2, <2>1, StreamType
    <3>2. Stream(sent') = Stream(sent) \o x
      BY <1>1, <1>2, StreamAppend
    <3>3. wire' = wire \o x
      BY <1>1
    <3> HIDE DEF x
    <3>4. (Stream(cut) \o (buf \o wire)) \o x = Stream(cut) \o ((buf \o wire) \o x)
      BY <3>1, BytesAssociative
    <3>5. (buf \o wire) \o x = buf \o (wire \o x)
      BY <1>2, <3>1, BytesAssociative
    <3> QED
      BY <2>1, <3>2, <3>3, <3>4, <3>5
  <2> QED
    BY <1>1, <2>1, <2>2, <2>3 DEF Framing
<1> QED
  BY <1>1, <1>2, <1>3, <1>4 DEF FrameInv, Framing

\* Another connection begins with nothing sent; with bytes left in the buffer it is
\* not aligned.
LEMMA FrameReplaced ==
  ASSUME FrameInv, Reconnect \/ Reopen
  PROVE  FrameInv'
<1>1. /\ wire' = <<>> /\ sent' = <<>> /\ cut' = <<>> /\ conn' = conn + 1 /\ conn < MaxConns
      /\ aligned' \in BOOLEAN /\ buf' \in Seq(Byte) /\ (aligned' => buf' = <<>>)
  <2>1. Replaced
    BY DEF Reconnect, Reopen
  <2>2. CASE Reconnect
    BY <2>1, <2>2 DEF Reconnect, Replaced
  <2>3. CASE Reopen
    <3>1. aligned' = (buf = <<>>) /\ buf' = buf
      BY <2>3 DEF Reopen
    <3>2. aligned' \in BOOLEAN /\ (aligned' => buf = <<>>)
      BY <3>1, Zenon
    <3> QED
      BY <2>1, <3>1, <3>2 DEF Replaced, FrameInv
  <2> QED
    BY <2>2, <2>3
<1>2. <<>> \in Seq(Byte) /\ <<>> \in Seq(Packet)
  OBVIOUS
<1>3. conn' \in 0 .. MaxConns /\ conn' # 0
  <2>1. conn \in 0 .. MaxConns /\ MaxConns \in Nat
    BY InboundAssumption DEF FrameInv
  <2> QED
    BY <1>1, <2>1
<1>4. aligned' => Framing(cut, buf, wire)'
  <2>1. IsPrefix(<<>>, <<>>)
    BY DEF IsPrefix
  <2>2. Stream(<<>>) \o (<<>> \o <<>>) = Stream(<<>>)
    BY <1>2, StreamEmpty, ConcatEmptySeq
  <2> QED
    BY <1>1, <1>2, <2>1, <2>2 DEF Framing
<1> QED
  BY <1>1, <1>2, <1>3, <1>4 DEF FrameInv

\* Every step keeps the framing.
LEMMA FrameNext == FrameInv /\ [Next]_vars => FrameInv'
<1> SUFFICES ASSUME FrameInv, [Next]_vars PROVE FrameInv'
  OBVIOUS
<1>1. ASSUME NEW k \in Reader, Chunk(k) PROVE FrameInv'
  BY <1>1, FrameChunk
<1>2. ASSUME NEW k \in Reader, HandleEnds(k) PROVE FrameInv'
  BY <1>2, FrameLoop DEF HandleEnds, Resume
<1>3. ASSUME NEW k \in Reader, Stamp(k) PROVE FrameInv'
  BY <1>3, FrameSame DEF Stamp
<1>4. ASSUME NEW k \in Reader, HandlerReturns(k) PROVE FrameInv'
  <2>1. CASE handlers # stamped[reader[k].pkt]
    BY <1>4, <2>1, FrameLoop DEF HandlerReturns, Resume
  <2>2. CASE handlers = stamped[reader[k].pkt]
    BY <1>4, <2>2, FrameSame DEF HandlerReturns
  <2> QED
    BY <2>1, <2>2
<1>5. ASSUME NEW k \in Reader, QueueAck(k) PROVE FrameInv'
  BY <1>5, FrameLoop DEF QueueAck, Resume
<1>6. ASSUME NEW h \in Handler, AddHandler(h) PROVE FrameInv'
  BY <1>6, FrameSame DEF AddHandler
<1>7. ASSUME NEW p \in Packet, Send(p) PROVE FrameInv'
  BY <1>7, FrameSend
<1>8. CASE Reconnect \/ Reopen
  BY <1>8, FrameReplaced
<1>9. CASE UNCHANGED vars
  BY <1>9, FrameSame DEF vars
<1> QED
  BY <1>1, <1>2, <1>3, <1>4, <1>5, <1>6, <1>7, <1>8, <1>9 DEF Next, Step

\* mqtt_packet_reader (mqtt_reader.py:18-36), for any packets, any number of
\* readers and any chunks: while the stream is aligned, the packets that are
\* handled are those that were sent, in that order, and nothing of it is lost.
THEOREM PacketsAreFramed == Spec => []Framed
<1>1. FrameInv => Framed
  <2> SUFFICES ASSUME FrameInv, aligned
               PROVE  IsPrefix(cut, sent) /\ Stream(cut) \o buf \o wire = Stream(sent)
    BY DEF Framed
  <2>1. /\ cut \in Seq(Packet) /\ IsPrefix(cut, sent) /\ wire \in Seq(Byte) /\ buf \in Seq(Byte)
        /\ Stream(cut) \o (buf \o wire) = Stream(sent)
    BY DEF FrameInv, Framing
  <2>2. Stream(cut) \in Seq(Byte)
    BY <2>1, StreamType
  <2>3. (Stream(cut) \o buf) \o wire = Stream(cut) \o (buf \o wire)
    BY <2>1, <2>2, BytesAssociative
  <2> QED
    BY <2>1, <2>3
<1> QED
  BY <1>1, FrameInit, FrameNext, PTL DEF Spec

-----------------------------------------------------------------------------
(* What a reader holds. *)

HoldsOne(r) ==
  \/ r = Idle
  \/ r.at = "packet" /\ (aligned /\ conn = 0 => r.pkt \in Packet)
  \/ r.at = "ack" /\ r.pkt \in Msg
  \/ r.at = "call" /\ r.pkt \in Msg /\ r.todo \subseteq Handler

\* TypeOK needs CallInv for what is to be called, and FrameInv for the packets.
HoldInv ==
  /\ acked \subseteq Msg
  /\ \A x \in Msg : stamped[x] = None \/ stamped[x] \subseteq Handler
  /\ \A k \in Reader : HoldsOne(reader[k])

\* No reader holds a packet at the start.
LEMMA HoldInit == Init => HoldInv
BY DEF Init, HoldInv, HoldsOne

\* Reader k comes to hold r.
LEMMA HoldsNew ==
  ASSUME HoldInv, CallInv, NEW k \in Reader, NEW r, reader' = [reader EXCEPT ![k] = r],
         HoldsOne(r), UNCHANGED <<conn, aligned>>
  PROVE  \A j \in Reader : HoldsOne(reader[j])'
<1> SUFFICES ASSUME NEW j \in Reader PROVE HoldsOne(reader[j])'
  OBVIOUS
<1>1. reader'[j] = IF j = k THEN r ELSE reader[j]
  BY DEF CallInv
<1>2. HoldsOne(reader'[j])
  BY <1>1 DEF HoldInv
<1> QED
  BY <1>2 DEF HoldsOne

\* What mqtt_packet_reader takes out of an aligned stream is a packet.
LEMMA HoldLoop ==
  ASSUME HoldInv, CallInv, NEW k \in Reader, NEW b \in Seq(Byte), NEW w \in Seq(Byte),
         sent \in Seq(Packet), aligned => Framing(cut, b, w), Loop(k, b),
         UNCHANGED <<conn, aligned, stamped>>, acked' \subseteq Msg
  PROVE  HoldInv'
<1>1. \/ reader' = [reader EXCEPT ![k] = Idle]
      \/ \E p : /\ reader' = [reader EXCEPT ![k] = Handling(p)]
                /\ aligned => p \in Packet
  BY LoopFrames
<1>2. PICK r : reader' = [reader EXCEPT ![k] = r] /\ HoldsOne(r)
  <2>1. HoldsOne(Idle)
    BY DEF HoldsOne
  <2>2. ASSUME NEW p, aligned => p \in Packet PROVE HoldsOne(Handling(p))
    BY <2>2, <2>1 DEF HoldsOne, Handling
  <2> QED
    BY <1>1, <2>1, <2>2
<1>3. \A j \in Reader : HoldsOne(reader[j])'
  BY <1>2, HoldsNew
<1> QED
  BY <1>3 DEF HoldInv

\* A reader in the loop over the handlers holds a message.
LEMMA HoldIterate ==
  ASSUME HoldInv, CallInv, NEW k \in Reader, NEW x \in Msg, NEW todo \in SUBSET Handler,
         Iterate(k, x, todo), UNCHANGED <<conn, aligned>>
  PROVE  \A j \in Reader : HoldsOne(reader[j])'
<1>1. CASE reader' = [reader EXCEPT ![k] = [at |-> "ack", pkt |-> x]]
  <2>1. HoldsOne([at |-> "ack", pkt |-> x])
    BY DEF HoldsOne
  <2> QED
    BY <1>1, <2>1, HoldsNew
<1>2. ASSUME NEW h \in todo,
             reader' = [reader EXCEPT ![k] = [at |-> "call", pkt |-> x, todo |-> todo \ {h}]]
      PROVE  \A j \in Reader : HoldsOne(reader[j])'
  <2>1. HoldsOne([at |-> "call", pkt |-> x, todo |-> todo \ {h}])
    BY DEF HoldsOne
  <2> QED
    BY <1>2, <2>1, HoldsNew
<1> QED
  BY <1>1, <1>2 DEF Iterate

\* Every step keeps what the readers hold.
LEMMA HoldNext == HoldInv /\ CallInv /\ FrameInv /\ [Next]_vars => HoldInv'
<1> SUFFICES ASSUME HoldInv, CallInv, FrameInv, [Next]_vars PROVE HoldInv'
  OBVIOUS
<1>1. ASSUME NEW k \in Reader, Loop(k, buf), UNCHANGED <<conn, aligned, stamped>>,
             acked' \subseteq Msg
      PROVE  HoldInv'
  <2>1. /\ buf \in Seq(Byte) /\ wire \in Seq(Byte) /\ sent \in Seq(Packet)
        /\ aligned => Framing(cut, buf, wire)
    BY DEF FrameInv
  <2> QED
    BY <1>1, <2>1, HoldLoop
<1>2. ASSUME NEW k \in Reader, Chunk(k) PROVE HoldInv'
  <2>1. PICK n \in 1 .. Len(wire) : Loop(k, buf \o SubSeq(wire, 1, n))
    BY <1>2 DEF Chunk
  <2> DEFINE b == buf \o SubSeq(wire, 1, n)
             w == SubSeq(wire, n + 1, Len(wire))
  <2>2. /\ wire \in Seq(Byte) /\ buf \in Seq(Byte) /\ sent \in Seq(Packet)
        /\ Len(wire) \in Nat
    BY DEF FrameInv
  <2>3. SubSeq(wire, 1, n) \in Seq(Byte) /\ w \in Seq(Byte)
    BY <2>2
  <2>4. b \in Seq(Byte)
    BY <2>2, <2>3
  <2>5. aligned => Framing(cut, b, w)
    <3>1. SubSeq(wire, 1, n) \o w = SubSeq(wire, 1, Len(wire))
      <4>1. /\ 1 \in 1 .. Len(wire) + 1 /\ n \in 1 - 1 .. Len(wire)
            /\ Len(wire) \in n .. Len(wire)
        BY <2>2
      <4> QED
        BY <2>2, <4>1, ConcatAdjacentSubSeq
    <3>2. SubSeq(wire, 1, Len(wire)) = wire
      BY <2>2, SubSeqFull
    <3> DEFINE a == SubSeq(wire, 1, n)
    <3>3. a \in Seq(Byte) /\ a \o w = wire
      BY <2>3, <3>1, <3>2
    <3> HIDE DEF a, w
    <3>4. (buf \o a) \o w = buf \o (a \o w)
      <4>1. buf \in Seq(Byte) /\ w \in Seq(Byte)
        BY <2>2, <2>3 DEF w
      <4> QED
        BY <3>3, <4>1, BytesAssociative, Zenon
    <3>5. b \o w = buf \o wire
      BY <3>3, <3>4 DEF a
    <3> QED
      BY <3>5 DEF FrameInv, Framing
  <2>6. UNCHANGED <<conn, aligned, stamped>> /\ acked' \subseteq Msg
    BY <1>2 DEF Chunk, HoldInv
  <2>7. Loop(k, b)
    BY <2>1
  <2> HIDE DEF b, w
  <2> QED
    BY <2>2, <2>3, <2>4, <2>5, <2>6, <2>7, HoldLoop
<1>3. ASSUME NEW k \in Reader, HandleEnds(k) PROVE HoldInv'
  <2>1. Loop(k, buf) /\ UNCHANGED <<conn, aligned, stamped>> /\ acked' \subseteq Msg
    BY <1>3 DEF HandleEnds, Resume, HoldInv
  <2> QED
    BY <1>1, <2>1
<1>4. ASSUME NEW k \in Reader, QueueAck(k) PROVE HoldInv'
  <2>1. Loop(k, buf) /\ UNCHANGED <<conn, aligned, stamped>>
    BY <1>4 DEF QueueAck, Resume
  <2>2. acked' = acked \cup {reader[k].pkt} /\ reader[k].pkt \in Msg
    BY <1>4 DEF QueueAck, HoldInv, HoldsOne, Idle
  <2>3. acked' \subseteq Msg
    BY <2>2 DEF HoldInv
  <2> QED
    BY <1>1, <2>1, <2>3
<1>5. ASSUME NEW k \in Reader, Stamp(k) PROVE HoldInv'
  <2> DEFINE x == reader[k].pkt
  <2>1. x \in Msg /\ UNCHANGED <<conn, aligned, acked>>
    BY <1>5 DEF Stamp
  <2>2. CASE stamped[x] # None
    <3>1. /\ reader' = [reader EXCEPT ![k] = [at |-> "ack", pkt |-> x]]
          /\ UNCHANGED stamped
      BY <1>5, <2>2 DEF Stamp
    <3>2. HoldsOne([at |-> "ack", pkt |-> x])
      BY <2>1 DEF HoldsOne
    <3>3. \A j \in Reader : HoldsOne(reader[j])'
      BY <2>1, <3>1, <3>2, HoldsNew
    <3> QED
      BY <2>1, <3>1, <3>3 DEF HoldInv
  <2>3. CASE stamped[x] = None
    <3>1. Iterate(k, x, handlers) /\ stamped' = [stamped EXCEPT ![x] = handlers]
      BY <1>5, <2>3 DEF Stamp
    <3>2. handlers \in SUBSET Handler /\ DOMAIN stamped = Msg
      BY DEF CallInv
    <3> HIDE DEF x
    <3>3. \A j \in Reader : HoldsOne(reader[j])'
      BY <2>1, <3>1, <3>2, HoldIterate
    <3>4. \A y \in Msg : stamped'[y] = None \/ stamped'[y] \subseteq Handler
      BY <3>1, <3>2 DEF HoldInv
    <3> QED
      BY <2>1, <3>3, <3>4 DEF HoldInv
  <2> QED
    BY <2>2, <2>3
<1>6. ASSUME NEW k \in Reader, HandlerReturns(k) PROVE HoldInv'
  <2> DEFINE x == reader[k].pkt
             todo == reader[k].todo
  <2>1. UNCHANGED <<conn, aligned, acked, stamped>> /\ reader[k].at = "call"
    BY <1>6 DEF HandlerReturns
  <2>2. CASE handlers # stamped[x]
    <3>1. Loop(k, buf) /\ acked' \subseteq Msg
      BY <1>6, <2>1, <2>2 DEF HandlerReturns, Resume, HoldInv
    <3> QED
      BY <1>1, <2>1, <3>1
  <2>3. CASE handlers = stamped[x]
    <3>1. Iterate(k, x, todo)
      BY <1>6, <2>3 DEF HandlerReturns
    <3>2. x \in Msg /\ todo \in SUBSET Handler
      BY <2>1 DEF CallInv, CallOK, Calling
    <3> HIDE DEF x, todo
    <3>3. \A j \in Reader : HoldsOne(reader[j])'
      BY <2>1, <3>1, <3>2, HoldIterate
    <3> QED
      BY <2>1, <3>3 DEF HoldInv
  <2> QED
    BY <2>2, <2>3
<1>7. ASSUME UNCHANGED <<reader, acked, stamped, conn, aligned>> PROVE HoldInv'
  BY <1>7 DEF HoldInv, HoldsOne
<1>8. ASSUME NEW h \in Handler, AddHandler(h) PROVE HoldInv'
  BY <1>7, <1>8 DEF AddHandler
<1>9. ASSUME NEW p \in Packet, Send(p) PROVE HoldInv'
  BY <1>7, <1>9 DEF Send
<1>10. CASE Reconnect \/ Reopen
  <2>1. Replaced
    BY <1>10 DEF Reconnect, Reopen
  <2>2. conn' # 0 /\ UNCHANGED <<reader, acked, stamped>>
    <3>1. conn \in Nat /\ conn' = conn + 1
      BY <2>1 DEF Replaced, FrameInv
    <3> QED
      BY <2>1, <3>1 DEF Replaced
  <2>3. \A k \in Reader : HoldsOne(reader[k])'
    BY <2>2 DEF HoldInv, HoldsOne
  <2> QED
    BY <2>2, <2>3 DEF HoldInv
<1>11. CASE UNCHANGED vars
  BY <1>7, <1>11 DEF vars
<1> QED
  BY <1>2, <1>3, <1>4, <1>5, <1>6, <1>8, <1>9, <1>10, <1>11 DEF Next, Step

\* Type correctness, for any packets, handlers and readers.  A reader holds a
\* packet that was sent while the first connection is up: what it takes out of
\* the stream is one, by FrameInv.
THEOREM TypeCorrect == Spec => []TypeOK
<1>1. CallInv /\ FrameInv /\ HoldInv => TypeOK
  <2> SUFFICES ASSUME CallInv, FrameInv, HoldInv PROVE TypeOK
    OBVIOUS
  <2>1. /\ \A i \in 1 .. Len(wire) : wire[i] \in Byte
        /\ \A i \in 1 .. Len(buf) : buf[i] \in Byte
    BY DEF FrameInv
  <2>2. \A k \in Reader :
          \/ reader[k] = Idle
          \/ reader[k].at = "packet" /\ (aligned /\ conn = 0 => reader[k].pkt \in Packet)
          \/ reader[k].at = "ack" /\ reader[k].pkt \in Msg
          \/ reader[k].at = "call" /\ reader[k].pkt \in Msg /\ reader[k].todo \subseteq Handler
    BY DEF HoldInv, HoldsOne
  <2>3. /\ handlers \subseteq Handler /\ acked \subseteq Msg
        /\ \A x \in Msg : stamped[x] = None \/ stamped[x] \subseteq Handler
    BY DEF CallInv, HoldInv
  <2>4. conn \in 0 .. MaxConns /\ aligned \in BOOLEAN
    BY DEF FrameInv
  <2> QED
    BY <2>1, <2>2, <2>3, <2>4 DEF TypeOK
<1> QED
  BY <1>1, CallInit, CallNext, FrameInit, FrameNext, HoldInit, HoldNext, PTL DEF Spec
=============================================================================
