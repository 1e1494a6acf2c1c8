-------------------------- MODULE DispatcherProofs --------------------------
(***************************************************************************)
(* Proofs about Dispatcher, for any queues, probes, sequence numbers and   *)
(* losses of the connection.                                               *)
(***************************************************************************)
EXTENDS Dispatcher, Recursion, TLAPS

\* What the queues and the generator of a sweep look like.
Shape == queues \in [Type -> [Id -> Tables \cup {None}]]

SweepTypes ==
  /\ sweep \in [types: Seq(Type), type: Type \cup {None}, ids: SUBSET Id,
                queue: Id \cup {None}, seqs: SUBSET Seqs, orphan: Tables \cup {None}]
  /\ sweep.ids # {} => sweep.type \in Type
  /\ sweep.seqs # {} => sweep.type \in Type /\ sweep.queue \in Id

RestTypes ==
  /\ pc \in {"reconnect", "run", "send", "sleep", "off", "dead"}
  /\ pipeUp \in BOOLEAN /\ losses \in 0 .. MaxLost
  /\ closed \in {"no", "closing", "bye", "closed"}
  /\ signing \subseteq Queue \X Seqs
  /\ emitted \in Key \cup {None}
  /\ finished \subseteq Key

\* Messages published by send_probe and send_probe_ack, and only they, are
\* one-shot; an ack of a probe stays where it was put.
OneShotInv ==
  \A t \in Type, x \in Id : \A s \in Used(t, x) :
    queues[t][x][s].oneShot <=> <<t, x, s>> \in direct

DirectInv ==
  /\ direct \subseteq {"PROBE", "MSGACK"} \X ProbeQueue \X {0}
  /\ OneShotInv
  /\ \A x \in Id : \A s \in Used("PROBE", x) : <<"PROBE", x, s>> \in direct
  /\ \A x \in Id : <<"MSGACK", x, 0>> \in direct => 0 \in Used("MSGACK", x)

\* Where a sweep is.  Nothing the generator has yet to look up in the queue it
\* holds, or under the ids of its snapshot, has gone without its knowing;
\* except the MSG queues of a snapshot that dequeue_msg(queue_id) takes away.
SweepInv ==
  /\ pc \notin {"run", "send"} => sweep = NoSweep
  /\ pc = "send" => sweep.type \in {"MSG", "MSGACK"}
  /\ sweep.orphan # None => sweep.type = "MSG"
  /\ sweep.seqs # {} /\ sweep.orphan = None => queues[sweep.type][sweep.queue] # None
  /\ sweep.type # "MSG" => \A x \in sweep.ids : queues[sweep.type][x] # None

\* What is finished is marked, or has gone and does not come back by itself.
FinishedInv ==
  /\ \A t \in Type, x \in Id : \A s \in Used(t, x) :
       <<t, x, s>> \in finished => queues[t][x][s].acked
  /\ \A k \in finished : k[1] = "MSG" \/ (k[1] = "PROBE" /\ k \in direct)

ClosedInv ==
  /\ closed \in {"bye", "closed"} => Stopped
  /\ closed = "closed" => ~pipeUp

QueueInv == Shape /\ DirectInv /\ FinishedInv
TaskInv  == SweepTypes /\ RestTypes /\ SweepInv /\ ClosedInv

DispatcherInv == QueueInv /\ TaskInv

-----------------------------------------------------------------------------
(* The operators of the queues. *)

\* sorted(queue)[0] is one of the sequence numbers.
LEMMA MinIsMember ==
  ASSUME NEW A \in SUBSET Seqs, A # {}
  PROVE  Min(A) \in A
<1>1. \E m \in A : \A n \in A : m <= n
  BY LeastNumber DEF Seqs
<1> QED
  BY <1>1 DEF Min

\* The sequence number of a new message is one past those in use.
LEMMA NextSeqIsNew ==
  ASSUME NEW used \in SUBSET Seqs
  PROVE  NextSeq(used) \in Nat /\ NextSeq(used) \notin used
<1> DEFINE Above == {n \in Nat : \A u \in used : u < n}
<1>1. MaxSeq \in Nat /\ MaxSeq + 1 \in Above
  BY DispatcherAssumption DEF Seqs
<1>2. PICK n \in Above : \A k \in Above : n <= k
  <2> HIDE DEF Above
  <2>1. Above \in SUBSET Nat /\ Above # {}
    BY <1>1 DEF Above
  <2> QED
    BY <2>1, LeastNumber
<1>3. n \in {0} \cup {u + 1 : u \in used}
  <2>1. CASE n = 0
    BY <2>1
  <2>2. CASE n # 0
    <3>1. n - 1 \in Nat /\ n - 1 \notin Above
      BY <1>2, <2>2
    <3>2. PICK u \in used : ~(u < n - 1)
      BY <3>1
    <3>3. u \in Nat /\ u < n
      BY <1>2 DEF Seqs
    <3> QED
      BY <3>1, <3>2, <3>3
  <2> QED
    BY <2>1, <2>2
<1>4. \E k \in {0} \cup {u + 1 : u \in used} : \A u \in used : u < k
  BY <1>2, <1>3
<1>5. /\ NextSeq(used) \in {0} \cup {u + 1 : u \in used}
      /\ \A u \in used : u < NextSeq(used)
  BY <1>4 DEF NextSeq
<1>6. \A u \in used : u \in Nat
  BY DEF Seqs
<1> QED
  BY <1>5, <1>6

\* A queue is a table of entries under sequence numbers.
LEMMA TableFacts ==
  ASSUME NEW q \in Tables
  PROVE  /\ DOMAIN q \subseteq Seqs /\ q \in [DOMAIN q -> Meta]
         /\ \A s \in DOMAIN q : q[s] \in Meta
         /\ q # None
  BY NoneAssumption DEF Tables

\* And every such table may be a queue.
LEMMA MadeTable ==
  ASSUME NEW A \in SUBSET Seqs, NEW q \in [A -> Meta]
  PROVE  q \in Tables
  BY DEF Tables

\* The sequence numbers in use in a queue, and what is under them.
LEMMA UsedFacts ==
  ASSUME Shape, NEW t \in Type, NEW x \in Id
  PROVE  /\ Used(t, x) \in SUBSET Seqs
         /\ \A s \in Used(t, x) : queues[t][x][s] \in Meta
         /\ queues[t][x] # None => queues[t][x] \in Tables /\ Used(t, x) = DOMAIN queues[t][x]
<1>1. queues[t][x] \in Tables \cup {None}
  BY DEF Shape
<1> QED
  BY <1>1, TableFacts DEF Used

\* An entry is stored under s, the other entries stay.
LEMMA Stored ==
  ASSUME Shape, NEW t \in Type, NEW x \in Id, NEW s \in Seqs, NEW m \in Meta,
         queues' = Put(t, x, s, m)
  PROVE  /\ Shape'
         /\ queues'[t][x] # None
         /\ Used(t, x)' = Used(t, x) \cup {s}
         /\ queues'[t][x][s] = m
         /\ \A u \in Used(t, x) : u # s => queues'[t][x][u] = queues[t][x][u]
         /\ \A r \in Type, y \in Id : r # t \/ y # x => queues'[r][y] = queues[r][y]
<1> DEFINE v == [u \in Used(t, x) \cup {s} |-> IF u = s THEN m ELSE queues[t][x][u]]
<1>1. v \in [Used(t, x) \cup {s} -> Meta] /\ Used(t, x) \cup {s} \in SUBSET Seqs
  BY UsedFacts
<1>2. v \in Tables /\ v # None
  BY <1>1, MadeTable, TableFacts
<1>3. queues' = [queues EXCEPT ![t][x] = v]
  BY DEF Put
<1> HIDE DEF v
<1>4. /\ Shape' /\ queues'[t][x] = v
      /\ \A r \in Type, y \in Id : r # t \/ y # x => queues'[r][y] = queues[r][y]
  BY <1>2, <1>3 DEF Shape
<1>5. Used(t, x)' = DOMAIN v
  BY <1>2, <1>4 DEF Used
<1> QED
  BY <1>1, <1>2, <1>4, <1>5 DEF v

\* An entry is changed in place.
LEMMA Marked ==
  ASSUME Shape, NEW t \in Type, NEW x \in Id, NEW s \in Used(t, x), NEW m \in Meta,
         queues' = [queues EXCEPT ![t][x][s] = m]
  PROVE  /\ Shape'
         /\ queues'[t][x] # None
         /\ Used(t, x)' = Used(t, x)
         /\ queues'[t][x][s] = m
         /\ \A u \in Used(t, x) : u # s => queues'[t][x][u] = queues[t][x][u]
         /\ \A r \in Type, y \in Id : r # t \/ y # x => queues'[r][y] = queues[r][y]
<1> DEFINE v == [queues[t][x] EXCEPT ![s] = m]
<1>1. queues[t][x] \in Tables /\ queues[t][x] # None /\ Used(t, x) = DOMAIN queues[t][x]
  BY UsedFacts, TableFacts DEF Used
<1>2. v \in [Used(t, x) -> Meta] /\ Used(t, x) \in SUBSET Seqs
  BY <1>1, TableFacts
<1>3. v \in Tables /\ v # None
  BY <1>2, MadeTable, TableFacts
<1>4. queues' = [queues EXCEPT ![t][x] = v]
  OBVIOUS
<1>5. DOMAIN v = Used(t, x) /\ v[s] = m
      /\ \A u \in Used(t, x) : u # s => v[u] = queues[t][x][u]
  BY <1>1
<1> HIDE DEF v
<1>6. /\ Shape' /\ queues'[t][x] = v
      /\ \A r \in Type, y \in Id : r # t \/ y # x => queues'[r][y] = queues[r][y]
  BY <1>3, <1>4 DEF Shape
<1> QED
  BY <1>3, <1>5, <1>6 DEF Used

\* Entries go, or the queue does.
LEMMA Taken ==
  ASSUME Shape, NEW t \in Type, NEW x \in Id, NEW gone, NEW v, queues[t][x] # None,
         v = None \/ v = Without(queues[t][x], gone),
         queues' = [queues EXCEPT ![t][x] = v]
  PROVE  /\ Shape'
         /\ Used(t, x)' \subseteq Used(t, x)
         /\ v # None => queues'[t][x] # None /\ Used(t, x)' = Used(t, x) \ gone
         /\ v = None => queues'[t][x] = None /\ Used(t, x)' = {}
         /\ \A u \in Used(t, x)' : queues'[t][x][u] = queues[t][x][u]
         /\ \A r \in Type, y \in Id : r # t \/ y # x => queues'[r][y] = queues[r][y]
<1>1. queues[t][x] \in Tables /\ Used(t, x) = DOMAIN queues[t][x]
  BY UsedFacts
<1> DEFINE w == Without(queues[t][x], gone)
<1>2. w \in [DOMAIN queues[t][x] \ gone -> Meta] /\ DOMAIN queues[t][x] \ gone \in SUBSET Seqs
  BY <1>1, TableFacts DEF Without
<1>3. w \in Tables /\ w # None
  BY <1>2, MadeTable, TableFacts
<1>4. DOMAIN w = Used(t, x) \ gone /\ \A u \in DOMAIN w : w[u] = queues[t][x][u]
  BY <1>1 DEF Without
<1> HIDE DEF w
<1>5. v \in Tables \cup {None}
  BY <1>3 DEF w
<1>6. /\ Shape' /\ queues'[t][x] = v
      /\ \A r \in Type, y \in Id : r # t \/ y # x => queues'[r][y] = queues[r][y]
  BY <1>5 DEF Shape
<1>7. CASE v = None
  BY <1>6, <1>7 DEF Used
<1>8. CASE v = w
  BY <1>3, <1>4, <1>6, <1>8 DEF Used
<1> QED
  BY <1>7, <1>8 DEF w

\* What a new message and a one-shot one are marked with.
LEMMA Metas == NewMeta \in Meta /\ OneShot \in Meta /\ ~NewMeta.oneShot /\ OneShot.oneShot /\ ~OneShot.acked
  BY DEF NewMeta, OneShot, Meta

-----------------------------------------------------------------------------
(* The queues: what a step does to the entries. *)

\* An entry that is not one-shot is stored under a number that is not in use,
\* and is not finished.
LEMMA StoreKeeps ==
  ASSUME QueueInv, NEW t \in Type, NEW x \in Id, NEW s \in Seqs,
         s \notin Used(t, x), t = "MSG" \/ x \in Queue, t # "PROBE",
         queues' = Put(t, x, s, NewMeta),
         finished' = finished \ {<<t, x, s>>}, UNCHANGED direct
  PROVE  QueueInv'
<1>1. Shape' /\ Used(t, x)' = Used(t, x) \cup {s} /\ queues'[t][x][s] = NewMeta
  BY Stored, Metas DEF QueueInv
<1>2. \A u \in Used(t, x) : queues'[t][x][u] = queues[t][x][u]
  BY Stored, Metas DEF QueueInv
<1>3. \A r \in Type, y \in Id : r # t \/ y # x
        => queues'[r][y] = queues[r][y] /\ Used(r, y)' = Used(r, y)
  BY Stored, Metas DEF QueueInv, Used
<1>4. <<t, x, s>> \notin direct
  BY DispatcherAssumption DEF QueueInv, DirectInv
<1>5. DirectInv'
  <2>1. OneShotInv'
    <3> SUFFICES ASSUME NEW r \in Type, NEW y \in Id, NEW u \in Used(r, y)'
                 PROVE  queues'[r][y][u].oneShot <=> <<r, y, u>> \in direct'
      BY DEF OneShotInv
    <3>1. CASE r # t \/ y # x
      BY <3>1, <1>1, <1>2, <1>3 DEF QueueInv, DirectInv, OneShotInv
    <3>2. CASE r = t /\ y = x
      BY <3>2, <1>1, <1>2, <1>3, <1>4, Metas DEF QueueInv, DirectInv, OneShotInv
    <3> QED
      BY <3>1, <3>2
  <2>2. \A r \in Type, y \in Id : r = "PROBE" \/ Used(r, y) \subseteq Used(r, y)'
    BY <1>1, <1>3
  <2>3. \A y \in Id : Used("PROBE", y)' = Used("PROBE", y)
    BY <1>3 DEF Type
  <2> QED
    BY <2>1, <2>2, <2>3 DEF QueueInv, DirectInv, Type
<1>6. FinishedInv'
  BY <1>1, <1>2, <1>3 DEF QueueInv, FinishedInv
<1> QED
  BY <1>1, <1>5, <1>6 DEF QueueInv

\* A one-shot entry is stored under the number 0 of a queue of probes.
LEMMA DirectKeeps ==
  ASSUME QueueInv, NEW t \in {"PROBE", "MSGACK"}, NEW x \in ProbeQueue,
         <<t, x, 0>> \notin direct,
         queues' = Put(t, x, 0, OneShot),
         direct' = direct \cup {<<t, x, 0>>}, UNCHANGED finished
  PROVE  QueueInv'
<1>0. t \in Type /\ x \in Id /\ 0 \in Seqs
  BY DispatcherAssumption DEF Type, Id, Seqs
<1>1. Shape' /\ Used(t, x)' = Used(t, x) \cup {0} /\ queues'[t][x][0] = OneShot
  BY <1>0, Stored, Metas DEF QueueInv
<1>2. \A u \in Used(t, x) : u # 0 => queues'[t][x][u] = queues[t][x][u]
  BY <1>0, Stored, Metas DEF QueueInv
<1>3. \A r \in Type, y \in Id : r # t \/ y # x
        => queues'[r][y] = queues[r][y] /\ Used(r, y)' = Used(r, y)
  BY <1>0, Stored, Metas DEF QueueInv, Used
<1>5. DirectInv'
  <2>1. OneShotInv'
    <3> SUFFICES ASSUME NEW r \in Type, NEW y \in Id, NEW u \in Used(r, y)'
                 PROVE  queues'[r][y][u].oneShot <=> <<r, y, u>> \in direct'
      BY DEF OneShotInv
    <3>1. CASE r # t \/ y # x
      BY <3>1, <1>1, <1>2, <1>3 DEF QueueInv, DirectInv, OneShotInv
    <3>2. CASE r = t /\ y = x
      BY <3>2, <1>1, <1>2, <1>3, <1>0, Metas DEF QueueInv, DirectInv, OneShotInv
    <3> QED
      BY <3>1, <3>2
  <2>2. direct' \subseteq {"PROBE", "MSGACK"} \X ProbeQueue \X {0}
    BY DEF QueueInv, DirectInv
  <2>3. \A y \in Id : \A u \in Used("PROBE", y)' : <<"PROBE", y, u>> \in direct'
    BY <1>0, <1>1, <1>3 DEF QueueInv, DirectInv, Type
  <2>4. \A y \in Id : <<"MSGACK", y, 0>> \in direct' => 0 \in Used("MSGACK", y)'
    BY <1>0, <1>1, <1>3 DEF QueueInv, DirectInv, Type
  <2> QED
    BY <2>1, <2>2, <2>3, <2>4 DEF DirectInv
<1>6. <<t, x, 0>> \notin finished
  BY DEF QueueInv, FinishedInv
<1>7. FinishedInv'
  BY <1>1, <1>2, <1>3, <1>6 DEF QueueInv, FinishedInv
<1> QED
  BY <1>1, <1>5, <1>7 DEF QueueInv

\* An entry is changed in place, is as one-shot as before, and acked if it was
\* or is finished now.
LEMMA MarkKeeps ==
  ASSUME QueueInv, NEW t \in Type, NEW x \in Id, NEW s \in Used(t, x), NEW m \in Meta,
         queues' = [queues EXCEPT ![t][x][s] = m],
         m.oneShot = queues[t][x][s].oneShot,
         queues[t][x][s].acked => m.acked,
         \/ UNCHANGED finished
         \/ finished' = finished \cup {<<t, x, s>>} /\ m.acked /\ t = "MSG",
         UNCHANGED direct
  PROVE  QueueInv'
<1>0. Shape
  BY DEF QueueInv
<1>1. Shape' /\ Used(t, x)' = Used(t, x) /\ queues'[t][x][s] = m
  <2>1. Shape'
    BY <1>0, Marked
  <2>2. Used(t, x)' = Used(t, x)
    BY <1>0, Marked
  <2>3. queues'[t][x][s] = m
    BY <1>0, UsedFacts DEF Shape, Used
  <2> QED
    BY <2>1, <2>2, <2>3
<1>2. \A u \in Used(t, x) : u # s => queues'[t][x][u] = queues[t][x][u]
  BY Marked DEF QueueInv
<1>3. \A r \in Type, y \in Id : r # t \/ y # x
        => queues'[r][y] = queues[r][y] /\ Used(r, y)' = Used(r, y)
  BY Marked DEF QueueInv, Used
<1>5. DirectInv'
  <2>1. OneShotInv'
    <3> SUFFICES ASSUME NEW r \in Type, NEW y \in Id, NEW u \in Used(r, y)'
                 PROVE  queues'[r][y][u].oneShot <=> <<r, y, u>> \in direct'
      BY DEF OneShotInv
    <3>1. CASE r # t \/ y # x
      BY <3>1, <1>1, <1>2, <1>3 DEF QueueInv, DirectInv, OneShotInv
    <3>2. CASE r = t /\ y = x
      BY <3>2, <1>1, <1>2, <1>3 DEF QueueInv, DirectInv, OneShotInv
    <3> QED
      BY <3>1, <3>2
  <2>2. \A r \in Type, y \in Id : Used(r, y)' = Used(r, y)
    BY <1>1, <1>3
  <2> QED
    BY <2>1, <2>2 DEF QueueInv, DirectInv, Type
<1>6. FinishedInv'
  BY <1>1, <1>2, <1>3 DEF QueueInv, FinishedInv
<1> QED
  BY <1>1, <1>5, <1>6 DEF QueueInv

\* Entries go that are not acks of probes, or the queue does.
LEMMA TakeKeeps ==
  ASSUME QueueInv, NEW t \in Type, NEW x \in Id, NEW gone, NEW v, queues[t][x] # None,
         v = None \/ v = Without(queues[t][x], gone),
         queues' = [queues EXCEPT ![t][x] = v],
         t = "MSGACK" => x \in Queue,
         \A k \in finished' : \/ k \in finished
                              \/ /\ k[1] = "MSG" \/ (k[1] = "PROBE" /\ k \in direct)
                                 /\ k = <<t, x, k[3]>> /\ k[3] \notin Used(t, x)',
         UNCHANGED direct
  PROVE  QueueInv'
<1>0. Shape
  BY DEF QueueInv
<1>1. /\ Shape' /\ Used(t, x)' \subseteq Used(t, x)
      /\ \A u \in Used(t, x)' : queues'[t][x][u] = queues[t][x][u]
  <2>1. Shape'
    BY <1>0, Taken
  <2>2. Used(t, x)' \subseteq Used(t, x)
    BY <1>0, Taken
  <2>3. \A u \in Used(t, x)' : queues'[t][x][u] = queues[t][x][u]
    <3>1. queues'[t][x] = v
      BY <1>0 DEF Shape
    <3> QED
      BY <3>1 DEF Used, Without
  <2> QED
    BY <2>1, <2>2, <2>3
<1>2. \A r \in Type, y \in Id : r # t \/ y # x
        => queues'[r][y] = queues[r][y] /\ Used(r, y)' = Used(r, y)
  BY Taken DEF QueueInv, Used
<1>3. DirectInv'
  <2>1. OneShotInv'
    <3> SUFFICES ASSUME NEW r \in Type, NEW y \in Id, NEW u \in Used(r, y)'
                 PROVE  queues'[r][y][u].oneShot <=> <<r, y, u>> \in direct'
      BY DEF OneShotInv
    <3>1. CASE r # t \/ y # x
      BY <3>1, <1>1, <1>2 DEF QueueInv, DirectInv, OneShotInv
    <3>2. CASE r = t /\ y = x
      BY <3>2, <1>1, <1>2 DEF QueueInv, DirectInv, OneShotInv
    <3> QED
      BY <3>1, <3>2
  <2>2. \A y \in Id : \A u \in Used("PROBE", y)' : <<"PROBE", y, u>> \in direct'
    BY <1>1, <1>2 DEF QueueInv, DirectInv, Type
  <2>3. \A y \in Id : <<"MSGACK", y, 0>> \in direct' => 0 \in Used("MSGACK", y)'
    BY <1>2, DispatcherAssumption DEF QueueInv, DirectInv, Type
  <2> QED
    BY <2>1, <2>2, <2>3 DEF QueueInv, DirectInv
<1>4. FinishedInv'
  <2>1. \A k \in finished' : k[1] = "MSG" \/ (k[1] = "PROBE" /\ k \in direct')
    BY DEF QueueInv, FinishedInv
  <2>2. ASSUME NEW r \in Type, NEW y \in Id, NEW s \in Used(r, y)', <<r, y, s>> \in finished'
        PROVE  queues'[r][y][s].acked
    <3>1. <<r, y, s>> \in finished /\ s \in Used(r, y)
      BY <1>1, <1>2, <2>2
    <3> QED
      BY <1>1, <1>2, <2>2, <3>1 DEF QueueInv, FinishedInv
  <2> QED
    BY <2>1, <2>2 DEF FinishedInv
<1> QED
  BY <1>1, <1>3, <1>4 DEF QueueInv

\* The queues are right as long as nobody touches them.
LEMMA IdleKeeps ==
  ASSUME QueueInv, UNCHANGED <<queues, finished, direct>>
  PROVE  QueueInv'
  BY DEF QueueInv, Shape, DirectInv, OneShotInv, FinishedInv, Used

-----------------------------------------------------------------------------
(* What callers and the packet reader do, while the dispatcher is at an await. *)

\* A step that the dispatcher does not notice: of the queues a sweep may yet
\* look at none goes.
LEMMA TaskKept ==
  ASSUME TaskInv, LoopFree, UNCHANGED <<pc, sweep>>, RestTypes', ClosedInv',
         \A t \in Type \ {"PROBE"}, x \in Id : queues[t][x] # None => queues'[t][x] # None
  PROVE  TaskInv'
<1>1. SweepTypes'
  BY DEF TaskInv, SweepTypes
<1>2. SweepInv'
  BY DEF TaskInv, SweepTypes, SweepInv, NoSweep, RestTypes, LoopFree, Type
<1> QED
  BY <1>1, <1>2 DEF TaskInv

\* queue_msg adds an entry under a new number.
LEMMA QueueMsgStep ==
  ASSUME DispatcherInv, NEW x \in Queue, QueueMsg(x)
  PROVE  DispatcherInv'
<1> DEFINE s == NextSeq(Used("MSG", x))
<1>1. x \in Id /\ "MSG" \in Type
  BY DEF Id, Type
<1>2. Shape
  BY DEF DispatcherInv, QueueInv
<1>3. s \in Seqs /\ s \notin Used("MSG", x)
  BY <1>1, <1>2, UsedFacts, NextSeqIsNew, DispatcherAssumption DEF QueueMsg, Seqs
<1>4. /\ queues' = Put("MSG", x, s, NewMeta) /\ finished' = finished \ {<<"MSG", x, s>>}
      /\ UNCHANGED <<direct, pc, sweep, pipeUp, losses, closed, signing>> /\ emitted' = None
      /\ LoopFree
  BY DEF QueueMsg
<1> HIDE DEF s
<1>5. QueueInv'
  BY <1>1, <1>3, <1>4, StoreKeeps DEF DispatcherInv
<1>6. \A t \in Type, y \in Id : queues[t][y] # None => queues'[t][y] # None
  BY <1>1, <1>2, <1>3, <1>4, Stored, Metas
<1>7. RestTypes' /\ ClosedInv'
  BY <1>4 DEF DispatcherInv, TaskInv, RestTypes, ClosedInv, Stopped
<1> QED
  BY <1>4, <1>5, <1>6, <1>7, TaskKept DEF DispatcherInv

\* queue_msg_async up to the await of the signature adds a queue, and no entry.
LEMMA SignAckStep ==
  ASSUME DispatcherInv, NEW x \in Queue, NEW s \in Seqs, SignAck(x, s)
  PROVE  DispatcherInv'
<1> DEFINE v == IF queues["MSGACK"][x] = None THEN <<>> ELSE queues["MSGACK"][x]
<1>1. x \in Id /\ "MSGACK" \in Type /\ Shape
  BY DEF Id, Type, DispatcherInv, QueueInv
<1>2. <<>> \in [{} -> Meta]
  OBVIOUS
<1>3. v \in Tables /\ v # None /\ DOMAIN v = Used("MSGACK", x)
  BY <1>1, <1>2, MadeTable, TableFacts, UsedFacts DEF Used
<1>4. \A u \in Used("MSGACK", x) : v[u] = queues["MSGACK"][x][u]
  BY DEF Used
<1>5. queues' = [queues EXCEPT !["MSGACK"][x] = v]
  BY DEF SignAck
<1> HIDE DEF v
<1>6. /\ Shape' /\ queues'["MSGACK"][x] = v
      /\ \A r \in Type, y \in Id : r # "MSGACK" \/ y # x => queues'[r][y] = queues[r][y]
  BY <1>1, <1>3, <1>5 DEF Shape
<1>7. \A r \in Type, y \in Id :
        /\ Used(r, y)' = Used(r, y)
        /\ \A u \in Used(r, y) : queues'[r][y][u] = queues[r][y][u]
        /\ queues[r][y] # None => queues'[r][y] # None
  BY <1>3, <1>4, <1>6 DEF Used
<1>8. UNCHANGED <<direct, finished, pc, sweep>> /\ LoopFree
  BY DEF SignAck
<1>9. OneShotInv'
  <2> SUFFICES ASSUME NEW r \in Type, NEW y \in Id, NEW u \in Used(r, y)'
               PROVE  queues'[r][y][u].oneShot <=> <<r, y, u>> \in direct'
    BY DEF OneShotInv
  <2> QED
    BY <1>7, <1>8 DEF DispatcherInv, QueueInv, DirectInv, OneShotInv
<1>10. QueueInv'
  BY <1>6, <1>7, <1>8, <1>9 DEF DispatcherInv, QueueInv, DirectInv, FinishedInv, Type
<1>11. RestTypes' /\ ClosedInv'
  BY DEF SignAck, DispatcherInv, TaskInv, RestTypes, ClosedInv, Stopped
<1> QED
  BY <1>7, <1>8, <1>10, <1>11, TaskKept DEF DispatcherInv

\* After it an ack is added unless its number is in use.
LEMMA QueueAckStep ==
  ASSUME DispatcherInv, NEW x \in Queue, NEW s \in Seqs, QueueAck(x, s)
  PROVE  DispatcherInv'
<1>1. x \in Id /\ "MSGACK" \in Type /\ Shape
  BY DEF Id, Type, DispatcherInv, QueueInv
<1>2. UNCHANGED <<direct, pc, sweep>> /\ LoopFree
  BY DEF QueueAck
<1>3. RestTypes' /\ ClosedInv'
  BY DEF QueueAck, DispatcherInv, TaskInv, RestTypes, ClosedInv, Stopped
<1>4. CASE s \in Used("MSGACK", x)
  <2>1. UNCHANGED <<queues, finished>>
    BY <1>4 DEF QueueAck
  <2> QED
    BY <1>2, <1>3, <2>1, IdleKeeps, TaskKept DEF DispatcherInv
<1>5. CASE s \notin Used("MSGACK", x)
  <2>1. /\ queues' = Put("MSGACK", x, s, NewMeta)
        /\ finished' = finished \ {<<"MSGACK", x, s>>}
    BY <1>5 DEF QueueAck
  <2>2. QueueInv'
    BY <1>1, <1>2, <1>5, <2>1, StoreKeeps DEF DispatcherInv
  <2>3. \A t \in Type, y \in Id : queues[t][y] # None => queues'[t][y] # None
    BY <1>1, <2>1, Stored, Metas
  <2> QED
    BY <1>2, <1>3, <2>2, <2>3, TaskKept DEF DispatcherInv
<1> QED
  BY <1>4, <1>5

\* process_app_msg takes acks away, under a sweep or not.
LEMMA PruneAcksStep ==
  ASSUME DispatcherInv, NEW x \in Queue, NEW s \in Nat, PruneAcks(x, s)
  PROVE  DispatcherInv'
<1> DEFINE gone == {u \in DOMAIN queues["MSGACK"][x] : u < s}
           v    == Without(queues["MSGACK"][x], gone)
<1>1. x \in Id /\ "MSGACK" \in Type /\ Shape
  BY DEF Id, Type, DispatcherInv, QueueInv
<1>2. queues["MSGACK"][x] # None
  BY DEF PruneAcks, Used
<1>3. queues' = [queues EXCEPT !["MSGACK"][x] = v]
  BY DEF PruneAcks
<1>4. v # None
  <2>1. queues["MSGACK"][x] \in Tables
    BY <1>1, <1>2, UsedFacts
  <2>2. v \in [DOMAIN queues["MSGACK"][x] \ gone -> Meta]
    BY <2>1, TableFacts DEF Without
  <2> HIDE DEF v, gone
  <2>3. v \in Tables
    BY <2>1, <2>2, TableFacts, MadeTable
  <2> QED
    BY <2>3, TableFacts
<1>5. UNCHANGED <<finished, direct, pc, sweep>> /\ LoopFree
  BY DEF PruneAcks
<1> HIDE DEF gone, v
<1>6. QueueInv'
  <2>1. v = Without(queues["MSGACK"][x], gone)
    BY DEF v
  <2> QED
    BY <2>1, <1>1, <1>2, <1>3, <1>5, TakeKeeps DEF DispatcherInv
<1>7. \A t \in Type, y \in Id : queues[t][y] # None => queues'[t][y] # None
  BY <1>1, <1>3, <1>4 DEF Shape
<1>8. RestTypes' /\ ClosedInv'
  BY DEF PruneAcks, DispatcherInv, TaskInv, RestTypes, ClosedInv, Stopped
<1> QED
  BY <1>5, <1>6, <1>7, <1>8, TaskKept DEF DispatcherInv

\* send_probe and send_probe_ack leave a one-shot entry behind.
LEMMA PublishDirectlyStep ==
  ASSUME DispatcherInv, NEW t \in {"PROBE", "MSGACK"}, NEW x \in ProbeQueue,
         <<t, x, 0>> \notin direct, PublishDirectly(t, x)
  PROVE  DispatcherInv'
<1>1. x \in Id /\ t \in Type /\ 0 \in Seqs /\ Shape
  BY DispatcherAssumption DEF Id, Type, Seqs, DispatcherInv, QueueInv
<1>2. /\ queues' = Put(t, x, 0, OneShot) /\ direct' = direct \cup {<<t, x, 0>>}
      /\ UNCHANGED <<finished, pc, sweep>> /\ LoopFree
  BY DEF PublishDirectly
<1>3. QueueInv'
  BY <1>2, DirectKeeps DEF DispatcherInv
<1>4. \A r \in Type, y \in Id : queues[r][y] # None => queues'[r][y] # None
  BY <1>1, <1>2, Stored, Metas
<1>5. RestTypes' /\ ClosedInv'
  BY <1>1 DEF PublishDirectly, DispatcherInv, TaskInv, RestTypes, ClosedInv, Stopped, Key
<1> QED
  BY <1>2, <1>3, <1>4, <1>5, TaskKept DEF DispatcherInv

\* send_probe's id is fresh, and so is that of an ack that is not queued.
LEMMA SendProbeStep ==
  ASSUME DispatcherInv, NEW x \in ProbeQueue, SendProbe(x) \/ SendProbeAck(x)
  PROVE  DispatcherInv'
<1>1. CASE SendProbe(x)
  BY <1>1, PublishDirectlyStep DEF SendProbe
<1>2. CASE SendProbeAck(x)
  <2>1. <<"MSGACK", x, 0>> \notin direct
    BY <1>2 DEF SendProbeAck, DispatcherInv, QueueInv, DirectInv, Id
  <2> QED
    BY <1>2, <2>1, PublishDirectlyStep DEF SendProbeAck
<1> QED
  BY <1>1, <1>2

\* An entry of a MSG queue or an ack is marked, as acked or as old.
LEMMA MarkStep ==
  ASSUME DispatcherInv, LoopFree, UNCHANGED <<pc, sweep, direct>>, RestTypes', ClosedInv',
         NEW t \in Type, NEW x \in Id, NEW s \in Used(t, x), NEW m \in Meta,
         queues' = [queues EXCEPT ![t][x][s] = m],
         m.oneShot = queues[t][x][s].oneShot,
         queues[t][x][s].acked => m.acked,
         \/ UNCHANGED finished
         \/ finished' = finished \cup {<<t, x, s>>} /\ m.acked /\ t = "MSG"
  PROVE  DispatcherInv'
<1>1. Shape
  BY DEF DispatcherInv, QueueInv
<1>2. QueueInv'
  BY MarkKeeps DEF DispatcherInv
<1>3. \A r \in Type, y \in Id : queues[r][y] # None => queues'[r][y] # None
  <2>1. queues'[t][x] # None
    BY <1>1, Marked
  <2>2. \A r \in Type, y \in Id : r # t \/ y # x => queues'[r][y] = queues[r][y]
    BY <1>1, Marked
  <2> QED
    BY <2>1, <2>2
<1> QED
  BY <1>2, <1>3, TaskKept DEF DispatcherInv

\* dequeue_msg of one message takes its entry away, under a sweep or not.
LEMMA DequeueSeqStep ==
  ASSUME DispatcherInv, NEW x \in Queue, NEW s \in Seqs, DequeueSeq(x, s)
  PROVE  DispatcherInv'
<1> DEFINE m == [queues["MSG"][x][s] EXCEPT !.acked = TRUE]
<1>1. x \in Id /\ "MSG" \in Type /\ Shape /\ s \in Used("MSG", x)
  BY DEF Id, Type, DispatcherInv, QueueInv, DequeueSeq
<1>2. queues["MSG"][x][s] \in Meta
  BY <1>1, UsedFacts
<1>3. m \in Meta /\ m.acked /\ m.oneShot = queues["MSG"][x][s].oneShot
  BY <1>2 DEF Meta
<1>4. queues' = [queues EXCEPT !["MSG"][x][s] = m]
  BY DEF DequeueSeq
<1> HIDE DEF m
<1>5. LoopFree /\ UNCHANGED <<pc, sweep, direct>> /\ finished' = finished \cup {<<"MSG", x, s>>}
  BY DEF DequeueSeq
<1>6. RestTypes' /\ ClosedInv'
  BY <1>1 DEF DequeueSeq, DispatcherInv, TaskInv, RestTypes, ClosedInv, Stopped, Key
<1> QED
  BY <1>1, <1>3, <1>4, <1>5, <1>6, MarkStep

\* An entry that grows old stays what it was otherwise.
LEMMA ExpireStep ==
  ASSUME DispatcherInv, NEW t \in {"MSG", "MSGACK"}, NEW x \in Queue, NEW s \in Seqs,
         Expire(t, x, s)
  PROVE  DispatcherInv'
<1> DEFINE m == [queues[t][x][s] EXCEPT !.old = TRUE]
<1>1. x \in Id /\ t \in Type /\ Shape /\ s \in Used(t, x)
  BY DEF Id, Type, DispatcherInv, QueueInv, Expire
<1>2. queues[t][x][s] \in Meta
  BY <1>1, UsedFacts
<1>3. /\ m \in Meta /\ m.oneShot = queues[t][x][s].oneShot
      /\ queues[t][x][s].acked => m.acked
  BY <1>2 DEF Meta
<1>4. queues' = [queues EXCEPT ![t][x][s] = m]
  BY DEF Expire
<1> HIDE DEF m
<1>5. LoopFree /\ UNCHANGED <<pc, sweep, direct, finished>>
  BY DEF Expire
<1>6. RestTypes' /\ ClosedInv'
  BY DEF Expire, DispatcherInv, TaskInv, RestTypes, ClosedInv, Stopped
<1> QED
  BY <1>1, <1>3, <1>4, <1>5, <1>6, MarkStep

\* A MSG is marked; a probe, which is one-shot, goes with its queue.
LEMMA ReceiveAckStep ==
  ASSUME DispatcherInv, NEW x \in Id, NEW s \in Seqs, ReceiveAck(x, s)
  PROVE  DispatcherInv'
<1>1. "MSG" \in Type /\ "PROBE" \in Type /\ Shape
  BY DEF Type, DispatcherInv, QueueInv
<1>2. LoopFree /\ UNCHANGED <<pc, sweep, direct>>
  BY DEF ReceiveAck
<1>3. CASE s \in Used("MSG", x)
  <2> DEFINE m == [queues["MSG"][x][s] EXCEPT !.acked = TRUE]
  <2>1. ~queues["MSG"][x][s].oneShot
    BY <1>1, <1>3 DEF DispatcherInv, QueueInv, DirectInv, OneShotInv
  <2>2. /\ queues' = [queues EXCEPT !["MSG"][x][s] = m]
        /\ finished' = finished \cup {<<"MSG", x, s>>}
    BY <1>3, <2>1 DEF ReceiveAck, Acked
  <2>3. queues["MSG"][x][s] \in Meta
    BY <1>1, <1>3, UsedFacts
  <2>4. m \in Meta /\ m.acked /\ m.oneShot = queues["MSG"][x][s].oneShot
    BY <2>3 DEF Meta
  <2> HIDE DEF m
  <2>5. RestTypes' /\ ClosedInv'
    BY <1>1, <2>2 DEF ReceiveAck, DispatcherInv, TaskInv, RestTypes, ClosedInv, Stopped, Key
  <2> QED
    BY <1>1, <1>2, <1>3, <2>2, <2>4, <2>5, MarkStep
<1>4. CASE s \notin Used("MSG", x)
  <2> DEFINE v == IF DOMAIN queues["PROBE"][x] = {s} THEN None
                  ELSE Without(queues["PROBE"][x], {s})
  <2>1. s \in Used("PROBE", x) /\ queues["PROBE"][x] # None
    BY <1>4 DEF ReceiveAck, Acked, Used
  <2>2. <<"PROBE", x, s>> \in direct
    BY <2>1 DEF DispatcherInv, QueueInv, DirectInv
  <2>3. queues["PROBE"][x][s].oneShot
    BY <1>1, <2>1, <2>2 DEF DispatcherInv, QueueInv, DirectInv, OneShotInv
  <2>4. /\ queues' = [queues EXCEPT !["PROBE"][x] = v]
        /\ finished' = finished \cup {<<"PROBE", x, s>>}
    BY <1>4, <2>3 DEF ReceiveAck, Acked
  <2>5. v = None \/ v = Without(queues["PROBE"][x], {s})
    OBVIOUS
  <2> HIDE DEF v
  <2>6. s \notin Used("PROBE", x)'
    <3>1. queues'["PROBE"][x] = v
      BY <1>1, <2>4 DEF Shape
    <3> QED
      BY <2>5, <3>1 DEF Used, Without
  <2>7. \A k \in finished' : \/ k \in finished
                             \/ /\ k[1] = "PROBE" /\ k \in direct
                                /\ k = <<"PROBE", x, k[3]>> /\ k[3] \notin Used("PROBE", x)'
    BY <2>2, <2>4, <2>6
  <2>8. QueueInv'
    BY <1>1, <1>2, <2>1, <2>4, <2>5, <2>7, TakeKeeps DEF DispatcherInv
  <2>9. \A r \in Type, y \in Id : r # "PROBE" => queues'[r][y] = queues[r][y]
    BY <1>1, <2>4 DEF Shape
  <2>10. RestTypes' /\ ClosedInv'
    BY <1>1, <2>4 DEF ReceiveAck, DispatcherInv, TaskInv, RestTypes, ClosedInv, Stopped, Key
  <2> QED
    BY <1>2, <2>8, <2>9, <2>10, TaskKept DEF DispatcherInv
<1> QED
  BY <1>3, <1>4

\* A sweep that is in the queue keeps the queue it has.
LEMMA DequeueAllStep ==
  ASSUME DispatcherInv, NEW x \in Queue, DequeueAll(x)
  PROVE  DispatcherInv'
<1>1. x \in Id /\ "MSG" \in Type /\ Shape
  BY DEF Id, Type, DispatcherInv, QueueInv
<1>2. /\ queues["MSG"][x] # None /\ queues' = [queues EXCEPT !["MSG"][x] = None]
      /\ finished' = finished \cup {<<"MSG", x, s>> : s \in Used("MSG", x)}
      /\ UNCHANGED <<pc, direct, pipeUp, losses, closed, signing>>
      /\ LoopFree /\ DropQueues /\ sweep' = Orphaned("MSG", x) /\ emitted' = None
  BY DEF DequeueAll
<1>3. queues'["MSG"][x] = None /\ Used("MSG", x)' = {}
  BY <1>1, <1>2 DEF Shape, Used
<1>4. \A k \in finished' : \/ k \in finished
                           \/ /\ k[1] = "MSG" /\ k = <<"MSG", x, k[3]>>
                              /\ k[3] \notin Used("MSG", x)'
  BY <1>2, <1>3
<1>5. QueueInv'
  BY <1>1, <1>2, <1>4, TakeKeeps DEF DispatcherInv
<1>6. \A r \in Type, y \in Id : r # "MSG" \/ y # x => queues'[r][y] = queues[r][y]
  BY <1>1, <1>2 DEF Shape
<1>7. RestTypes' /\ ClosedInv'
  <2>1. Used("MSG", x) \subseteq Seqs
    BY <1>1, UsedFacts
  <2> QED
    BY <1>1, <1>2, <2>1 DEF DispatcherInv, TaskInv, RestTypes, ClosedInv, Stopped, Key
<1>8. queues["MSG"][x] \in Tables
  BY <1>1, <1>2, UsedFacts
<1>9. SweepTypes'
  BY <1>2, <1>8 DEF DispatcherInv, TaskInv, SweepTypes, Orphaned
<1>10. SweepInv'
  <2>1. CASE sweep' = sweep
    <3>1. pc # "send" => sweep = NoSweep
      BY <1>2 DEF DispatcherInv, TaskInv, SweepInv, RestTypes, LoopFree
    <3>2. ~(/\ sweep.seqs # {} /\ sweep.orphan = None
            /\ sweep.type = "MSG" /\ sweep.queue = x)
      BY <1>2, <2>1, <3>1 DEF DispatcherInv, TaskInv, SweepTypes, Orphaned, NoSweep
    <3>3. sweep.seqs # {} /\ sweep.orphan = None => queues'[sweep.type][sweep.queue] # None
      BY <1>6, <3>2 DEF DispatcherInv, TaskInv, SweepTypes, SweepInv
    <3> QED
      BY <1>2, <2>1, <3>3 DEF DispatcherInv, TaskInv, SweepInv
  <2>2. CASE /\ pc = "send" /\ sweep.type = "MSG"
             /\ sweep' = [sweep EXCEPT !.orphan = queues["MSG"][x]]
    BY <1>2, <2>2 DEF DispatcherInv, TaskInv, SweepTypes, SweepInv
  <2> QED
    BY <1>2, <2>1, <2>2 DEF Orphaned
<1> QED
  BY <1>5, <1>7, <1>9, <1>10 DEF DispatcherInv, TaskInv

\* Losing the connection and closing the client change no queue.
LEMMA PipeStep ==
  ASSUME DispatcherInv, PipeLost \/ Close \/ Disconnect \/ CloseDone
  PROVE  DispatcherInv'
<1>1. LoopFree /\ UNCHANGED <<queues, pc, sweep, finished, direct>>
  BY DEF PipeLost, Close, Disconnect, CloseDone
<1>2. RestTypes' /\ ClosedInv'
  <2> USE DispatcherAssumption DEF DispatcherInv, TaskInv, RestTypes, ClosedInv, Stopped
  <2>1. CASE PipeLost
    <3>1. losses' \in 0 .. MaxLost
      BY <2>1 DEF PipeLost
    <3>2. ClosedInv'
      BY <2>1 DEF PipeLost
    <3> QED
      BY <2>1, <3>1, <3>2 DEF PipeLost
  <2>2. CASE Close
    BY <2>2 DEF Close
  <2>3. CASE Disconnect
    BY <2>3 DEF Disconnect
  <2>4. CASE CloseDone
    BY <2>4 DEF CloseDone
  <2> QED
    BY <2>1, <2>2, <2>3, <2>4
<1> QED
  BY <1>1, <1>2, IdleKeeps, TaskKept DEF DispatcherInv

-----------------------------------------------------------------------------
(* The dispatcher task. *)

\* What the dispatcher knows when it is not in a sweep.
LEMMA NoSweepFacts ==
  /\ NoSweep \in [types: Seq(Type), type: Type \cup {None}, ids: SUBSET Id,
                  queue: Id \cup {None}, seqs: SUBSET Seqs, orphan: Tables \cup {None}]
  /\ NoSweep.ids = {} /\ NoSweep.seqs = {} /\ NoSweep.orphan = None
  BY DEF NoSweep

\* A step that ends the sweep, or happens outside one.
LEMMA OffSweep ==
  ASSUME DispatcherInv, UNCHANGED <<queues, finished, direct, losses, closed, signing>>,
         emitted' = None, sweep' = NoSweep,
         pc' \in {"reconnect", "run", "sleep", "off", "dead"}, pipeUp' \in BOOLEAN,
         closed \in {"bye", "closed"} => pc' \in {"off", "dead"},
         closed = "closed" => ~pipeUp'
  PROVE  DispatcherInv'
<1>1. QueueInv'
  BY IdleKeeps DEF DispatcherInv
<1>2. SweepTypes' /\ SweepInv'
  BY NoSweepFacts DEF SweepTypes, SweepInv
<1>3. RestTypes' /\ ClosedInv'
  BY DEF DispatcherInv, TaskInv, RestTypes, ClosedInv, Stopped
<1> QED
  BY <1>1, <1>2, <1>3 DEF DispatcherInv, TaskInv

\* Between two sweeps the generator is gone.
LEMMA PauseStep ==
  ASSUME DispatcherInv, Cancelled \/ Reconnect \/ EndSweep \/ SleepDone
  PROVE  DispatcherInv'
<1>1. /\ UNCHANGED <<queues, finished, direct, losses, closed, signing>>
      /\ emitted' = None /\ sweep' = NoSweep
  BY DEF Cancelled, Reconnect, EndSweep, SleepDone, Quiet, DispatcherInv, TaskInv, SweepInv
<1>2. pc' \in {"reconnect", "run", "sleep", "off", "dead"} /\ pipeUp' \in BOOLEAN
  BY DEF Cancelled, Reconnect, EndSweep, SleepDone, DispatcherInv, TaskInv, RestTypes
<1>3. /\ closed \in {"bye", "closed"} => pc' \in {"off", "dead"}
      /\ closed = "closed" => ~pipeUp'
  BY DEF Cancelled, Reconnect, EndSweep, SleepDone, DispatcherInv, TaskInv, ClosedInv, Stopped
<1> QED
  BY <1>1, <1>2, <1>3, OffSweep

\* A step of the sweep that leaves the queues alone.
LEMMA OnSweep ==
  ASSUME DispatcherInv, UNCHANGED <<pipeUp>>, Quiet, pc \in {"reconnect", "run", "send"},
         pc' \in {"run", "sleep", "dead"}, SweepTypes', SweepInv'
  PROVE  DispatcherInv'
<1>1. QueueInv'
  BY IdleKeeps DEF DispatcherInv, Quiet
<1>2. RestTypes' /\ ClosedInv'
  BY DEF Quiet, DispatcherInv, TaskInv, RestTypes, ClosedInv, Stopped
<1> QED
  BY <1>1, <1>2 DEF DispatcherInv, TaskInv

\* A sweep begins with all types to come.
LEMMA BeginSweepStep ==
  ASSUME DispatcherInv, BeginSweep
  PROVE  DispatcherInv'
<1>1. <<"MSG", "MSGACK", "PROBE">> \in Seq(Type)
  BY DEF Type
<1>2. SweepTypes'
  BY <1>1 DEF BeginSweep, SweepTypes, NoSweep
<1>3. SweepInv'
  BY DEF BeginSweep, SweepInv, NoSweep
<1> QED
  BY <1>2, <1>3, OnSweep DEF BeginSweep

\* iter_all_messages takes a snapshot of the queue ids of a type.
LEMMA NextTypeStep ==
  ASSUME DispatcherInv, NextType
  PROVE  DispatcherInv'
<1> DEFINE t == Head(sweep.types)
<1>1. t \in Type /\ Tail(sweep.types) \in Seq(Type)
  BY DEF NextType, DispatcherInv, TaskInv, SweepTypes
<1>2. /\ sweep' = [NoSweep EXCEPT !.types = Tail(sweep.types), !.type = t,
                                  !.ids = {x \in Id : queues[t][x] # None}]
      /\ Quiet /\ UNCHANGED <<pc, pipeUp>> /\ pc = "run"
  BY DEF NextType
<1> HIDE DEF t
<1>3. SweepTypes'
  BY <1>1, <1>2 DEF SweepTypes, NoSweep
<1>4. SweepInv'
  BY <1>1, <1>2 DEF SweepInv, NoSweep, Quiet
<1> QED
  BY <1>2, <1>3, <1>4, OnSweep

\* It looks a queue of the snapshot up, which fails if it was dropped.
LEMMA NextQueueStep ==
  ASSUME DispatcherInv, NextQueue
  PROVE  DispatcherInv'
<1>1. PICK x \in sweep.ids :
        IF queues[sweep.type][x] = None
        THEN pc' = "dead" /\ sweep' = NoSweep
        ELSE /\ sweep' = [sweep EXCEPT !.ids = @ \ {x}, !.queue = x, !.orphan = None,
                                       !.seqs = DOMAIN queues[sweep.type][x]]
             /\ UNCHANGED pc
  BY DEF NextQueue
<1>2. pc = "run" /\ Quiet /\ UNCHANGED pipeUp
  BY DEF NextQueue
<1>3. sweep.type \in Type /\ x \in Id
  BY DEF DispatcherInv, TaskInv, SweepTypes
<1>4. CASE queues[sweep.type][x] = None
  BY <1>1, <1>2, <1>4, OffSweep DEF Quiet, DispatcherInv, TaskInv, RestTypes, ClosedInv, Stopped
<1>5. CASE queues[sweep.type][x] # None
  <2>1. DOMAIN queues[sweep.type][x] \in SUBSET Seqs
    BY <1>3, <1>5, UsedFacts, TableFacts DEF DispatcherInv, QueueInv
  <2>2. SweepTypes'
    BY <1>1, <1>3, <1>5, <2>1 DEF DispatcherInv, TaskInv, SweepTypes
  <2>3. SweepInv'
    BY <1>1, <1>2, <1>3, <1>5 DEF DispatcherInv, TaskInv, SweepTypes, SweepInv, Quiet
  <2> QED
    BY <1>1, <1>2, <1>5, <2>2, <2>3, OnSweep
<1> QED
  BY <1>4, <1>5

\* The await of a publish returns into the sweep it left.
LEMMA SendDoneStep ==
  ASSUME DispatcherInv, SendDone
  PROVE  DispatcherInv'
<1>1. SweepTypes' /\ SweepInv'
  BY DEF SendDone, Quiet, DispatcherInv, TaskInv, SweepTypes, SweepInv
<1> QED
  BY <1>1, OnSweep DEF SendDone

\* What the sweep finds is what the queue it is in has, or the queue it keeps.
LEMMA FoundFacts ==
  ASSUME DispatcherInv, NEW s \in sweep.seqs, Found(s) # None
  PROVE  /\ sweep.type \in Type /\ sweep.queue \in Id /\ s \in Seqs
         /\ Found(s) \in Meta
         /\ sweep.orphan = None => /\ s \in Used(sweep.type, sweep.queue)
                                   /\ Found(s) = queues[sweep.type][sweep.queue][s]
<1>1. /\ sweep.type \in Type /\ sweep.queue \in Id /\ s \in Seqs
      /\ sweep.orphan \in Tables \cup {None} /\ Shape
  BY DEF DispatcherInv, QueueInv, TaskInv, SweepTypes
<1>2. CASE sweep.orphan = None
  <2>1. queues[sweep.type][sweep.queue] # None
    BY <1>2 DEF DispatcherInv, TaskInv, SweepInv
  <2>2. s \in DOMAIN queues[sweep.type][sweep.queue]
    BY <1>2 DEF Found
  <2> QED
    BY <1>1, <1>2, <2>1, <2>2, UsedFacts DEF Found, Used
<1>3. CASE sweep.orphan # None
  BY <1>1, <1>3, TableFacts DEF Found
<1> QED
  BY <1>2, <1>3

\* A message that is not due is passed over.
LEMMA SkipStep ==
  ASSUME DispatcherInv, pc = "run", NEW s \in sweep.seqs, Skip(s)
  PROVE  DispatcherInv'
<1>1. SweepTypes' /\ SweepInv'
  BY DEF Skip, Quiet, DispatcherInv, TaskInv, SweepTypes, SweepInv
<1> QED
  BY <1>1, OnSweep DEF Skip

\* A pipe that broke ends the sweep.
LEMMA BreakStep ==
  ASSUME DispatcherInv, pc = "run", NEW s \in sweep.seqs, Break(s)
  PROVE  DispatcherInv'
  BY OffSweep DEF Break, Quiet, DispatcherInv, TaskInv, RestTypes, ClosedInv, Stopped

\* The entry that is published is marked as tried where it is.
LEMMA RepublishQueues ==
  ASSUME DispatcherInv, NEW s \in sweep.seqs, Republish(s)
  PROVE  /\ QueueInv' /\ sweep.type \in {"MSG", "MSGACK"}
         /\ \A r \in Type, y \in Id : queues[r][y] # None => queues'[r][y] # None
<1> DEFINE t == sweep.type
           x == sweep.queue
           m == [queues[t][x][s] EXCEPT !.tried = TRUE]
<1>1. Found(s) # None /\ Due(Found(s)) /\ UNCHANGED <<finished, direct>>
  BY DEF Republish
<1>2. t \in Type /\ x \in Id /\ s \in Seqs /\ Found(s) \in Meta /\ Shape
  BY <1>1, FoundFacts DEF DispatcherInv, QueueInv
<1>3. CASE sweep.orphan = None
  <2>1. s \in Used(t, x) /\ queues[t][x][s] \in Meta /\ ~queues[t][x][s].oneShot
    BY <1>1, <1>2, <1>3, FoundFacts DEF Due
  <2>2. queues' = [queues EXCEPT ![t][x][s] = m]
    BY <1>3 DEF Republish
  <2>3. /\ m \in Meta /\ m.oneShot = queues[t][x][s].oneShot
        /\ queues[t][x][s].acked => m.acked
    BY <2>1 DEF Meta
  <2> HIDE DEF m, t, x
  <2>4. QueueInv'
    BY <1>1, <1>2, <2>1, <2>2, <2>3, MarkKeeps DEF DispatcherInv
  <2>5. queues'[t][x] # None
    BY <1>2, <2>1, <2>2, <2>3, Marked
  <2>6. \A r \in Type, y \in Id : r # t \/ y # x => queues'[r][y] = queues[r][y]
    BY <1>2, <2>1, <2>2, <2>3, Marked
  <2>7. t # "PROBE"
    BY <1>2, <2>1 DEF DispatcherInv, QueueInv, DirectInv, OneShotInv
  <2> QED
    BY <1>2, <2>4, <2>5, <2>6, <2>7 DEF t, Type
<1>4. CASE sweep.orphan # None
  <2>1. UNCHANGED queues /\ sweep.type = "MSG"
    BY <1>4 DEF Republish, DispatcherInv, TaskInv, SweepInv
  <2> QED
    BY <1>1, <2>1, IdleKeeps DEF DispatcherInv
<1> QED
  BY <1>3, <1>4

\* A publish marks its entry and waits in the middle of the queue.
LEMMA RepublishStep ==
  ASSUME DispatcherInv, pc = "run", NEW s \in sweep.seqs, Republish(s)
  PROVE  DispatcherInv'
<1>1. /\ QueueInv' /\ sweep.type \in {"MSG", "MSGACK"}
      /\ \A r \in Type, y \in Id : queues[r][y] # None => queues'[r][y] # None
  BY RepublishQueues
<1>2. sweep.type \in Type /\ sweep.queue \in Id /\ s \in Seqs
  BY FoundFacts DEF Republish
<1>3. SweepTypes'
  BY DEF Republish, DispatcherInv, TaskInv, SweepTypes
<1>4. SweepInv'
  BY <1>1, <1>2 DEF Republish, DispatcherInv, TaskInv, SweepTypes, SweepInv
<1>5. RestTypes' /\ ClosedInv'
  BY <1>2 DEF Republish, DispatcherInv, TaskInv, RestTypes, ClosedInv, Stopped, Key
<1> QED
  BY <1>1, <1>3, <1>4, <1>5 DEF DispatcherInv, TaskInv

\* The next sequence number is one of those still to come.
LEMMA NextMetaCases ==
  ASSUME DispatcherInv, NextMeta
  PROVE  pc = "run" /\ \E s \in sweep.seqs : Skip(s) \/ Break(s) \/ Republish(s)
<1>1. sweep.seqs \in SUBSET Seqs /\ sweep.seqs # {}
  BY DEF NextMeta, DispatcherInv, TaskInv, SweepTypes
<1>2. Min(sweep.seqs) \in sweep.seqs
  BY <1>1, MinIsMember
<1> QED
  BY <1>2 DEF NextMeta

\* Every step of the dispatcher task keeps the invariant.
LEMMA TaskStep ==
  ASSUME DispatcherInv, Task
  PROVE  DispatcherInv'
<1>1. CASE Cancelled \/ Reconnect \/ EndSweep \/ SleepDone
  BY <1>1, PauseStep
<1>2. CASE BeginSweep
  BY <1>2, BeginSweepStep
<1>3. CASE NextType
  BY <1>3, NextTypeStep
<1>4. CASE NextQueue
  BY <1>4, NextQueueStep
<1>5. CASE NextMeta
  BY <1>5, NextMetaCases, SkipStep, BreakStep, RepublishStep
<1>6. CASE SendDone
  BY <1>6, SendDoneStep
<1> QED
  BY <1>1, <1>2, <1>3, <1>4, <1>5, <1>6 DEF Task

\* So does every step of the callers, the reader and the connection.
LEMMA EnvironmentStep ==
  ASSUME DispatcherInv, Environment
  PROVE  DispatcherInv'
<1>1. ASSUME NEW x \in Queue, QueueMsg(x) \/ DequeueAll(x) PROVE DispatcherInv'
  BY <1>1, QueueMsgStep, DequeueAllStep
<1>2. ASSUME NEW x \in ProbeQueue, SendProbe(x) \/ SendProbeAck(x) PROVE DispatcherInv'
  BY <1>2, SendProbeStep
<1>3. ASSUME NEW x \in Queue, NEW s \in Seqs,
             SignAck(x, s) \/ QueueAck(x, s) \/ PruneAcks(x, s + 1) \/ DequeueSeq(x, s)
      PROVE  DispatcherInv'
  <2>1. s + 1 \in Nat
    BY DEF Seqs
  <2> QED
    BY <1>3, <2>1, SignAckStep, QueueAckStep, PruneAcksStep, DequeueSeqStep
<1>4. ASSUME NEW x \in Id, NEW s \in Seqs, ReceiveAck(x, s) PROVE DispatcherInv'
  BY <1>4, ReceiveAckStep
<1>5. ASSUME NEW t \in {"MSG", "MSGACK"}, NEW x \in Queue, NEW s \in Seqs, Expire(t, x, s)
      PROVE  DispatcherInv'
  BY <1>5, ExpireStep
<1>6. CASE PipeLost \/ Close \/ Disconnect \/ CloseDone
  BY <1>6, PipeStep
<1> QED
  BY <1>1, <1>2, <1>3, <1>4, <1>5, <1>6 DEF Environment

\* The invariant is inductive.
LEMMA DispatcherStep == DispatcherInv /\ [Next]_vars => DispatcherInv'
<1> SUFFICES ASSUME DispatcherInv, [Next]_vars PROVE DispatcherInv'
  OBVIOUS
<1>1. CASE Next
  BY <1>1, TaskStep, EnvironmentStep DEF Next
<1>2. CASE UNCHANGED vars
  <2>1. QueueInv'
    BY <1>2, IdleKeeps DEF DispatcherInv, vars
  <2>2. TaskInv'
    BY <1>2 DEF DispatcherInv, TaskInv, SweepTypes, RestTypes, SweepInv, ClosedInv, Stopped, vars
  <2> QED
    BY <2>1, <2>2 DEF DispatcherInv
<1> QED
  BY <1>1, <1>2

\* It holds of a client without messages.
LEMMA DispatcherInit == Init => DispatcherInv
<1> SUFFICES ASSUME Init PROVE DispatcherInv
  OBVIOUS
<1>1. Shape
  BY DEF Init, Shape
<1>2. \A t \in Type, x \in Id : queues[t][x] = None /\ Used(t, x) = {}
  BY DEF Init, Used
<1>3. DirectInv /\ FinishedInv
  BY <1>2 DEF Init, DirectInv, OneShotInv, FinishedInv, Type
<1>4. SweepTypes /\ SweepInv
  BY NoSweepFacts DEF Init, SweepTypes, SweepInv
<1>5. RestTypes /\ ClosedInv
  BY DispatcherAssumption DEF Init, RestTypes, ClosedInv, Stopped
<1> QED
  BY <1>1, <1>3, <1>4, <1>5 DEF DispatcherInv, QueueInv, TaskInv

\* It holds of every run.
LEMMA DispatcherHolds == Spec => []DispatcherInv
  BY DispatcherInit, DispatcherStep, PTL DEF Spec

-----------------------------------------------------------------------------
(* Theorems. *)

\* The queues hold whole entries under numbers in range, whatever the steps of a
\* sweep fall between, and what is published is the key of one.
THEOREM TypeCorrect == Spec => []TypeOK
<1>1. DispatcherInv => TypeOK
  <2> SUFFICES ASSUME DispatcherInv PROVE TypeOK
    OBVIOUS
  <2>1. \A t \in Type, x \in Id : /\ Used(t, x) \subseteq Seqs
                                  /\ \A s \in Used(t, x) : queues[t][x][s] \in Meta
    BY UsedFacts DEF DispatcherInv, QueueInv
  <2>2. direct \subseteq Key
    BY DispatcherAssumption DEF DispatcherInv, QueueInv, DirectInv, Key, Type, Id, Seqs
  <2> QED
    BY <2>1, <2>2 DEF TypeOK, DispatcherInv, TaskInv, RestTypes
<1> QED
  BY DispatcherHolds, <1>1, PTL

\* What the three theorems on publishing say of a step.
NotDirect == emitted' # None => emitted' \notin direct
QuietClosed ==
  /\ closed \in {"bye", "closed"} => Stopped
  /\ closed = "closed" => emitted' = None
DiesOfDrops == pc' = "dead" => pc = "dead" \/ LookupFails

\* Only PublishDirectly and Republish hand a message to the pipe.
LEMMA EmitCases ==
  ASSUME DispatcherInv, Next, emitted' # None
  PROVE  \/ \E x \in ProbeQueue : SendProbe(x) \/ SendProbeAck(x)
         \/ pc = "run" /\ \E s \in sweep.seqs : Republish(s)
<1>1. CASE Task
  BY <1>1, NextMetaCases
     DEF Task, Cancelled, Reconnect, BeginSweep, NextType, NextQueue, Skip, Break,
         SendDone, EndSweep, SleepDone, Quiet
<1>2. CASE Environment
  BY <1>2 DEF Environment, QueueMsg, DequeueAll, SignAck, QueueAck, PruneAcks, DequeueSeq,
              ReceiveAck, Expire, PipeLost, Close, Disconnect, CloseDone
<1> QED
  BY <1>1, <1>2 DEF Next

\* What a probe and its ack publish is new.
LEMMA ProbeEmits ==
  ASSUME DispatcherInv, NEW x \in ProbeQueue, SendProbe(x) \/ SendProbeAck(x), emitted' # None
  PROVE  emitted' \notin direct /\ emitted' \notin finished
<1>1. PICK t \in {"PROBE", "MSGACK"} : emitted' = <<t, x, 0>> /\ <<t, x, 0>> \notin direct
  BY DEF SendProbe, SendProbeAck, PublishDirectly, DispatcherInv, QueueInv, DirectInv, Id
<1> QED
  BY <1>1 DEF DispatcherInv, QueueInv, FinishedInv

\* What a sweep publishes is not one-shot, and finished only if it is acked and
\* acks are not heeded.
LEMMA SweepEmits ==
  ASSUME DispatcherInv, NEW s \in sweep.seqs, Republish(s)
  PROVE  emitted' \notin direct /\ AgainOnlyAcked
<1>1. /\ Found(s) # None /\ ~Found(s).oneShot /\ ~(IgnoreAcked /\ Found(s).acked)
      /\ emitted' = <<sweep.type, sweep.queue, s>>
  BY DEF Republish, Due
<1>2. CASE sweep.orphan = None
  <2>1. /\ sweep.type \in Type /\ sweep.queue \in Id
        /\ s \in Used(sweep.type, sweep.queue)
        /\ Found(s) = queues[sweep.type][sweep.queue][s]
    BY <1>1, <1>2, FoundFacts
  <2>2. emitted' \notin direct
    BY <1>1, <2>1 DEF DispatcherInv, QueueInv, DirectInv, OneShotInv
  <2>3. emitted' \in finished => Found(s).acked
    BY <1>1, <2>1 DEF DispatcherInv, QueueInv, FinishedInv
  <2> QED
    BY <1>1, <2>1, <2>2, <2>3 DEF AgainOnlyAcked
<1>3. CASE sweep.orphan # None
  BY <1>1, <1>3 DEF DispatcherInv, TaskInv, SweepInv, QueueInv, DirectInv, AgainOnlyAcked
<1> QED
  BY <1>2, <1>3

\* dequeue_msg(queue_id) stops the retransmission of a queue, however it falls between
\* two steps of a sweep: what is published though it is finished is still queued and
\* acked, and ignore_acked is not set.
THEOREM DequeuedStaysQuiet == Spec => OnlyAckedAgain
<1>1. DispatcherInv /\ [Next]_vars => [AgainOnlyAcked]_vars
  BY EmitCases, ProbeEmits, SweepEmits DEF AgainOnlyAcked
<1> QED
  BY DispatcherHolds, <1>1, PTL DEF Spec, OnlyAckedAgain

\* What send_probe and send_probe_ack have published is not published again.
THEOREM OneShotsAreSentOnce == Spec => OneShotOnce
<1>1. DispatcherInv /\ [Next]_vars => [NotDirect]_vars
  BY EmitCases, ProbeEmits, SweepEmits DEF NotDirect
<1> QED
  BY DispatcherHolds, <1>1, PTL DEF Spec, OneShotOnce, NotDirect

\* No dispatcher is left when close() sends DISCONNECT, and nothing is published once
\* it has returned, with or without an exception that ended the task before.
THEOREM ClosedIsQuiet == Spec => QuietAfterClose
<1>1. DispatcherInv /\ [Next]_vars => [QuietClosed]_vars
  <2> SUFFICES ASSUME DispatcherInv, Next, closed = "closed" PROVE emitted' = None
    BY DEF QuietClosed, DispatcherInv, TaskInv, ClosedInv
  <2>1. Stopped /\ ~pipeUp
    BY DEF DispatcherInv, TaskInv, ClosedInv
  <2>2. ASSUME NEW x \in ProbeQueue, SendProbe(x) \/ SendProbeAck(x) PROVE emitted' = None
    BY <2>1, <2>2 DEF SendProbe, SendProbeAck, PublishDirectly
  <2> QED
    BY <2>1, <2>2, EmitCases DEF Stopped
<1> QED
  BY DispatcherHolds, <1>1, PTL DEF Spec, QuietAfterClose, QuietClosed

\* Only a MSG queue that goes from a snapshot ends the dispatcher.
LEMMA DeathCases ==
  ASSUME DispatcherInv, [Next]_vars
  PROVE  DiesOfDrops
<1>1. CASE NextQueue
  <2>1. SweepInv /\ sweep.ids \in SUBSET Id
    BY DEF DispatcherInv, TaskInv, SweepTypes
  <2> QED
    BY <1>1, <2>1 DEF NextQueue, SweepInv, DiesOfDrops, LookupFails
<1>2. CASE NextMeta
  BY <1>2, NextMetaCases DEF Skip, Break, Republish, DiesOfDrops
<1>3. CASE Task /\ ~NextQueue /\ ~NextMeta
  BY <1>3 DEF Task, Cancelled, Reconnect, BeginSweep, NextType, SendDone, EndSweep,
              SleepDone, DiesOfDrops
<1>4. CASE Environment
  BY <1>4 DEF Environment, QueueMsg, DequeueAll, SendProbe, SendProbeAck, PublishDirectly,
              SignAck, QueueAck, PruneAcks, DequeueSeq, ReceiveAck, Expire, PipeLost,
              Close, Disconnect, CloseDone, DiesOfDrops
<1>5. CASE UNCHANGED vars
  BY <1>5 DEF vars, DiesOfDrops
<1> QED
  BY <1>1, <1>2, <1>3, <1>4, <1>5 DEF Next

\* The KeyError that ends the dispatcher comes from a MSG queue that dequeue_msg took
\* away after the snapshot: an ack queue is emptied and stays, and a sweep awaits
\* nothing among the probe queues, so those that go are never missed.
THEOREM DispatcherDiesOfDrops == Spec => DiesOfDropsOnly
<1>1. DispatcherInv /\ [Next]_vars => [DiesOfDrops]_vars
  BY DeathCases
<1> QED
  BY DispatcherHolds, <1>1, PTL DEF Spec, DiesOfDropsOnly, DiesOfDrops
=============================================================================
