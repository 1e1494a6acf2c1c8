-------------------------- MODULE DiscoveryProofs --------------------------
(***************************************************************************)
(* Proofs about Discovery, for any number of processes that share the hint *)
(* file, any brokers, server lists and rankings, and processes that end at *)
(* any point.                                                              *)
(***************************************************************************)
EXTENDS Discovery, Recursion, FiniteSetTheorems, TLAPS

Fields == {"at", "servers", "up", "limited", "own", "key", "hints", "needed",
           "first", "trying", "found", "again", "read", "link"}

\* A table of whole entries: each is what one start of its key has found.
Whole(table) == \A k \in Node : table[k] = None \/ table[k] \in kept[k]

\* What a process between its read of the file and its write will write.
Writes(n, r) ==
  /\ DOMAIN r = Fields
  /\ r.at = "write" => r.own \in kept[n] /\ DOMAIN r.read = Node /\ Whole(r.read)

\* EntriesGenuine alone is not inductive: a write puts back the entries of the
\* other keys as they were read, and the process's own.
FileInv ==
  /\ DOMAIN file = Node /\ DOMAIN kept = Node /\ DOMAIN proc = Node
  /\ Whole(file)
  /\ \A n \in Node : Writes(n, proc[n])

\* The file is empty at the start.
LEMMA FileInit == Init => FileInv
  BY DEF Init, Off, FileInv, Fields, Whole, Writes

\* A step of process n that touches neither the file nor the history, and after
\* which n is not about to write.
LEMMA Elsewhere ==
  ASSUME FileInv, NEW n \in Node, NEW r, Become(n, r), DOMAIN r = Fields,
         r.at # "write", UNCHANGED <<file, kept>>
  PROVE  FileInv'
  BY DEF FileInv, Become, Whole, Writes

\* The same of a step that leaves what n is about to write as it was.
LEMMA Keeps ==
  ASSUME FileInv, NEW n \in Node, NEW r, Become(n, r), DOMAIN r = Fields,
         r.at = proc[n].at, r.own = proc[n].own, r.read = proc[n].read,
         UNCHANGED <<file, kept>>
  PROVE  FileInv'
  BY DEF FileInv, Become, Whole, Writes

\* get_dest_clients before its first await changes no more than what it is for.
LEMMA SeekingFields ==
  ASSUME NEW r, NEW k, NEW h, DOMAIN r = Fields
  PROVE  DOMAIN Seeking(r, k, h) = Fields
  BY DEF Seeking, Fields

\* Where a walk begins a process is not writing.
LEMMA WalksFields ==
  ASSUME NEW r, DOMAIN r = Fields, NEW w \in Walks(r)
  PROVE  DOMAIN w = Fields /\ w.at # "write"
  BY DEF Walks, Fields

\* A call that returns has yet to read the file, if it is to write it.
LEMMA ReturnsFields ==
  ASSUME NEW r, DOMAIN r = Fields
  PROVE  DOMAIN Returns(r) = Fields /\ Returns(r).at # "write"
  BY DEF Returns, Fields

\* Every step keeps the file whole, the crash between read and write included.
LEMMA FileNext == FileInv /\ [Next]_vars => FileInv'
  <1> SUFFICES ASSUME FileInv, [Next]_vars PROVE FileInv'
    OBVIOUS
  <1>0. \A n \in Node : DOMAIN proc[n] = Fields
    BY DEF FileInv, Writes
  <1>1. ASSUME NEW n \in Node, Boot(n) PROVE FileInv'
    <2>1. PICK servers \in SUBSET Broker :
            Become(n, [Off EXCEPT !.at = "idle", !.servers = servers])
      BY <1>1 DEF Boot
    <2> DEFINE r == [Off EXCEPT !.at = "idle", !.servers = servers]
    <2>2. DOMAIN r = Fields /\ r.at # "write"
      BY DEF Off, Fields
    <2> QED BY <1>1, <2>1, <2>2, Elsewhere DEF Boot
  <1>2. ASSUME NEW n \in Node, Start(n) PROVE FileInv'
    <2> DEFINE hints == IF file[n] = None THEN {} ELSE file[n]
    <2>1. PICK r \in Walks(Seeking(proc[n], n, hints)) : Become(n, r)
      BY <1>2 DEF Start
    <2> HIDE DEF hints
    <2>2. DOMAIN r = Fields /\ r.at # "write"
      BY <1>0, <2>1, SeekingFields, WalksFields
    <2> QED BY <1>2, <2>1, <2>2, Elsewhere DEF Start
  <1>3. ASSUME NEW n \in Node, NEW k \in Node, Pipe(n, k) PROVE FileInv'
    <2>1. PICK r \in Walks(Seeking(proc[n], k, {})) : Become(n, r)
      BY <1>3 DEF Pipe
    <2>2. DOMAIN r = Fields /\ r.at # "write"
      BY <1>0, <2>1, SeekingFields, WalksFields
    <2> QED BY <1>3, <2>1, <2>2, Elsewhere DEF Pipe
  <1>4. ASSUME NEW n \in Node, NEW b \in Broker, TryOk(n, b) PROVE FileInv'
    <2> DEFINE taken == IF proc[n].at = "full" THEN proc[n].found
                        ELSE proc[n].found \cup {b}
               r == [proc[n] EXCEPT !.up = @ \cup {b}, !.trying = @ \ {b},
                       !.found = taken,
                       !.at = IF @ = "walk" /\ Cardinality(taken) = proc[n].needed
                              THEN "full" ELSE @]
    <2>1. Become(n, r) /\ proc[n].at # "write" /\ UNCHANGED <<file, kept>>
      BY <1>4 DEF TryOk
    <2>2. DOMAIN r = Fields /\ r.at # "write"
      BY <1>0, <2>1 DEF Fields
    <2> QED BY <2>1, <2>2, Elsewhere
  <1>5. ASSUME NEW n \in Node, NEW b \in Broker, TryFails(n, b) PROVE FileInv'
    <2> DEFINE r == [proc[n] EXCEPT !.trying = @ \ {b}, !.limited = @ \cup {b}]
    <2>1. Become(n, r) /\ UNCHANGED <<file, kept>>
      BY <1>5 DEF TryFails
    <2>2. /\ DOMAIN r = Fields /\ r.at = proc[n].at
          /\ r.own = proc[n].own /\ r.read = proc[n].read
      BY <1>0 DEF Fields
    <2> QED BY <2>1, <2>2, Keeps
  <1>6. ASSUME NEW n \in Node, NEW b \in Broker, LimitEnds(n, b) PROVE FileInv'
    <2> DEFINE r == [proc[n] EXCEPT !.limited = @ \ {b}]
    <2>1. Become(n, r) /\ UNCHANGED <<file, kept>>
      BY <1>6 DEF LimitEnds
    <2>2. /\ DOMAIN r = Fields /\ r.at = proc[n].at
          /\ r.own = proc[n].own /\ r.read = proc[n].read
      BY <1>0 DEF Fields
    <2> QED BY <2>1, <2>2, Keeps
  <1>7. ASSUME NEW n \in Node, WalkDone(n) PROVE FileInv'
    <2> DEFINE again == [proc[n] EXCEPT !.again = TRUE]
    <2>1. PICK r : Become(n, r) /\ (r \in Walks(again) \/ r = Returns(proc[n]))
      BY <1>7 DEF WalkDone
    <2>2. DOMAIN again = Fields
      BY <1>0
    <2>3. DOMAIN r = Fields /\ r.at # "write"
      BY <1>0, <2>1, <2>2, WalksFields, ReturnsFields
    <2> QED BY <1>7, <2>1, <2>3, Elsewhere DEF WalkDone
  <1>8. ASSUME NEW n \in Node, Advertise(n) PROVE FileInv'
    BY <1>8 DEF Advertise, FileInv, Whole, Writes
  <1>9. ASSUME NEW n \in Node, NEW k \in Node, PipeHints(n, k) PROVE FileInv'
    <2> DEFINE s == Seeking(proc[n], k, {})
               r == [s EXCEPT !.at = "hints", !.hints = addr[k],
                       !.found = addr[k] \cap proc[n].up,
                       !.trying = addr[k] \ (proc[n].up \cup proc[n].limited)]
    <2>1. Become(n, r) /\ UNCHANGED <<file, kept>>
      BY <1>9 DEF PipeHints
    <2>2. DOMAIN s = Fields
      BY <1>0, SeekingFields
    <2> HIDE DEF s
    <2>3. DOMAIN r = Fields /\ r.at # "write"
      BY <2>2 DEF Fields
    <2> QED BY <2>1, <2>3, Elsewhere
  <1>10. ASSUME NEW n \in Node, HintsDone(n) PROVE FileInv'
    <2> DEFINE plain == [proc[n] EXCEPT !.hints = {}]
    <2>1. PICK r : Become(n, r) /\ (r \in Walks(plain) \/ r = Returns(proc[n]))
      BY <1>10 DEF HintsDone
    <2>2. DOMAIN plain = Fields
      BY <1>0
    <2>3. DOMAIN r = Fields /\ r.at # "write"
      BY <1>0, <2>1, <2>2, WalksFields, ReturnsFields
    <2> QED BY <1>10, <2>1, <2>3, Elsewhere DEF HintsDone
  <1>11. ASSUME NEW n \in Node, StoreReads(n) PROVE FileInv'
    <2> DEFINE r == [proc[n] EXCEPT !.at = "write", !.read = file]
    <2>1. /\ Become(n, r) /\ UNCHANGED file
          /\ kept' = [kept EXCEPT ![n] = @ \cup {proc[n].own}]
      BY <1>11 DEF StoreReads
    <2>2. DOMAIN r = Fields /\ r.own = proc[n].own /\ r.read = file
      BY <1>0 DEF Fields
    <2>3. /\ DOMAIN kept' = Node /\ \A k \in Node : kept[k] \subseteq kept'[k]
          /\ proc[n].own \in kept'[n]
      BY <2>1 DEF FileInv
    <2>4. /\ proc'[n] = r /\ DOMAIN proc' = Node
          /\ \A m \in Node : m # n => proc'[m] = proc[m]
      BY <2>1 DEF FileInv, Become
    <2> HIDE DEF r
    <2>5. Whole(file)'
      BY <2>1, <2>3 DEF FileInv, Whole
    <2>6. ASSUME NEW m \in Node PROVE Writes(m, proc[m])'
      <3>1. CASE m = n
        BY <2>1, <2>2, <2>3, <2>4, <2>5, <3>1 DEF FileInv, Writes, Whole
      <3>2. CASE m # n
        BY <2>3, <2>4, <3>2 DEF FileInv, Writes, Whole
      <3> QED BY <3>1, <3>2
    <2> QED BY <2>1, <2>3, <2>4, <2>5, <2>6 DEF FileInv
  <1>12. ASSUME NEW n \in Node, StoreWrites(n) PROVE FileInv'
    <2> DEFINE r == [proc[n] EXCEPT !.at = "idle", !.read = None]
    <2>1. /\ Become(n, r) /\ UNCHANGED kept /\ proc[n].at = "write"
          /\ file' = [proc[n].read EXCEPT ![n] = proc[n].own]
      BY <1>12 DEF StoreWrites
    <2>2. DOMAIN r = Fields /\ r.at # "write"
      BY <1>0 DEF Fields
    <2>3. proc[n].own \in kept[n] /\ DOMAIN proc[n].read = Node /\ Whole(proc[n].read)
      BY <2>1 DEF FileInv, Writes
    <2>4. DOMAIN file' = Node /\ Whole(file)'
      BY <2>1, <2>3 DEF Whole
    <2> HIDE DEF r
    <2> QED BY <2>1, <2>2, <2>4 DEF FileInv, Become, Writes, Whole
  <1>13. ASSUME NEW n \in Node, End(n) PROVE FileInv'
    <2>1. DOMAIN Off = Fields /\ Off.at # "write"
      BY DEF Off, Fields
    <2> QED BY <1>13, <2>1, Elsewhere DEF End
  <1>14. CASE UNCHANGED vars
    BY <1>14 DEF vars, FileInv, Whole, Writes
  <1>15. \A p \in Pipes : p[1] \in Node /\ p[2] \in Node
    BY DiscoveryAssumption
  <1> QED BY <1>1, <1>2, <1>3, <1>4, <1>5, <1>6, <1>7, <1>8, <1>9, <1>10, <1>11,
             <1>12, <1>13, <1>14, <1>15 DEF Next, Call

\* store_for (broker_hint_cache.py:95-137), for any number of processes that
\* read and replace the file at any time and may end in between: an entry is
\* always what one start of its own key has found, whole and unmixed.
THEOREM EntriesAlwaysGenuine == Spec => []EntriesGenuine
  <1>1. FileInv => EntriesGenuine
    BY DEF FileInv, Whole, EntriesGenuine
  <1> QED BY <1>1, FileInit, FileNext, PTL DEF Spec

-----------------------------------------------------------------------------
(* The ranking, and how many brokers a walk needs. *)

Below(k, servers, b) == {c \in servers : Score[k][c] < Score[k][b]}

\* rendezvous_hash lists every server once: with n of them, the numbers of
\* servers that are better than one of them are 0 to n - 1.
LEMMA RankedFacts ==
  ASSUME NEW k \in Node, NEW servers \in SUBSET Broker
  PROVE  /\ Cardinality(servers) \in Nat
         /\ Ranked(k, servers) \in Seq(Broker)
         /\ Len(Ranked(k, servers)) = Cardinality(servers)
<1> DEFINE n == Cardinality(servers)
           rank == [b \in servers |-> Cardinality(Below(k, servers, b))]
<1>1. IsFiniteSet(servers) /\ n \in Nat
  BY DiscoveryAssumption, FS_Subset, FS_CardinalityType
<1>2. \A b \in servers : Score[k][b] \in Nat
  BY DiscoveryAssumption
<1>3. \A b \in servers : /\ IsFiniteSet(Below(k, servers, b))
                         /\ Cardinality(Below(k, servers, b)) \in Nat
  BY <1>1, FS_Subset, FS_CardinalityType DEF Below
<1>4. ASSUME NEW b \in servers PROVE Cardinality(Below(k, servers, b)) < n
  <2>1. Below(k, servers, b) \in SUBSET servers /\ b \notin Below(k, servers, b)
    BY <1>2 DEF Below
  <2> QED
    BY <1>1, <1>3, <2>1, FS_Subset
<1>5. ASSUME NEW b \in servers, NEW c \in servers, Score[k][b] < Score[k][c]
      PROVE  Cardinality(Below(k, servers, b)) < Cardinality(Below(k, servers, c))
  <2>1. Below(k, servers, b) \in SUBSET Below(k, servers, c)
    BY <1>2, <1>5 DEF Below
  <2>2. b \in Below(k, servers, c) /\ b \notin Below(k, servers, b)
    BY <1>2, <1>5 DEF Below
  <2> QED
    BY <1>3, <2>1, <2>2, FS_Subset
<1>6. rank \in [servers -> 0 .. n - 1]
  BY <1>1, <1>3, <1>4
<1>7. \A b, c \in servers : rank[b] = rank[c] => b = c
  <2> SUFFICES ASSUME NEW b \in servers, NEW c \in servers, b # c
               PROVE  rank[b] # rank[c]
    OBVIOUS
  <2>1. Score[k][b] # Score[k][c]
    BY DiscoveryAssumption
  <2>2. Score[k][b] < Score[k][c] \/ Score[k][c] < Score[k][b]
    BY <1>2, <2>1
  <2>3. rank[b] < rank[c] \/ rank[c] < rank[b]
    BY <1>5, <2>2
  <2>4. rank[b] \in Nat /\ rank[c] \in Nat
    BY <1>3
  <2> QED
    BY <2>3, <2>4
<1> HIDE DEF rank
<1>8. rank \in Injection(servers, 0 .. n - 1)
  BY <1>6, <1>7 DEF Injection, IsInjective
<1>9. IsFiniteSet(0 .. n - 1) /\ Cardinality(0 .. n - 1) = n
  BY <1>1, FS_Interval
<1>10. rank \in Surjection(servers, 0 .. n - 1)
  BY <1>8, <1>9, FS_Injection
<1>11. \A i \in 1 .. n : \E b \in servers : Cardinality(Below(k, servers, b)) = i - 1
  <2> SUFFICES ASSUME NEW i \in 1 .. n
               PROVE  \E b \in servers : Cardinality(Below(k, servers, b)) = i - 1
    OBVIOUS
  <2>1. i - 1 \in 0 .. n - 1
    BY <1>1
  <2>2. PICK b \in servers : rank[b] = i - 1
    BY <1>10, <2>1 DEF Surjection
  <2> QED
    BY <2>2 DEF rank
<1>12. Ranked(k, servers) = [i \in 1 .. n |->
          CHOOSE b \in servers : Cardinality(Below(k, servers, b)) = i - 1]
  BY DEF Ranked, Below
<1> HIDE DEF n
<1>13. Ranked(k, servers) \in [1 .. n -> Broker]
  <2>1. \A i \in 1 .. n :
          (CHOOSE b \in servers : Cardinality(Below(k, servers, b)) = i - 1) \in Broker
    BY <1>11
  <2> QED
    BY <1>12, <2>1
<1>14. Ranked(k, servers) \in Seq(Broker) /\ Len(Ranked(k, servers)) = n
  BY <1>1, <1>13
<1> QED
  BY <1>1, <1>14 DEF n

\* Hints change the order of the candidates and nothing else.
LEMMA CandidatesFacts ==
  ASSUME NEW k \in Node, NEW servers \in SUBSET Broker, NEW hints
  PROVE  /\ Candidates(k, servers, hints) \in Seq(Broker)
         /\ Len(Candidates(k, servers, hints)) = Cardinality(servers)
<1> DEFINE A == hints \cap servers
           B == servers \ hints
<1>1. IsFiniteSet(A) /\ IsFiniteSet(B) /\ A \cap B = {} /\ A \cup B = servers
  BY DiscoveryAssumption, FS_Subset
<1>2. A \in SUBSET Broker /\ B \in SUBSET Broker
  OBVIOUS
<1>3. /\ Cardinality(A) \in Nat /\ Ranked(k, A) \in Seq(Broker)
      /\ Len(Ranked(k, A)) = Cardinality(A)
  BY <1>2, RankedFacts
<1>4. /\ Cardinality(B) \in Nat /\ Ranked(k, B) \in Seq(Broker)
      /\ Len(Ranked(k, B)) = Cardinality(B)
  BY <1>2, RankedFacts
<1>5. Candidates(k, servers, hints) = Ranked(k, A) \o Ranked(k, B)
  BY DEF Candidates
<1> HIDE DEF A, B
<1>6. Cardinality(servers) = Cardinality(A) + Cardinality(B)
  <2>1. Cardinality(A \cup B) = Cardinality(A) + Cardinality(B) - Cardinality(A \cap B)
    BY <1>1, FS_Union
  <2>2. Cardinality({}) = 0
    BY FS_EmptySet
  <2>3. A \cap B = {} /\ A \cup B = servers
    BY <1>1
  <2>4. Cardinality(A \cap B) = 0 /\ Cardinality(A \cup B) = Cardinality(servers)
    BY <2>2, <2>3, Zenon
  <2> QED
    BY <1>3, <1>4, <2>1, <2>4
<1>7. /\ Ranked(k, A) \o Ranked(k, B) \in Seq(Broker)
      /\ Len(Ranked(k, A) \o Ranked(k, B)) = Len(Ranked(k, A)) + Len(Ranked(k, B))
  <2> DEFINE a == Ranked(k, A)
             b == Ranked(k, B)
  <2>1. a \in Seq(Broker) /\ b \in Seq(Broker)
    BY <1>3, <1>4
  <2> HIDE DEF a, b
  <2>2. a \o b \in Seq(Broker) /\ Len(a \o b) = Len(a) + Len(b)
    BY <2>1
  <2> QED
    BY <2>2 DEF a, b
<1> QED
  BY <1>3, <1>4, <1>5, <1>6, <1>7

\* int.bit_length.
LEMMA BitLengthUnfolds ==
  /\ BitLength \in [Nat -> Nat]
  /\ \A m \in Nat : BitLength[m] = IF m = 0 THEN 0 ELSE 1 + BitLength[m \div 2]
<1> DEFINE stop == {0}
           base == [m \in Nat |-> 0]
           down == [m \in Nat |-> m \div 2]
           step == [s \in Nat \X Nat |-> 1 + s[2]]
<1>1. /\ stop \in SUBSET Nat /\ base \in [Nat -> Nat] /\ down \in [Nat -> Nat]
      /\ step \in [Nat \X Nat -> Nat] /\ \A x \in Nat \ stop : down[x] < x
  OBVIOUS
<1>2. \A x, y \in Nat : /\ base[x] = 0 /\ down[x] = x \div 2 /\ step[<<x, y>>] = 1 + y
                        /\ x \div 2 \in Nat /\ (x \in stop <=> x = 0)
  OBVIOUS
<1> HIDE DEF base, down, step, stop
<1>3. PICK f \in [Nat -> Nat] : \A x \in Nat : Follows(f, x, stop, base, down, step)
  BY <1>1, RecursionEnds
<1>4. ASSUME NEW m \in Nat PROVE f[m] = IF m = 0 THEN 0 ELSE 1 + f[m \div 2]
  <2>1. Follows(f, m, stop, base, down, step) /\ f[m \div 2] \in Nat
    BY <1>2, <1>3
  <2> QED
    BY <1>2, <2>1 DEF Follows
<1>5. f = [m \in Nat |-> IF m = 0 THEN 0 ELSE 1 + f[m \div 2]]
  BY <1>4
<1>6. BitLength = [m \in Nat |-> IF m = 0 THEN 0 ELSE 1 + BitLength[m \div 2]]
  BY <1>5 DEF BitLength
<1> HIDE DEF BitLength
<1>7. \A m \in Nat : BitLength[m] = IF m = 0 THEN 0 ELSE 1 + BitLength[m \div 2]
  BY <1>6
<1>8. \A m \in Nat : BitLength[m] \in Nat
  <2> DEFINE Bad == {m \in Nat : BitLength[m] \notin Nat}
  <2> SUFFICES ASSUME Bad # {} PROVE FALSE
    OBVIOUS
  <2>1. PICK m \in Bad : \A n \in Bad : m <= n
    <3>1. Bad \in SUBSET Nat
      OBVIOUS
    <3> HIDE DEF Bad
    <3> QED
      BY <3>1, LeastNumber
  <2>2. m # 0 => m \div 2 \in Nat /\ m \div 2 < m
    BY <2>1
  <2> QED
    BY <1>7, <2>1, <2>2
<1> QED
  BY <1>6, <1>7, <1>8

\* "stepping up at the 2 / 4 / 8 candidate-count thresholds", for every count.
LEMMA NeededIsThreshold ==
  ASSUME NEW n \in Nat
  PROVE  Needed(n) = Threshold(n)
<1>1. BitLength[0] = 0 /\ BitLength[1] = 1
  BY BitLengthUnfolds
<1>2. BitLength[2] = 2 /\ BitLength[3] = 2
  BY <1>1, BitLengthUnfolds
<1>3. n \in 4 .. 7 => BitLength[n] = 3
  <2>1. n \in 4 .. 7 => n \div 2 \in {2, 3}
    OBVIOUS
  <2> QED
    BY <1>2, <2>1, BitLengthUnfolds
<1>4. n >= 8 => BitLength[n] >= 4
  <2> SUFFICES ASSUME n >= 8 PROVE BitLength[n] >= 4
    OBVIOUS
  <2> DEFINE a == n \div 2
             b == a \div 2
             c == b \div 2
  <2>1. a \in Nat \ {0} /\ b \in Nat \ {0} /\ c \in Nat \ {0} /\ c \div 2 \in Nat
    OBVIOUS
  <2>2. /\ BitLength[n] = 1 + BitLength[a] /\ BitLength[a] = 1 + BitLength[b]
        /\ BitLength[b] = 1 + BitLength[c] /\ BitLength[c] = 1 + BitLength[c \div 2]
    BY <2>1, BitLengthUnfolds
  <2>3. BitLength[c \div 2] \in Nat
    BY <2>1, BitLengthUnfolds
  <2> HIDE DEF a, b, c
  <2> QED
    BY <2>2, <2>3
<1>5. BitLength[n] \in Nat
  BY BitLengthUnfolds
<1>6. n < 2 \/ n \in 2 .. 3 \/ n \in 4 .. 7 \/ n >= 8
  OBVIOUS
<1> QED
  BY <1>1, <1>2, <1>3, <1>4, <1>5, <1>6 DEF Needed, Threshold

-----------------------------------------------------------------------------
(* What a process knows. *)

\* Clients that are found are connected, those that are tried are not.
Sets(r) ==
  /\ r.at \in {"off", "idle", "walk", "full", "hints", "store", "write"}
  /\ r.servers \subseteq Broker /\ r.up \subseteq Broker /\ r.limited \subseteq Broker
  /\ r.first \subseteq Broker /\ r.hints \subseteq Broker
  /\ r.own = None \/ r.own \subseteq r.up
  /\ r.key \in Node \cup {None}
  /\ r.trying \subseteq Broker \ r.up /\ r.found \subseteq r.up
  /\ r.again \in BOOLEAN

\* What a call works with does not change on its way.
Seeks(r) ==
  /\ r.at \in {"walk", "full", "hints"} =>
       r.key \in Node /\ r.needed = Threshold(Cardinality(r.servers))
  /\ r.at \in {"walk", "full"} => r.trying \subseteq r.first \ r.limited
  /\ r.at = "hints" => r.own # None /\ r.found \cup r.trying \subseteq r.hints

Knows(r) == DOMAIN r = Fields /\ Sets(r) /\ Seeks(r)

ProcInv ==
  /\ \A n \in Node : Knows(proc[n])
  /\ \A k \in Node : addr[k] \subseteq Broker
  /\ \A k \in Node : \A G \in kept[k] : G = None \/ G \subseteq Broker
  /\ DOMAIN addr = Node /\ ends \in 0 .. MaxEnds

\* A process that is off knows nothing.
LEMMA OffKnows == Knows(Off)
  BY DEF Off, Knows, Fields, Sets, Seeks

\* All processes are off at the start.
LEMMA ProcInit == Init => ProcInv
  BY OffKnows, DiscoveryAssumption DEF Init, ProcInv

\* A step of process n that leaves the histories and the addresses alone.
LEMMA Becomes ==
  ASSUME ProcInv, FileInv, NEW n \in Node, NEW r, Become(n, r), Knows(r),
         UNCHANGED <<addr, ends, kept>>
  PROVE  ProcInv'
<1>1. \A m \in Node : Knows(proc'[m])
  BY DEF Become, ProcInv, FileInv
<1> QED
  BY <1>1 DEF ProcInv

\* What a call of pipe() or start() begins with.
LEMMA SeekingFacts ==
  ASSUME NEW r, Knows(r), NEW k \in Node, NEW h
  PROVE  LET s == Seeking(r, k, h)
         IN /\ DOMAIN s = Fields /\ s.key = k /\ s.first \subseteq Broker
            /\ s.needed = Threshold(Cardinality(s.servers))
            /\ s.at = r.at /\ s.servers = r.servers /\ s.up = r.up /\ s.limited = r.limited
            /\ s.own = r.own /\ s.hints = r.hints /\ s.again = r.again /\ s.link = r.link
            /\ s.trying = r.trying /\ s.found = r.found
<1> DEFINE all == Candidates(k, r.servers, h)
           need == Needed(Len(all))
           fst == IF need = 0 THEN {} ELSE ToSet(SubSeq(all, 1, Least(MaxTries, Len(all))))
<1>1. /\ all \in Seq(Broker) /\ Len(all) = Cardinality(r.servers)
      /\ Cardinality(r.servers) \in Nat
  BY CandidatesFacts, RankedFacts DEF Knows, Sets
<1>2. need = Threshold(Cardinality(r.servers))
  BY <1>1, NeededIsThreshold
<1>3. Seeking(r, k, h) = [r EXCEPT !.key = k, !.needed = need, !.first = fst]
  BY DEF Seeking
<1>4. fst \subseteq Broker
  <2> HIDE DEF all, need
  <2>1. Least(MaxTries, Len(all)) \in 0 .. Len(all)
    BY <1>1, DiscoveryAssumption DEF Least
  <2>2. SubSeq(all, 1, Least(MaxTries, Len(all))) \in Seq(Broker)
    BY <1>1, <2>1
  <2>3. ToSet(SubSeq(all, 1, Least(MaxTries, Len(all)))) \subseteq Broker
    BY <2>2 DEF ToSet
  <2> QED
    BY <2>3
<1> HIDE DEF fst, need
<1> QED
  BY <1>2, <1>3, <1>4 DEF Knows, Fields

\* The start of a walk, of a call that knows what it needs.
LEMMA WalksFacts ==
  ASSUME NEW r, DOMAIN r = Fields, Sets(r), r.key \in Node,
         r.needed = Threshold(Cardinality(r.servers)), NEW w \in Walks(r)
  PROVE  /\ Knows(w) /\ w.trying = r.first \ (r.up \cup r.limited)
         /\ w.at \in {"walk", "full"}
<1>1. PICK F \in SUBSET (r.first \cap r.up), a \in {"walk", "full"} :
        w = [r EXCEPT !.at = a, !.found = F, !.trying = r.first \ (r.up \cup r.limited)]
  BY DEF Walks
<1>2. /\ DOMAIN w = Fields /\ w.at = a /\ w.found = F
      /\ w.trying = r.first \ (r.up \cup r.limited)
      /\ w.servers = r.servers /\ w.up = r.up /\ w.limited = r.limited /\ w.own = r.own
      /\ w.key = r.key /\ w.hints = r.hints /\ w.needed = r.needed /\ w.first = r.first
      /\ w.again = r.again
  BY <1>1 DEF Fields
<1> QED
  BY <1>2 DEF Knows, Sets, Seeks

\* What a call returns with.
LEMMA ReturnsFacts ==
  ASSUME NEW r, Knows(r)
  PROVE  /\ Knows(Returns(r)) /\ ~Returns(r).again
         /\ Returns(r).at \in {"store", "idle"}
         /\ r.own # None => Returns(r).link = [key |-> r.key, to |-> r.found]
<1> DEFINE w == Returns(r)
<1>1. /\ DOMAIN w = Fields /\ w.at \in {"store", "idle"} /\ w.found = {} /\ w.trying = {}
      /\ w.servers = r.servers /\ w.up = r.up /\ w.limited = r.limited
      /\ w.own = (IF r.own = None THEN r.found ELSE r.own)
      /\ w.key = None /\ w.hints = {} /\ w.first = {} /\ w.again = FALSE
      /\ r.own # None => w.link = [key |-> r.key, to |-> r.found]
  BY DEF Returns, Fields, Knows
<1> HIDE DEF w
<1>2. Knows(w)
  BY <1>1 DEF Knows, Sets, Seeks
<1> QED
  BY <1>1, <1>2 DEF w

\* What the end of a walk, or of the wait for the hints, leads to.
LEMMA WalkDoneCases ==
  ASSUME NEW n \in Node, Knows(proc[n]), WalkDone(n)
  PROVE  /\ UNCHANGED <<file, addr, ends, kept>>
         /\ \/ Become(n, Returns(proc[n]))
            \/ \E w : /\ Become(n, w) /\ Knows(w)
                     /\ w.trying = proc[n].first \ (proc[n].up \cup proc[n].limited)
<1> DEFINE r == proc[n]
           a == [r EXCEPT !.again = TRUE]
<1>1. r.at \in {"walk", "full"}
  BY DEF WalkDone
<1>2. /\ DOMAIN a = Fields /\ a.at = r.at /\ a.servers = r.servers /\ a.up = r.up
      /\ a.limited = r.limited /\ a.own = r.own /\ a.key = r.key /\ a.hints = r.hints
      /\ a.needed = r.needed /\ a.first = r.first /\ a.trying = r.trying
      /\ a.found = r.found /\ a.again = TRUE
  BY DEF Knows, Fields
<1>3. Become(n, Returns(r)) \/ \E w \in Walks(a) : Become(n, w)
  BY DEF WalkDone
<1> HIDE DEF a
<1>4. Sets(a) /\ a.key \in Node /\ a.needed = Threshold(Cardinality(a.servers))
  BY <1>1, <1>2 DEF Knows, Sets, Seeks
<1>5. \A w \in Walks(a) : Knows(w) /\ w.trying = r.first \ (r.up \cup r.limited)
  BY <1>2, <1>4, WalksFacts
<1> QED
  BY <1>3, <1>5 DEF WalkDone

\* When the hints have been tried the call returns what they led to, or walks.
LEMMA HintsDoneCases ==
  ASSUME NEW n \in Node, Knows(proc[n]), HintsDone(n)
  PROVE  /\ UNCHANGED <<file, addr, ends, kept>>
         /\ \/ Become(n, Returns(proc[n]))
            \/ /\ proc[n].found = {}
               /\ \E w : Become(n, w) /\ Knows(w) /\ w.at \in {"walk", "full"}
<1> DEFINE r == proc[n]
           a == [r EXCEPT !.hints = {}]
<1>1. r.at = "hints"
  BY DEF HintsDone
<1>2. /\ DOMAIN a = Fields /\ a.at = r.at /\ a.servers = r.servers /\ a.up = r.up
      /\ a.limited = r.limited /\ a.own = r.own /\ a.key = r.key /\ a.hints = {}
      /\ a.needed = r.needed /\ a.first = r.first /\ a.trying = r.trying
      /\ a.found = r.found /\ a.again = r.again
  BY DEF Knows, Fields
<1>3. \/ Become(n, Returns(r))
      \/ r.found = {} /\ \E w \in Walks(a) : Become(n, w)
  BY DEF HintsDone
<1> HIDE DEF a
<1>4. Sets(a) /\ a.key \in Node /\ a.needed = Threshold(Cardinality(a.servers))
  BY <1>1, <1>2 DEF Knows, Sets, Seeks
<1>5. \A w \in Walks(a) : Knows(w) /\ w.at \in {"walk", "full"}
  BY <1>2, <1>4, WalksFacts
<1> QED
  BY <1>3, <1>5 DEF HintsDone

\* Every step of every process keeps what its call knows.
LEMMA ProcNext ==
  ASSUME ProcInv, FileInv, [Next]_vars
  PROVE  ProcInv'
<1>0. \A n \in Node : Knows(proc[n])
  BY DEF ProcInv
<1>1. ASSUME NEW n \in Node, Boot(n) PROVE ProcInv'
  <2>1. PICK servers \in SUBSET Broker :
          Become(n, [Off EXCEPT !.at = "idle", !.servers = servers])
    BY <1>1 DEF Boot
  <2> DEFINE r == [Off EXCEPT !.at = "idle", !.servers = servers]
  <2>2. Knows(r)
    BY DEF Off, Fields, Knows, Sets, Seeks
  <2> QED
    BY <1>1, <2>1, <2>2, Becomes DEF Boot
<1>2. ASSUME NEW n \in Node, NEW k \in Node, NEW hints,
             \E w \in Walks(Seeking(proc[n], k, hints)) : Become(n, w),
             UNCHANGED <<addr, ends, kept>>
      PROVE  ProcInv'
  <2> DEFINE s == Seeking(proc[n], k, hints)
  <2>1. /\ DOMAIN s = Fields /\ s.key \in Node /\ Sets(s)
        /\ s.needed = Threshold(Cardinality(s.servers))
    BY <1>0, SeekingFacts DEF Knows, Sets
  <2>2. PICK w \in Walks(s) : Become(n, w)
    BY <1>2
  <2> HIDE DEF s
  <2>3. Knows(w)
    BY <2>1, <2>2, WalksFacts
  <2> QED
    BY <1>2, <2>2, <2>3, Becomes
<1>3. ASSUME NEW n \in Node, Start(n) PROVE ProcInv'
  BY <1>2, <1>3 DEF Start
<1>4. ASSUME NEW n \in Node, NEW k \in Node, Pipe(n, k) PROVE ProcInv'
  BY <1>2, <1>4 DEF Pipe
<1>5. ASSUME NEW n \in Node, NEW b \in Broker, TryOk(n, b) PROVE ProcInv'
  <2> DEFINE r == proc[n]
             taken == IF r.at = "full" THEN r.found ELSE r.found \cup {b}
             w == [r EXCEPT !.up = @ \cup {b}, !.trying = @ \ {b}, !.found = taken,
                            !.at = IF @ = "walk" /\ Cardinality(taken) = r.needed
                                   THEN "full" ELSE @]
  <2>1. /\ Become(n, w) /\ UNCHANGED <<addr, ends, kept>>
        /\ r.at \in {"walk", "full", "hints"} /\ b \in r.trying
    BY <1>5 DEF TryOk
  <2>2. /\ DOMAIN w = Fields /\ w.up = r.up \cup {b} /\ w.trying = r.trying \ {b}
        /\ w.found = taken /\ (w.at = r.at \/ (r.at = "walk" /\ w.at = "full"))
        /\ w.servers = r.servers /\ w.limited = r.limited /\ w.own = r.own
        /\ w.key = r.key /\ w.hints = r.hints /\ w.needed = r.needed /\ w.first = r.first
        /\ w.again = r.again
    BY <1>0 DEF Knows, Fields
  <2>3. taken \subseteq r.found \cup {b}
    OBVIOUS
  <2>4. Knows(r)
    BY <1>0
  <2> HIDE DEF w, taken
  <2>5. Knows(w)
    BY <2>1, <2>2, <2>3, <2>4 DEF Knows, Sets, Seeks
  <2> QED
    BY <2>1, <2>5, Becomes
<1>6. ASSUME NEW n \in Node, NEW b \in Broker, TryFails(n, b) PROVE ProcInv'
  <2> DEFINE r == proc[n]
             w == [r EXCEPT !.trying = @ \ {b}, !.limited = @ \cup {b}]
  <2>1. Become(n, w) /\ UNCHANGED <<addr, ends, kept>>
    BY <1>6 DEF TryFails
  <2>2. /\ DOMAIN w = Fields /\ w.up = r.up /\ w.trying = r.trying \ {b}
        /\ w.limited = r.limited \cup {b} /\ w.found = r.found /\ w.at = r.at
        /\ w.servers = r.servers /\ w.own = r.own
        /\ w.key = r.key /\ w.hints = r.hints /\ w.needed = r.needed /\ w.first = r.first
        /\ w.again = r.again
    BY <1>0 DEF Knows, Fields
  <2> HIDE DEF w
  <2>3. Knows(w)
    BY <1>0, <2>2 DEF Knows, Sets, Seeks
  <2> QED
    BY <2>1, <2>3, Becomes
<1>7. ASSUME NEW n \in Node, NEW b \in Broker, LimitEnds(n, b) PROVE ProcInv'
  <2> DEFINE r == proc[n]
             w == [r EXCEPT !.limited = @ \ {b}]
  <2>1. Become(n, w) /\ UNCHANGED <<addr, ends, kept>>
    BY <1>7 DEF LimitEnds
  <2>2. /\ DOMAIN w = Fields /\ w.up = r.up /\ w.trying = r.trying
        /\ w.limited = r.limited \ {b} /\ w.found = r.found /\ w.at = r.at
        /\ w.servers = r.servers /\ w.own = r.own
        /\ w.key = r.key /\ w.hints = r.hints /\ w.needed = r.needed /\ w.first = r.first
        /\ w.again = r.again
    BY <1>0 DEF Knows, Fields
  <2> HIDE DEF w
  <2>3. Knows(w)
    BY <1>0, <2>2 DEF Knows, Sets, Seeks
  <2> QED
    BY <2>1, <2>3, Becomes
<1>8. ASSUME NEW n \in Node, WalkDone(n) PROVE ProcInv'
  BY <1>0, <1>8, WalkDoneCases, ReturnsFacts, Becomes
<1>9. ASSUME NEW n \in Node, Advertise(n) PROVE ProcInv'
  BY <1>0, <1>9 DEF Advertise, ProcInv, Knows, Sets
<1>10. ASSUME NEW n \in Node, NEW k \in Node, PipeHints(n, k) PROVE ProcInv'
  <2> DEFINE r == proc[n]
             s == Seeking(r, k, {})
             w == [s EXCEPT !.at = "hints", !.hints = addr[k],
                       !.found = addr[k] \cap r.up,
                       !.trying = addr[k] \ (r.up \cup r.limited)]
  <2>1. Become(n, w) /\ UNCHANGED <<addr, ends, kept>> /\ r.own # None
    BY <1>10 DEF PipeHints
  <2>2. /\ DOMAIN s = Fields /\ s.key = k /\ s.first \subseteq Broker
        /\ s.needed = Threshold(Cardinality(s.servers))
        /\ s.servers = r.servers /\ s.up = r.up /\ s.limited = r.limited
        /\ s.own = r.own /\ s.again = r.again
    BY <1>0, SeekingFacts
  <2> HIDE DEF s
  <2>3. /\ DOMAIN w = Fields /\ w.at = "hints" /\ w.hints = addr[k]
        /\ w.found = addr[k] \cap r.up /\ w.trying = addr[k] \ (r.up \cup r.limited)
        /\ w.key = k /\ w.first = s.first /\ w.needed = s.needed
        /\ w.servers = r.servers /\ w.up = r.up /\ w.limited = r.limited
        /\ w.own = r.own /\ w.again = r.again
    BY <2>2 DEF Fields
  <2>4. addr[k] \subseteq Broker
    BY DEF ProcInv
  <2> HIDE DEF w
  <2>5. Knows(w)
    BY <1>0, <2>1, <2>2, <2>3, <2>4 DEF Knows, Sets, Seeks
  <2> QED
    BY <2>1, <2>5, Becomes
<1>11. ASSUME NEW n \in Node, HintsDone(n) PROVE ProcInv'
  BY <1>0, <1>11, HintsDoneCases, ReturnsFacts, Becomes
<1>12. ASSUME NEW n \in Node, StoreReads(n) PROVE ProcInv'
  <2> DEFINE r == proc[n]
             w == [r EXCEPT !.at = "write", !.read = file]
  <2>1. /\ Become(n, w) /\ UNCHANGED <<addr, ends>>
        /\ kept' = [kept EXCEPT ![n] = @ \cup {r.own}]
    BY <1>12 DEF StoreReads
  <2>2. /\ DOMAIN w = Fields /\ w.up = r.up /\ w.trying = r.trying
        /\ w.limited = r.limited /\ w.found = r.found /\ w.at = "write"
        /\ w.servers = r.servers /\ w.own = r.own
        /\ w.key = r.key /\ w.hints = r.hints /\ w.needed = r.needed /\ w.first = r.first
        /\ w.again = r.again
    BY <1>0 DEF Knows, Fields
  <2> HIDE DEF w
  <2>3. Knows(w)
    BY <1>0, <2>2 DEF Knows, Sets, Seeks
  <2>4. \A m \in Node : Knows(proc'[m])
    BY <1>0, <2>1, <2>3 DEF Become, FileInv
  <2>5. r.own = None \/ r.own \subseteq Broker
    BY <1>0 DEF Knows, Sets
  <2>6. \A k \in Node : \A G \in kept'[k] : G = None \/ G \subseteq Broker
    BY <2>1, <2>5 DEF ProcInv, FileInv
  <2> QED
    BY <2>1, <2>4, <2>6 DEF ProcInv
<1>13. ASSUME NEW n \in Node, StoreWrites(n) PROVE ProcInv'
  <2> DEFINE r == proc[n]
             w == [r EXCEPT !.at = "idle", !.read = None]
  <2>1. Become(n, w) /\ UNCHANGED <<addr, ends, kept>>
    BY <1>13 DEF StoreWrites
  <2>2. /\ DOMAIN w = Fields /\ w.up = r.up /\ w.trying = r.trying
        /\ w.limited = r.limited /\ w.found = r.found /\ w.at = "idle"
        /\ w.servers = r.servers /\ w.own = r.own
        /\ w.key = r.key /\ w.hints = r.hints /\ w.needed = r.needed /\ w.first = r.first
        /\ w.again = r.again
    BY <1>0 DEF Knows, Fields
  <2> HIDE DEF w
  <2>3. Knows(w)
    BY <1>0, <2>2 DEF Knows, Sets, Seeks
  <2> QED
    BY <2>1, <2>3, Becomes
<1>14. ASSUME NEW n \in Node, End(n) PROVE ProcInv'
  <2>1. \A m \in Node : Knows(proc'[m])
    BY <1>0, <1>14, OffKnows DEF End, Become, FileInv
  <2>2. ends' \in 0 .. MaxEnds
    BY <1>14, DiscoveryAssumption DEF End, ProcInv
  <2> QED
    BY <1>14, <2>1, <2>2 DEF End, ProcInv
<1>15. CASE UNCHANGED vars
  BY <1>15 DEF vars, ProcInv
<1>16. \A p \in Pipes : p[1] \in Node /\ p[2] \in Node
  BY DiscoveryAssumption
<1> QED
  BY <1>1, <1>3, <1>4, <1>5, <1>6, <1>7, <1>8, <1>9, <1>10, <1>11, <1>12, <1>13, <1>14,
     <1>15, <1>16 DEF Next, Call

\* The two invariants hold of every run.
LEMMA DiscoveryHolds == Spec => [](FileInv /\ ProcInv)
  BY FileInit, FileNext, ProcInit, ProcNext, PTL DEF Spec

\* Clients that a call has found are connected and those it tries are not, and
\* everything else has its type, wherever processes end.
THEOREM TypeCorrect == Spec => []TypeOK
<1>1. FileInv /\ ProcInv => TypeOK
  BY DEF FileInv, ProcInv, Knows, Sets, Whole, TypeOK
<1> QED
  BY <1>1, DiscoveryHolds, PTL

\* get_dest_clients (utils.py:247-255), for server lists of any length and hints
\* of any age: a walk looks for as many brokers as the length of its server list
\* asks for, and the number steps up at 2, 4 and 8 and nowhere else.
THEOREM NeedsWhatServersAllow == Spec => []NeededByServers
<1>1. \A n \in 0 .. 33 : Needed(n) = Threshold(n)
  BY NeededIsThreshold
<1>2. ProcInv => NeededByServers
  BY <1>1 DEF ProcInv, Knows, Seeks, NeededByServers
<1> QED
  BY <1>2, DiscoveryHolds, PTL

Retries ==
  \A n \in Node : ~proc[n].again /\ proc[n].at = "walk" /\ proc'[n].again
                   => proc[n].trying \subseteq proc'[n].trying

\* The other processes do not move.
LEMMA OthersRest ==
  ASSUME FileInv, NEW n \in Node, NEW m \in Node, n # m, NEW r, Become(m, r)
  PROVE  proc'[n] = proc[n]
  BY DEF FileInv, Become

\* The steps of a call that is waiting for connects: one connect ends, the call
\* goes on, or the process ends.
LEMMA WaitingSteps ==
  ASSUME FileInv, ProcInv, [Next]_vars, NEW n \in Node, proc[n].at \in {"walk", "hints"}
  PROVE  \/ /\ proc'[n].again = proc[n].again
            /\ proc[n].at = "hints" => proc'[n].at = "hints"
         \/ proc[n].at = "walk" /\ WalkDone(n)
         \/ proc[n].at = "hints" /\ HintsDone(n)
         \/ proc'[n] = Off
<1> DEFINE Goal == \/ /\ proc'[n].again = proc[n].again
                      /\ proc[n].at = "hints" => proc'[n].at = "hints"
                   \/ proc[n].at = "walk" /\ WalkDone(n)
                   \/ proc[n].at = "hints" /\ HintsDone(n)
                   \/ proc'[n] = Off
<1>0. DOMAIN proc[n] = Fields /\ DOMAIN proc = Node
  BY DEF ProcInv, Knows, FileInv
<1>1. CASE UNCHANGED proc
  BY <1>1
<1>2. ASSUME NEW m \in Node, m # n, NEW r, Become(m, r) PROVE Goal
  BY <1>2, OthersRest
<1>3. ASSUME NEW b \in Broker, TryOk(n, b) PROVE Goal
  BY <1>0, <1>3 DEF TryOk, Become, Fields
<1>4. ASSUME NEW b \in Broker, TryFails(n, b) PROVE Goal
  BY <1>0, <1>4 DEF TryFails, Become, Fields
<1>5. ASSUME NEW b \in Broker, LimitEnds(n, b) PROVE Goal
  BY <1>0, <1>5 DEF LimitEnds, Become, Fields
<1>6. CASE WalkDone(n)
  BY <1>6 DEF WalkDone
<1>7. CASE HintsDone(n)
  BY <1>7 DEF HintsDone
<1>8. CASE End(n)
  BY <1>0, <1>8 DEF End, Become
<1>9. ~Boot(n) /\ ~Start(n) /\ ~StoreReads(n) /\ ~StoreWrites(n)
      /\ \A k \in Node : ~Pipe(n, k) /\ ~PipeHints(n, k)
  BY DEF Boot, Start, StoreReads, StoreWrites, Pipe, PipeHints
<1>10. ASSUME NEW m \in Node, m # n PROVE Boot(m) \/ Start(m) \/ Call(m) \/ End(m) => Goal
  <2> HIDE DEF Goal
  <2> QED
    BY <1>2, <1>10 DEF Boot, Start, Call, End, WalkDone, HintsDone, StoreReads,
                       StoreWrites, TryOk, TryFails
<1>11. ASSUME NEW m \in Node, m # n, NEW k \in Node
       PROVE  Pipe(m, k) \/ PipeHints(m, k) \/ (\E b \in Broker : LimitEnds(m, b)) => Goal
  <2> HIDE DEF Goal
  <2> QED
    BY <1>2, <1>11 DEF Pipe, PipeHints, LimitEnds
<1>12. ASSUME NEW m \in Node, Advertise(m) PROVE Goal
  BY <1>12 DEF Advertise
<1>13. \A p \in Pipes : p[1] \in Node /\ p[2] \in Node
  BY DiscoveryAssumption
<1>14. UNCHANGED vars => UNCHANGED proc
  BY DEF vars
<1> HIDE DEF Goal
<1>15. Call(n) => Goal
  BY <1>3, <1>4, <1>6, <1>7, <1>9 DEF Call, Goal
<1>16. ASSUME NEW m \in Node, Boot(m) \/ Start(m) \/ Call(m) \/ End(m) PROVE Goal
  BY <1>8, <1>9, <1>10, <1>15, <1>16 DEF Goal
<1>17. ASSUME NEW m \in Node, NEW k \in Node, Pipe(m, k) \/ PipeHints(m, k) PROVE Goal
  BY <1>9, <1>11, <1>17
<1>18. ASSUME NEW m \in Node, NEW b \in Broker, LimitEnds(m, b) PROVE Goal
  BY <1>5, <1>11, <1>18
<1>19. Goal
  <2>1. UNCHANGED proc => Goal
    BY <1>1 DEF Goal
  <2> QED
    BY <1>12, <1>13, <1>14, <1>16, <1>17, <1>18, <2>1 DEF Next
<1> QED
  BY <1>19 DEF Goal

\* get_dest_clients (utils.py:309-313): a walk that is repeated tries every broker
\* again whose connect the cap of the first one has cut off.
THEOREM RetryIsFresh == Spec => RetryTakesUp
<1>1. ASSUME FileInv, ProcInv, [Next]_vars PROVE Retries
  <2> SUFFICES ASSUME NEW n \in Node, ~proc[n].again, proc[n].at = "walk", proc'[n].again
               PROVE  proc[n].trying \subseteq proc'[n].trying
    BY DEF Retries
  <2>1. Knows(proc[n])
    BY <1>1 DEF ProcInv
  <2>2. ~Off.again
    BY DEF Off
  <2>3. WalkDone(n)
    BY <1>1, <2>1, <2>2, WaitingSteps DEF Knows, Sets
  <2>4. ~Returns(proc[n]).again
    BY <2>1, ReturnsFacts
  <2>5. \A w : Become(n, w) => proc'[n] = w
    BY <1>1 DEF Become, FileInv
  <2>6. proc'[n].trying = proc[n].first \ (proc[n].up \cup proc[n].limited)
    BY <2>1, <2>3, <2>4, <2>5, WalkDoneCases
  <2> QED
    BY <2>1, <2>6 DEF Knows, Sets, Seeks
<1> QED
  BY <1>1, DiscoveryHolds, PTL DEF Spec, RetryTakesUp, Retries
=============================================================================
