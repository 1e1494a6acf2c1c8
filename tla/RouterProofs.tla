---------------------------- MODULE RouterProofs ----------------------------
(***************************************************************************)
(* Proofs about Router, for any server list and hints, any number of users *)
(* and destinations, and any timeouts.                                     *)
(***************************************************************************)
EXTENDS Router, FiniteSetTheorems, TLAPS

LoopAt == {"off", "sleep", "due", "run", "cancel", "bye", "after", "dead", "done"}
Loop   == [at: LoopAt, i: Nat, size: Nat]
Groups == SUBSET Client
Call   == [at: {"idle", "hints", "walk", "holds"}, dest: Key, trying: Groups,
           found: Groups, caches: BOOLEAN, again: BOOLEAN]

Distinct == \A i, j \in 1 .. Len(clients) : clients[i] = clients[j] => i = j

ConnTypes ==
  /\ task \in [Client -> {"none", "runs", "done"}]
  /\ pipe \in [Client -> BOOLEAN] /\ isClosed \in [Client -> BOOLEAN]

AgeTypes ==
  /\ lastSend \in [Client -> 0 .. Retry \cup {None}]
  /\ lastConnect \in [Client -> 0 .. Retry \cup {None}]

CallTypes ==
  /\ cache \in [Key -> Groups \cup {None}]
  /\ caller \in [Caller -> Call]
  /\ caller[S].at # "hints"
  /\ protected \subseteq Client

\* A loop that is in client.close() has a client.
LoopTypes ==
  /\ loop \in [closer: Loop, close: Loop]
  /\ loop.closer.at = "run" => loop.closer.i > 0
  /\ loop.closer.at \in {"cancel", "bye", "after"} => loop.closer.i \in 1 .. Len(clients)

Types == /\ clients \in Seq(Client) /\ Distinct
         /\ ConnTypes /\ AgeTypes /\ CallTypes /\ LoopTypes

\* What InboundKept rests on: before start() returns nothing is closed, and from
\* then on the idle closer is never in a client that is protected.
KeptInv ==
  loop.close.at = "off" =>
    /\ caller[S].at # "holds" => loop.closer.at = "off" /\ protected = {}
    /\ caller[S].at = "walk" => \A c \in caller[S].found : task[c] # "none"
    /\ loop.closer.at = "off" => \A c \in Client :
         ~isClosed[c] /\ task[c] # "done" /\ (task[c] # "none" => pipe[c])
    /\ loop.closer.at \in {"cancel", "bye", "after"} => Current("closer") \notin protected
    /\ \A c \in protected : task[c] = "runs" /\ pipe[c]

Released(c) == task[c] = "none" /\ ~pipe[c]

\* Every client that is connected to is in router.clients.
MembersInv ==
  /\ Seed \subseteq ToSet(clients)
  /\ \A u \in Caller : caller[u].trying \subseteq ToSet(clients)
  /\ \A c \in Client \ ToSet(clients) : Released(c)

\* What close() has behind it is released, and stays so.
CloseInv ==
  loop.close.at # "off" =>
    /\ \A u \in Caller : ~Busy(u)
    /\ loop.closer.at = "off" /\ loop.close.at \in {"run", "cancel", "bye", "after", "done"}
    /\ loop.close.at # "done" =>
         /\ loop.close.size = Len(clients)
         /\ loop.close.i \in 1 .. Len(clients) + 1
         /\ \A j \in 1 .. loop.close.i - 1 : Released(clients[j])
    /\ loop.close.at \in {"cancel", "bye", "after"} => loop.close.i <= Len(clients)
    /\ loop.close.at \in {"bye", "after"} => task[Current("close")] = "none"
    /\ loop.close.at = "after" => ~pipe[Current("close")]
    /\ CloseReleases

-----------------------------------------------------------------------------
(* The operators. *)

\* SetToSeq lists a finite set, each member once.
LEMMA SetToSeqFacts ==
  ASSUME NEW X, IsFiniteSet(X)
  PROVE  /\ SetToSeq(X) \in Seq(X) /\ ToSet(SetToSeq(X)) = X
         /\ \A i, j \in 1 .. Len(SetToSeq(X)) : SetToSeq(X)[i] = SetToSeq(X)[j] => i = j
<1> DEFINE n == Cardinality(X)
           q == SetToSeq(X)
<1>1. n \in Nat /\ ExistsBijection(1 .. n, X)
  BY FS_CardinalityType
<1>2. PICK f \in [1 .. n -> X] : IsInjective(f)
  BY <1>1 DEF ExistsBijection, Bijection, Injection
<1>3. q \in [1 .. n -> X] /\ IsInjective(q)
  BY <1>2 DEF SetToSeq
<1> HIDE DEF n, q
<1>4. q \in Seq(X) /\ Len(q) = n /\ DOMAIN q = 1 .. n
  BY <1>1, <1>3
<1>5. \A i, j \in 1 .. n : q[i] = q[j] => i = j
  BY <1>3, <1>4 DEF IsInjective
<1>6. q \in Injection(1 .. n, X) /\ Cardinality(1 .. n) = n
  BY <1>1, <1>3, FS_Interval DEF Injection
<1>7. q \in Surjection(1 .. n, X)
  BY <1>6, FS_Injection DEF n
<1>8. ToSet(q) = X
  BY <1>4, <1>7 DEF ToSet, Surjection
<1> QED
  BY <1>4, <1>5, <1>8 DEF q

\* Hints name brokers.
LEMMA InputFacts == Hints \subseteq SUBSET Client /\ UseCache \subseteq BOOLEAN
  BY RouterAssumption

\* There are finitely many brokers.
LEMMA ClientFinite == IsFiniteSet(Client)
  BY RouterAssumption, FS_Union DEF Client

\* ensure_client adds what is missing, behind what is there.
LEMMA EnsureFacts ==
  ASSUME clients \in Seq(Client), Distinct, NEW H \in SUBSET Client, clients' = Ensure(H)
  PROVE  /\ clients' \in Seq(Client) /\ Distinct'
         /\ Len(clients') >= Len(clients)
         /\ \A i \in 1 .. Len(clients) : clients'[i] = clients[i]
         /\ ToSet(clients') = ToSet(clients) \cup H
<1> DEFINE X == H \ ToSet(clients)
           q == SetToSeq(X)
<1>1. IsFiniteSet(X)
  BY ClientFinite, FS_Subset
<1>2. /\ q \in Seq(X) /\ ToSet(q) = X
      /\ \A i, j \in 1 .. Len(q) : q[i] = q[j] => i = j
  BY <1>1, SetToSeqFacts
<1>3. clients' = clients \o q
  BY DEF Ensure
<1> HIDE DEF q
<1>4. q \in Seq(Client) /\ Len(q) \in Nat /\ Len(clients) \in Nat
  BY <1>2
<1>5. /\ clients' \in Seq(Client) /\ Len(clients') = Len(clients) + Len(q)
      /\ \A i \in 1 .. Len(clients) : clients'[i] = clients[i]
      /\ \A i \in Len(clients) + 1 .. Len(clients) + Len(q) : clients'[i] = q[i - Len(clients)]
  BY <1>3, <1>4
<1>6. \A i \in 1 .. Len(q) : q[i] \in X /\ q[i] \notin ToSet(clients)
  BY <1>2
<1>7. \A i \in 1 .. Len(clients) : clients[i] \in ToSet(clients)
  BY DEF ToSet
<1>8. Distinct'
  <2> SUFFICES ASSUME NEW i \in 1 .. Len(clients'), NEW j \in 1 .. Len(clients'),
                      clients'[i] = clients'[j]
               PROVE  i = j
    BY DEF Distinct
  <2>1. CASE i <= Len(clients) /\ j <= Len(clients)
    <3>1. i \in 1 .. Len(clients) /\ j \in 1 .. Len(clients)
      BY <1>4, <1>5, <2>1
    <3> QED
      BY <1>5, <3>1 DEF Distinct
  <2>2. CASE i > Len(clients) /\ j > Len(clients)
    <3>1. /\ i - Len(clients) \in 1 .. Len(q) /\ j - Len(clients) \in 1 .. Len(q)
          /\ q[i - Len(clients)] = q[j - Len(clients)]
      BY <1>4, <1>5, <2>2
    <3>2. i - Len(clients) = j - Len(clients)
      BY <1>2, <3>1
    <3> QED
      BY <1>4, <1>5, <3>2
  <2>3. CASE i <= Len(clients) /\ j > Len(clients)
    <3>1. clients'[i] \in ToSet(clients)
      BY <1>4, <1>5, <1>7, <2>3
    <3>2. j \in Len(clients) + 1 .. Len(clients) + Len(q) /\ j - Len(clients) \in 1 .. Len(q)
      BY <1>4, <1>5, <2>3
    <3>3. clients'[j] = q[j - Len(clients)]
      BY <1>5, <3>2
    <3> QED
      BY <1>6, <3>1, <3>2, <3>3
  <2>4. CASE i > Len(clients) /\ j <= Len(clients)
    <3>1. clients'[j] \in ToSet(clients)
      BY <1>4, <1>5, <1>7, <2>4
    <3>2. i - Len(clients) \in 1 .. Len(q) /\ clients'[i] = q[i - Len(clients)]
      BY <1>4, <1>5, <2>4
    <3> QED
      BY <1>6, <3>1, <3>2
  <2> QED
    BY <1>4, <1>5, <2>1, <2>2, <2>3, <2>4
<1>9. ToSet(clients') = ToSet(clients) \cup H
  <2>1. ASSUME NEW c \in ToSet(clients') PROVE c \in ToSet(clients) \cup H
    <3>1. PICK i \in 1 .. Len(clients') : c = clients'[i]
      BY <1>5, <2>1 DEF ToSet
    <3>2. CASE i <= Len(clients)
      BY <1>4, <1>5, <1>7, <3>1, <3>2
    <3>3. CASE i > Len(clients)
      <4>1. i - Len(clients) \in 1 .. Len(q) /\ c = q[i - Len(clients)]
        BY <1>4, <1>5, <3>1, <3>3
      <4> QED
        BY <1>6, <4>1
    <3> QED
      BY <1>4, <1>5, <3>2, <3>3
  <2>2. ASSUME NEW c \in ToSet(clients) PROVE c \in ToSet(clients')
    <3>1. PICK i \in 1 .. Len(clients) : c = clients[i]
      BY <2>2 DEF ToSet
    <3>2. i \in 1 .. Len(clients') /\ clients'[i] = c
      BY <1>4, <1>5, <3>1
    <3> QED
      BY <1>5, <3>2 DEF ToSet
  <2>3. ASSUME NEW c \in X PROVE c \in ToSet(clients')
    <3>1. PICK i \in 1 .. Len(q) : c = q[i]
      BY <1>2, <2>3 DEF ToSet
    <3> DEFINE k == i + Len(clients)
    <3>2. /\ k \in Len(clients) + 1 .. Len(clients) + Len(q) /\ k - Len(clients) = i
          /\ k \in 1 .. Len(clients')
      BY <1>4, <1>5
    <3>3. clients'[k] = c
      BY <1>5, <3>1, <3>2
    <3> QED
      BY <1>5, <3>2, <3>3 DEF ToSet
  <2> QED
    BY <2>1, <2>2, <2>3
<1>10. Len(clients') >= Len(clients)
  BY <1>4, <1>5
<1> QED
  BY <1>5, <1>8, <1>9, <1>10

\* A walk begins with clients that have a dispatcher, and tries seeds.
LEMMA WalkFacts ==
  ASSUME Types, NEW u \in Caller, NEW r \in Call, BeginWalk(u, r)
  PROVE  \E w \in Call :
           /\ caller' = [caller EXCEPT ![u] = w]
           /\ w.at = "walk" /\ w.dest = r.dest /\ w.trying \subseteq Seed
           /\ \A c \in w.found : task[c] # "none"
<1> DEFINE ready == Ready(Seed)
           n == Least(Needed, Cardinality(ready))
<1>1. PICK K \in SUBSET ready :
        caller' = [caller EXCEPT ![u] =
          [r EXCEPT !.at = "walk", !.found = K,
                    !.trying = IF n = Needed THEN {} ELSE Missing(Seed)]]
  BY DEF BeginWalk
<1> DEFINE w == [r EXCEPT !.at = "walk", !.found = K,
                          !.trying = IF n = Needed THEN {} ELSE Missing(Seed)]
<1> HIDE DEF n
<1>2. w \in Call /\ w.at = "walk" /\ w.dest = r.dest /\ w.trying \subseteq Seed /\ w.found = K
  BY DEF Call, Groups, Missing, Ready, Client
<1>3. \A c \in K : task[c] # "none"
  BY DEF Ready
<1> QED
  BY <1>1, <1>2, <1>3

-----------------------------------------------------------------------------
(* Types. *)

\* A caller at rest, or holding a pipe, has the type of a caller.
LEMMA RestingFacts ==
  /\ Resting \in Call /\ Me \in Key /\ S \in Caller
  /\ \A C \in Groups : Holding(C) \in Call /\ Holding(C).at = "holds"
                              /\ Holding(C).trying = {} /\ Holding(C).found = C
<1>1. {} \in Groups
  BY DEF Groups
<1> QED
  BY <1>1 DEF Resting, Holding, Call, Key, Caller

\* A user of pipe() is not start().
LEMMA UserFacts == \A u \in User : u \in Caller /\ u # S
  BY RouterAssumption DEF Caller

\* The cache without the entries of a client is a cache.
LEMMA EvictedFacts ==
  ASSUME CallTypes, NEW C
  PROVE  Evicted(C) \in [Key -> Groups \cup {None}]
<1>1. \A k \in Key : cache[k] \in Groups \cup {None}
  BY DEF CallTypes
<1> QED
  BY <1>1 DEF Evicted

\* router.clients only grows, and only while no close() is under way.
Grown ==
  /\ clients' \in Seq(Client) /\ Distinct'
  /\ Len(clients') >= Len(clients)
  /\ \A i \in 1 .. Len(clients) : clients'[i] = clients[i]
  /\ ToSet(clients) \subseteq ToSet(clients')

\* A list that stays the same has not lost a client.
LEMMA ClientsKept ==
  ASSUME Types, UNCHANGED clients
  PROVE  Grown
<1>1. Len(clients') >= Len(clients)
  BY DEF Types
<1> QED
  BY <1>1 DEF Types, Grown, Distinct

\* router.clients is only ever appended to.
LEMMA ClientsStep ==
  ASSUME Types, [Next]_vars
  PROVE  Grown
<1>1. CASE Start
  BY <1>1, ClientsKept DEF Start
<1>2. ASSUME NEW u \in User, Send(u) PROVE Grown
  BY <1>2, ClientsKept DEF Send
<1>3. ASSUME NEW u \in User, LetGo(u) PROVE Grown
  BY <1>3, ClientsKept DEF LetGo
<1>4. ASSUME NEW u \in User, NEW d \in Dest, PipeCached(u, d) PROVE Grown
  BY <1>4, ClientsKept DEF PipeCached
<1>5. ASSUME NEW u \in User, NEW d \in Dest, NEW b \in BOOLEAN,
             PipeWalk(u, d, b)
      PROVE  Grown
  BY <1>5, ClientsKept DEF PipeWalk
<1>6. ASSUME NEW u \in User, NEW d \in Dest, NEW b \in BOOLEAN, NEW H \in SUBSET Client,
             PipeHints(u, d, H, b)
      PROVE  Grown
  <2>1. clients \in Seq(Client) /\ Distinct /\ clients' = Ensure(H)
    BY <1>6 DEF PipeHints, Types
  <2> QED
    BY <2>1, EnsureFacts DEF Grown
<1>7. ASSUME NEW u \in Caller, HintsDone(u) PROVE Grown
  BY <1>7, ClientsKept DEF HintsDone
<1>8. ASSUME NEW u \in Caller, WalkDone(u) PROVE Grown
  BY <1>8, ClientsKept DEF WalkDone
<1>9. ASSUME NEW u \in Caller, NEW c \in Client, TryOk(u, c) PROVE Grown
  BY <1>9, ClientsKept DEF TryOk
<1>10. ASSUME NEW u \in Caller, NEW c \in Client, TryFails(u, c) PROVE Grown
  BY <1>10, ClientsKept DEF TryFails
<1>11. CASE Wake
  BY <1>11, ClientsKept DEF Wake
<1>12. CASE Visit
  BY <1>12, ClientsKept DEF Visit
<1>13. CASE Reusable
  BY <1>13, ClientsKept DEF Reusable
<1>14. CASE PassDone
  BY <1>14, ClientsKept DEF PassDone
<1>15. ASSUME NEW l \in {"closer", "close"}, TaskGone(l) PROVE Grown
  BY <1>15, ClientsKept DEF TaskGone
<1>16. ASSUME NEW l \in {"closer", "close"}, PipeGone(l) PROVE Grown
  BY <1>16, ClientsKept DEF PipeGone
<1>17. ASSUME NEW l \in {"closer", "close"}, Fails(l) PROVE Grown
  BY <1>17, ClientsKept DEF Fails
<1>18. CASE Close
  BY <1>18, ClientsKept DEF Close
<1>19. CASE CloseNext
  BY <1>19, ClientsKept DEF CloseNext
<1>20. CASE Closed
  BY <1>20, ClientsKept DEF Closed
<1>21. CASE Tick
  BY <1>21, ClientsKept DEF Tick
<1>22. CASE UNCHANGED vars
  BY <1>22, ClientsKept DEF vars
<1>23. ASSUME NEW c \in Client, Acks(c) PROVE Grown
  BY <1>23, ClientsKept DEF Acks
<1> QED
  BY <1>1, <1>2, <1>3, <1>4, <1>5, <1>6, <1>7, <1>8, <1>9, <1>10, <1>11, <1>12,
     <1>13, <1>14, <1>15, <1>16, <1>17, <1>18, <1>19, <1>20, <1>21, <1>22, <1>23,
     InputFacts DEF Next, Connecting, IdleCloser, Closing

\* The state of the connections.
LEMMA ConnStep ==
  ASSUME Types, [Next]_vars
  PROVE  ConnTypes'
<1> USE  DEF Types, ConnTypes, conns
<1>1. CASE Start
  BY <1>1 DEF Start
<1>2. ASSUME NEW u \in User, Send(u) PROVE ConnTypes'
  BY <1>2 DEF Send
<1>3. ASSUME NEW u \in User, LetGo(u) PROVE ConnTypes'
  BY <1>3 DEF LetGo
<1>4. ASSUME NEW u \in User, NEW d \in Dest, PipeCached(u, d) PROVE ConnTypes'
  BY <1>4 DEF PipeCached
<1>5. ASSUME NEW u \in User, NEW d \in Dest, NEW b \in BOOLEAN,
             PipeWalk(u, d, b)
      PROVE  ConnTypes'
  BY <1>5 DEF PipeWalk
<1>6. ASSUME NEW u \in User, NEW d \in Dest, NEW b \in BOOLEAN, NEW H \in SUBSET Client,
             PipeHints(u, d, H, b)
      PROVE  ConnTypes'
  BY <1>6 DEF PipeHints
<1>7. ASSUME NEW u \in Caller, HintsDone(u) PROVE ConnTypes'
  BY <1>7 DEF HintsDone
<1>8. ASSUME NEW u \in Caller, WalkDone(u) PROVE ConnTypes'
  BY <1>8 DEF WalkDone
<1>9. ASSUME NEW u \in Caller, NEW c \in Client, TryOk(u, c) PROVE ConnTypes'
  BY <1>9 DEF TryOk
<1>10. ASSUME NEW u \in Caller, NEW c \in Client, TryFails(u, c) PROVE ConnTypes'
  BY <1>10 DEF TryFails
<1>11. CASE Wake
  BY <1>11 DEF Wake
<1>12. CASE Visit
  BY <1>12 DEF Visit, SetsClosed
<1>13. CASE Reusable
  BY <1>13 DEF Reusable
<1>14. CASE PassDone
  BY <1>14 DEF PassDone
<1>15. ASSUME NEW l \in {"closer", "close"}, TaskGone(l) PROVE ConnTypes'
  BY <1>15 DEF TaskGone, Current
<1>16. ASSUME NEW l \in {"closer", "close"}, PipeGone(l) PROVE ConnTypes'
  BY <1>16 DEF PipeGone, Current
<1>17. ASSUME NEW l \in {"closer", "close"}, Fails(l) PROVE ConnTypes'
  BY <1>17 DEF Fails
<1>18. CASE Close
  BY <1>18 DEF Close
<1>19. CASE CloseNext
  BY <1>19 DEF CloseNext, SetsClosed
<1>20. CASE Closed
  BY <1>20 DEF Closed
<1>21. CASE Tick
  BY <1>21 DEF Tick
<1>22. CASE UNCHANGED vars
  BY <1>22 DEF vars, conns
<1>23. ASSUME NEW c \in Client, Acks(c) PROVE ConnTypes'
  BY <1>23 DEF Acks
<1> QED
  BY <1>1, <1>2, <1>3, <1>4, <1>5, <1>6, <1>7, <1>8, <1>9, <1>10, <1>11, <1>12,
     <1>13, <1>14, <1>15, <1>16, <1>17, <1>18, <1>19, <1>20, <1>21, <1>22, <1>23,
     InputFacts DEF Next, Connecting, IdleCloser, Closing

\* Ages stay within their cap.
LEMMA AgeStep ==
  ASSUME Types, [Next]_vars
  PROVE  AgeTypes'
<1> USE RouterAssumption DEF Types, AgeTypes, conns
<1>1. CASE Start
  BY <1>1 DEF Start
<1>2. ASSUME NEW u \in User, Send(u) PROVE AgeTypes'
  BY <1>2 DEF Send
<1>3. ASSUME NEW u \in User, LetGo(u) PROVE AgeTypes'
  BY <1>3 DEF LetGo
<1>4. ASSUME NEW u \in User, NEW d \in Dest, PipeCached(u, d) PROVE AgeTypes'
  BY <1>4 DEF PipeCached
<1>5. ASSUME NEW u \in User, NEW d \in Dest, NEW b \in BOOLEAN,
             PipeWalk(u, d, b)
      PROVE  AgeTypes'
  BY <1>5 DEF PipeWalk
<1>6. ASSUME NEW u \in User, NEW d \in Dest, NEW b \in BOOLEAN, NEW H \in SUBSET Client,
             PipeHints(u, d, H, b)
      PROVE  AgeTypes'
  BY <1>6 DEF PipeHints
<1>7. ASSUME NEW u \in Caller, HintsDone(u) PROVE AgeTypes'
  BY <1>7 DEF HintsDone
<1>8. ASSUME NEW u \in Caller, WalkDone(u) PROVE AgeTypes'
  BY <1>8 DEF WalkDone
<1>9. ASSUME NEW u \in Caller, NEW c \in Client, TryOk(u, c) PROVE AgeTypes'
  BY <1>9 DEF TryOk
<1>10. ASSUME NEW u \in Caller, NEW c \in Client, TryFails(u, c) PROVE AgeTypes'
  BY <1>10 DEF TryFails
<1>11. CASE Wake
  BY <1>11 DEF Wake
<1>12. CASE Visit
  <2> DEFINE c == Current("closer")
             active == IF lastSend[c] = None THEN Baseline(c) ELSE lastSend[c]
  <2>1. c \in Client => active \in 0 .. Retry \cup {None}
    BY DEF Baseline
  <2>2. lastSend' = lastSend \/ lastSend' = [lastSend EXCEPT ![c] = active]
    BY <1>12 DEF Visit
  <2>3. lastConnect' = lastConnect
    BY <1>12 DEF Visit
  <2> HIDE DEF c, active
  <2>4. lastSend' \in [Client -> 0 .. Retry \cup {None}]
    BY <2>1, <2>2
  <2> QED
    BY <2>3, <2>4
<1>13. CASE Reusable
  BY <1>13 DEF Reusable
<1>14. CASE PassDone
  BY <1>14 DEF PassDone
<1>15. ASSUME NEW l \in {"closer", "close"}, TaskGone(l) PROVE AgeTypes'
  BY <1>15 DEF TaskGone
<1>16. ASSUME NEW l \in {"closer", "close"}, PipeGone(l) PROVE AgeTypes'
  BY <1>16 DEF PipeGone
<1>17. ASSUME NEW l \in {"closer", "close"}, Fails(l) PROVE AgeTypes'
  BY <1>17 DEF Fails
<1>18. CASE Close
  BY <1>18 DEF Close
<1>19. CASE CloseNext
  BY <1>19 DEF CloseNext
<1>20. CASE Closed
  BY <1>20 DEF Closed
<1>21. CASE Tick
  BY <1>21 DEF Tick, Older
<1>22. CASE UNCHANGED vars
  BY <1>22 DEF vars, conns
<1>23. ASSUME NEW c \in Client, Acks(c) PROVE AgeTypes'
  BY <1>23 DEF Acks
<1> QED
  BY <1>1, <1>2, <1>3, <1>4, <1>5, <1>6, <1>7, <1>8, <1>9, <1>10, <1>11, <1>12,
     <1>13, <1>14, <1>15, <1>16, <1>17, <1>18, <1>19, <1>20, <1>21, <1>22, <1>23,
     InputFacts DEF Next, Connecting, IdleCloser, Closing

\* Calls, the cache and what is protected.
LEMMA CallStep ==
  ASSUME Types, [Next]_vars
  PROVE  CallTypes'
<1> USE  DEF CallTypes, conns
<1>1. CASE Start
  <2>1. PICK w \in Call : caller' = [caller EXCEPT ![S] = w] /\ w.at = "walk"
    BY <1>1, WalkFacts, RestingFacts DEF Start
  <2> QED
    BY <1>1, <2>1 DEF Start, Types
<1>2. ASSUME NEW u \in User, Send(u) PROVE CallTypes'
  BY <1>2 DEF Send, Types
<1>3. ASSUME NEW u \in User, LetGo(u) PROVE CallTypes'
  <2>1. cache' \in [Key -> Groups \cup {None}]
    BY <1>3, EvictedFacts DEF LetGo, Types
  <2> QED
    BY <1>3, <2>1, RestingFacts, UserFacts DEF LetGo, Types
<1>4. ASSUME NEW u \in User, NEW d \in Dest, PipeCached(u, d) PROVE CallTypes'
  <2>1. cache[d] \in Groups
    BY <1>4 DEF PipeCached, Types, Key
  <2>2. Holding(cache[d]) \in Call
    BY <2>1, RestingFacts
  <2> QED
    BY <1>4, <2>2, UserFacts DEF PipeCached, Types
<1>5. ASSUME NEW u \in User, NEW d \in Dest, NEW b \in BOOLEAN,
             PipeWalk(u, d, b)
      PROVE  CallTypes'
  <2>1. [Resting EXCEPT !.dest = d, !.caches = b] \in Call /\ u \in Caller
    BY RestingFacts DEF Resting, Call, Key, Caller
  <2>2. PICK w \in Call : caller' = [caller EXCEPT ![u] = w] /\ w.at = "walk"
    BY <1>5, <2>1, WalkFacts DEF PipeWalk
  <2> QED
    BY <1>5, <2>2, UserFacts DEF PipeWalk, Types
<1>6. ASSUME NEW u \in User, NEW d \in Dest, NEW b \in BOOLEAN, NEW H \in SUBSET Client,
             PipeHints(u, d, H, b)
      PROVE  CallTypes'
  <2>1. [Resting EXCEPT !.at = "hints", !.dest = d, !.found = Ready(H),
                        !.trying = Missing(H), !.caches = b] \in Call
    BY DEF Resting, Call, Groups, Key, Ready, Missing
  <2> QED
    BY <1>6, <2>1, UserFacts DEF PipeHints, Types
<1>7. ASSUME NEW u \in Caller, HintsDone(u) PROVE CallTypes'
  <2>1. caller[u] \in Call /\ u # S
    BY <1>7 DEF HintsDone, Types
  <2>2. CASE PipeReturns(u)
    BY <1>7, <2>1, <2>2, RestingFacts DEF HintsDone, PipeReturns, Types, Call
  <2>3. CASE BeginWalk(u, caller[u]) /\ UNCHANGED <<cache, loop, protected>>
    <3>1. PICK w \in Call : caller' = [caller EXCEPT ![u] = w] /\ w.at = "walk"
      BY <2>1, <2>3, WalkFacts
    <3> QED
      BY <2>1, <2>3, <3>1 DEF Types
  <2> QED
    BY <1>7, <2>2, <2>3 DEF HintsDone
<1>8. ASSUME NEW u \in Caller, WalkDone(u) PROVE CallTypes'
  <2>1. caller[u] \in Call
    BY DEF Types
  <2>2. CASE u = S /\ StartReturns
    BY <2>1, <2>2, RestingFacts DEF StartReturns, Types, Call, Groups
  <2>3. CASE u # S /\ PipeReturns(u)
    BY <2>1, <2>3, RestingFacts DEF PipeReturns, Types, Call
  <2>4. CASE /\ BeginWalk(u, [caller[u] EXCEPT !.again = TRUE])
             /\ UNCHANGED <<cache, loop, protected>>
    <3>1. [caller[u] EXCEPT !.again = TRUE] \in Call
      BY <2>1 DEF Call
    <3>2. PICK w \in Call : caller' = [caller EXCEPT ![u] = w] /\ w.at = "walk"
      BY <2>4, <3>1, WalkFacts
    <3> QED
      BY <2>4, <3>2 DEF Types
  <2> QED
    BY <1>8, <2>2, <2>3, <2>4 DEF WalkDone
<1>9. ASSUME NEW u \in Caller, NEW c \in Client, TryOk(u, c) PROVE CallTypes'
  <2> DEFINE w == [caller[u] EXCEPT !.trying = @ \ {c}, !.found = @ \cup {c}]
  <2>1. w \in Call /\ w.at = caller[u].at
    BY DEF Types, Call, Groups
  <2>2. caller' = [caller EXCEPT ![u] = w]
    BY <1>9 DEF TryOk, Types
  <2> HIDE DEF w
  <2>3. caller' \in [Caller -> Call] /\ caller'[S].at # "hints"
    BY <2>1, <2>2, RestingFacts DEF Types
  <2> QED
    BY <1>9, <2>3 DEF TryOk, Types
<1>10. ASSUME NEW u \in Caller, NEW c \in Client, TryFails(u, c) PROVE CallTypes'
  <2> DEFINE w == [caller[u] EXCEPT !.trying = @ \ {c}]
  <2>1. w \in Call /\ w.at = caller[u].at
    BY DEF Types, Call, Groups
  <2>2. caller' = [caller EXCEPT ![u] = w]
    BY <1>10 DEF TryFails, Types
  <2> HIDE DEF w
  <2>3. caller' \in [Caller -> Call] /\ caller'[S].at # "hints"
    BY <2>1, <2>2, RestingFacts DEF Types
  <2> QED
    BY <1>10, <2>3 DEF TryFails, Types
<1>11. CASE Wake
  BY <1>11 DEF Wake, Types
<1>12. CASE Visit
  BY <1>12 DEF Visit, Types
<1>13. CASE Reusable
  <2>1. cache' \in [Key -> Groups \cup {None}]
    BY <1>13, EvictedFacts DEF Reusable, Types
  <2> QED
    BY <1>13, <2>1 DEF Reusable, Types
<1>14. CASE PassDone
  BY <1>14 DEF PassDone, Types
<1>15. ASSUME NEW l \in {"closer", "close"}, TaskGone(l) PROVE CallTypes'
  BY <1>15 DEF TaskGone, Types
<1>16. ASSUME NEW l \in {"closer", "close"}, PipeGone(l) PROVE CallTypes'
  BY <1>16 DEF PipeGone, Types
<1>17. ASSUME NEW l \in {"closer", "close"}, Fails(l) PROVE CallTypes'
  BY <1>17 DEF Fails, Types
<1>18. CASE Close
  BY <1>18 DEF Close, Types
<1>19. CASE CloseNext
  BY <1>19 DEF CloseNext, Types
<1>20. CASE Closed
  BY <1>20 DEF Closed, Types
<1>21. CASE Tick
  BY <1>21 DEF Tick, Types
<1>22. CASE UNCHANGED vars
  BY <1>22 DEF vars, Types
<1>23. ASSUME NEW c \in Client, Acks(c) PROVE CallTypes'
  BY <1>23 DEF Acks, Types
<1> QED
  BY <1>1, <1>2, <1>3, <1>4, <1>5, <1>6, <1>7, <1>8, <1>9, <1>10, <1>11, <1>12,
     <1>13, <1>14, <1>15, <1>16, <1>17, <1>18, <1>19, <1>20, <1>21, <1>22, <1>23,
     InputFacts DEF Next, Connecting, IdleCloser, Closing

\* A loop over the clients that goes on is at the next one.
LEMMA LoopNext ==
  ASSUME NEW r \in Loop
  PROVE  LET n == [r EXCEPT !.at = "run", !.i = @ + 1]
         IN n \in Loop /\ n.at = "run" /\ n.i > 0 /\ n.i = r.i + 1 /\ n.size = r.size
<1>1. r.i + 1 \in Nat /\ r.i + 1 > 0
  BY DEF Loop
<1> QED
  BY <1>1 DEF Loop, LoopAt

\* The number of clients is a number.
LEMMA ClientsLen == Types => Len(clients) \in Nat
  BY DEF Types

\* A loop that rests is still within the list, which may have grown.
LEMMA LoopKept ==
  ASSUME Types, UNCHANGED loop, UNCHANGED clients \/ Grown
  PROVE  LoopTypes'
<1>1. Len(clients') >= Len(clients) /\ Len(clients) \in Nat /\ Len(clients') \in Nat
  BY ClientsKept, ClientsLen DEF Grown
<1>2. loop.closer.i \in Nat
  BY DEF Types, LoopTypes, Loop
<1> QED
  BY <1>1, <1>2 DEF Types, LoopTypes

\* The loops over router.clients.
LEMMA LoopStep ==
  ASSUME Types, [Next]_vars
  PROVE  LoopTypes'
<1>1. CASE Start
  BY <1>1, LoopKept DEF Start
<1>2. ASSUME NEW u \in User, Send(u) PROVE LoopTypes'
  BY <1>2, LoopKept DEF Send
<1>3. ASSUME NEW u \in User, LetGo(u) PROVE LoopTypes'
  BY <1>3, LoopKept DEF LetGo
<1>4. ASSUME NEW u \in User, NEW d \in Dest, PipeCached(u, d) PROVE LoopTypes'
  BY <1>4, LoopKept DEF PipeCached
<1>5. ASSUME NEW u \in User, NEW d \in Dest, NEW b \in BOOLEAN,
             PipeWalk(u, d, b)
      PROVE  LoopTypes'
  BY <1>5, LoopKept DEF PipeWalk
<1>6. ASSUME NEW u \in User, NEW d \in Dest, NEW b \in BOOLEAN, NEW H \in SUBSET Client,
             PipeHints(u, d, H, b)
      PROVE  LoopTypes'
  <2>1. Grown /\ UNCHANGED loop
    BY <1>6, ClientsStep DEF PipeHints, Next
  <2> QED
    BY <2>1, LoopKept
<1>7. ASSUME NEW u \in Caller, HintsDone(u) PROVE LoopTypes'
  BY <1>7, LoopKept DEF HintsDone, PipeReturns
<1>8. ASSUME NEW u \in Caller, WalkDone(u) PROVE LoopTypes'
  <2>1. UNCHANGED loop \/ StartReturns
    BY <1>8 DEF WalkDone, PipeReturns
  <2>2. CASE StartReturns
    BY <1>8, <2>2 DEF WalkDone, StartReturns, Types, LoopTypes, Loop, LoopAt
  <2> QED
    BY <1>8, <2>1, <2>2, LoopKept DEF WalkDone
<1>9. ASSUME NEW u \in Caller, NEW c \in Client, TryOk(u, c) PROVE LoopTypes'
  BY <1>9, LoopKept DEF TryOk
<1>10. ASSUME NEW u \in Caller, NEW c \in Client, TryFails(u, c) PROVE LoopTypes'
  BY <1>10, LoopKept DEF TryFails
<1>11. CASE Wake
  BY <1>11, ClientsLen DEF Wake, Types, LoopTypes, Loop, LoopAt, Off
<1>12. CASE Visit
  BY <1>12, ClientsLen DEF Visit, Types, LoopTypes, Loop, LoopAt, Off, SetsClosed
<1>13. CASE Reusable
  <2> DEFINE n == [loop.closer EXCEPT !.at = "run", !.i = @ + 1]
  <2>1. n \in Loop /\ n.at = "run" /\ n.i > 0
    BY LoopNext DEF Types, LoopTypes
  <2>2. loop' = [loop EXCEPT !.closer = n]
    BY <1>13 DEF Reusable, Types, LoopTypes
  <2> HIDE DEF n
  <2> QED
    BY <1>13, <2>1, <2>2 DEF Reusable, Types, LoopTypes
<1>14. CASE PassDone
  BY <1>14, ClientsLen DEF PassDone, Types, LoopTypes, Loop, LoopAt, Off
<1>15. ASSUME NEW l \in {"closer", "close"}, TaskGone(l) PROVE LoopTypes'
  BY <1>15, ClientsLen DEF TaskGone, Types, LoopTypes, Loop, LoopAt, Off
<1>16. ASSUME NEW l \in {"closer", "close"}, PipeGone(l) PROVE LoopTypes'
  BY <1>16, ClientsLen DEF PipeGone, Types, LoopTypes, Loop, LoopAt, Off
<1>17. ASSUME NEW l \in {"closer", "close"}, Fails(l) PROVE LoopTypes'
  BY <1>17, ClientsLen DEF Fails, Types, LoopTypes, Loop, LoopAt, Off
<1>18. CASE Close
  BY <1>18, ClientsLen DEF Close, Types, LoopTypes, Loop, LoopAt, Off
<1>19. CASE CloseNext
  <2>1. PICK n \in Loop : loop' = [loop EXCEPT !.close = n]
    <3>1. [Off EXCEPT !.at = "done"] \in Loop /\ [loop.close EXCEPT !.at = "cancel"] \in Loop
      BY DEF Off, Types, LoopTypes, Loop, LoopAt
    <3> QED
      BY <1>19, <3>1 DEF CloseNext, SetsClosed, Types, LoopTypes
  <2> QED
    BY <1>19, <2>1 DEF CloseNext, Types, LoopTypes
<1>20. CASE Closed
  <2> DEFINE n == [loop.close EXCEPT !.at = "run", !.i = @ + 1]
  <2>1. n \in Loop /\ n.at = "run" /\ n.i > 0
    BY LoopNext DEF Types, LoopTypes
  <2>2. loop' = [loop EXCEPT !.close = n]
    BY <1>20 DEF Closed, Types, LoopTypes
  <2> HIDE DEF n
  <2> QED
    BY <1>20, <2>1, <2>2 DEF Closed, Types, LoopTypes
<1>21. CASE Tick
  BY <1>21, ClientsLen DEF Tick, Types, LoopTypes, Loop, LoopAt, Off
<1>22. CASE UNCHANGED vars
  BY <1>22, LoopKept DEF vars
<1>23. ASSUME NEW c \in Client, Acks(c) PROVE LoopTypes'
  BY <1>23, LoopKept DEF Acks
<1> QED
  BY <1>1, <1>2, <1>3, <1>4, <1>5, <1>6, <1>7, <1>8, <1>9, <1>10, <1>11, <1>12,
     <1>13, <1>14, <1>15, <1>16, <1>17, <1>18, <1>19, <1>20, <1>21, <1>22, <1>23,
     InputFacts DEF Next, Connecting, IdleCloser, Closing

\* Every step keeps the types.
LEMMA TypesStep ==
  ASSUME Types, [Next]_vars
  PROVE  Types'
<1>1. clients' \in Seq(Client) /\ Distinct'
  BY ClientsStep DEF Grown
<1> QED
  BY <1>1, ConnStep, AgeStep, CallStep, LoopStep DEF Types

-----------------------------------------------------------------------------
(* The inbound group. *)

\* How a call that waited for its connects goes on.
WalksOn(u) ==
  /\ UNCHANGED <<cache, loop, protected>>
  /\ \E w \in Call : /\ caller' = [caller EXCEPT ![u] = w]
                     /\ w.at = "walk" /\ w.trying \subseteq Seed
                     /\ \A c \in w.found : task[c] # "none"

\* When the hints have been tried the call returns a pipe or walks.
LEMMA HintsDoneCases ==
  ASSUME Types, NEW u \in Caller, HintsDone(u)
  PROVE  /\ u # S /\ UNCHANGED <<clients, conns>> /\ LoopFree
         /\ PipeReturns(u) \/ WalksOn(u)
<1>1. u # S /\ caller[u] \in Call
  BY DEF HintsDone, Types, CallTypes
<1>2. CASE caller[u].found # {}
  BY <1>1, <1>2 DEF HintsDone
<1>3. CASE caller[u].found = {}
  BY <1>1, <1>3, WalkFacts DEF HintsDone, WalksOn
<1> QED
  BY <1>2, <1>3

\* A walk that ends is repeated or returns, to start() or to a user.
LEMMA WalkDoneCases ==
  ASSUME Types, NEW u \in Caller, WalkDone(u)
  PROVE  /\ UNCHANGED <<clients, conns>> /\ LoopFree /\ caller[u].at = "walk"
         /\ WalksOn(u) \/ (u = S /\ StartReturns) \/ (u # S /\ PipeReturns(u))
<1>1. caller[u] \in Call /\ [caller[u] EXCEPT !.again = TRUE] \in Call
  BY DEF Types, CallTypes, Call
<1>2. CASE caller[u].found = {} /\ ~caller[u].again
  BY <1>1, <1>2, WalkFacts DEF WalkDone, WalksOn
<1>3. CASE ~(caller[u].found = {} /\ ~caller[u].again)
  BY <1>3 DEF WalkDone
<1> QED
  BY <1>2, <1>3

\* No step closes what start() has found.
LEMMA KeptStep ==
  ASSUME Types, KeptInv, [Next]_vars
  PROVE  KeptInv'
<1> USE  DEF Types, ConnTypes, CallTypes, LoopTypes, KeptInv, Current, conns
<1>1. CASE Start
  <2>1. PICK w \in Call : /\ caller' = [caller EXCEPT ![S] = w] /\ w.at = "walk"
                          /\ \A c \in w.found : task[c] # "none"
    BY <1>1, WalkFacts, RestingFacts DEF Start
  <2> QED
    BY <1>1, <2>1, RestingFacts DEF Start
<1>2. ASSUME NEW u \in User, Send(u) PROVE KeptInv'
  BY <1>2, UserFacts, RestingFacts DEF Send
<1>3. ASSUME NEW u \in User, LetGo(u) PROVE KeptInv'
  BY <1>3, UserFacts, RestingFacts DEF LetGo
<1>4. ASSUME NEW u \in User, NEW d \in Dest, PipeCached(u, d) PROVE KeptInv'
  BY <1>4, UserFacts, RestingFacts DEF PipeCached
<1>5. ASSUME NEW u \in User, NEW d \in Dest, NEW b \in BOOLEAN,
             PipeWalk(u, d, b)
      PROVE  KeptInv'
  <2>1. caller'[S] = caller[S]
    BY <1>5, UserFacts DEF PipeWalk, BeginWalk
  <2> QED
    BY <1>5, <2>1 DEF PipeWalk
<1>6. ASSUME NEW u \in User, NEW d \in Dest, NEW b \in BOOLEAN, NEW H \in SUBSET Client,
             PipeHints(u, d, H, b)
      PROVE  KeptInv'
  BY <1>6, UserFacts, RestingFacts, ClientsStep, ClientsLen DEF PipeHints, Grown
<1>7. ASSUME NEW u \in Caller, HintsDone(u) PROVE KeptInv'
  <2>1. caller'[S] = caller[S] /\ UNCHANGED <<loop, protected, conns, clients>>
    BY <1>7, HintsDoneCases, RestingFacts DEF PipeReturns, WalksOn
  <2> QED
    BY <2>1
<1>8. ASSUME NEW u \in Caller, WalkDone(u) PROVE KeptInv'
  <2>1. CASE u # S
    <3>1. caller'[S] = caller[S] /\ UNCHANGED <<loop, protected, conns, clients>>
      BY <1>8, <2>1, WalkDoneCases, RestingFacts DEF PipeReturns, WalksOn
    <3> QED
      BY <3>1
  <2>2. CASE u = S /\ StartReturns
    <3>1. caller'[S] = Holding({}) /\ caller'[S].at = "holds"
      BY <2>2, RestingFacts DEF StartReturns, Groups
    <3>2. /\ loop'.close = loop.close /\ loop'.closer.at \in {"sleep", loop.closer.at}
          /\ loop'.closer.i = loop.closer.i /\ loop'.closer.at # "off"
      BY <2>2 DEF StartReturns, Loop
    <3>3. caller[S].at = "walk" /\ UNCHANGED <<clients, conns>>
      BY <1>8, <2>2, WalkDoneCases
    <3>4. protected' = protected \cup caller[S].found /\ caller[S].found \subseteq Client
      BY <2>2, RestingFacts DEF StartReturns, Call, Groups
    <3> HIDE DEF KeptInv
    <3> SUFFICES ASSUME loop.close.at = "off" PROVE KeptInv'
      BY <3>2 DEF KeptInv
    <3>5. /\ loop.closer.at = "off" /\ protected = {}
          /\ \A c \in caller[S].found : task[c] = "runs" /\ pipe[c]
      BY <3>3, <3>4 DEF KeptInv
    <3> QED
      BY <3>1, <3>2, <3>3, <3>4, <3>5 DEF KeptInv
  <2>3. CASE u = S /\ WalksOn(S)
    <3>1. PICK w \in Call : /\ caller' = [caller EXCEPT ![S] = w] /\ w.at = "walk"
                            /\ \A c \in w.found : task[c] # "none"
      BY <2>3 DEF WalksOn
    <3>2. caller'[S] = w /\ caller[S].at = "walk" /\ UNCHANGED <<clients, conns, loop, protected>>
      BY <1>8, <2>3, <3>1, WalkDoneCases, RestingFacts DEF WalksOn
    <3> QED
      BY <3>1, <3>2
  <2> QED
    BY <1>8, <2>1, <2>2, <2>3, WalkDoneCases
<1>9. ASSUME NEW u \in Caller, NEW c \in Client, TryOk(u, c) PROVE KeptInv'
  <2>1. caller'[S].at = caller[S].at /\ caller'[S].found \subseteq caller[S].found \cup {c}
    BY <1>9, RestingFacts DEF TryOk, Call
  <2>2. /\ task' = [task EXCEPT ![c] = IF @ # "none" THEN @
                                      ELSE IF isClosed[c] THEN "done" ELSE "runs"]
        /\ pipe' = [pipe EXCEPT ![c] = TRUE]
        /\ UNCHANGED <<clients, isClosed, loop, protected>>
    BY <1>9 DEF TryOk
  <2>3. \A d \in Client : /\ task[d] # "none" => task'[d] = task[d]
                          /\ pipe[d] => pipe'[d]
                          /\ task'[c] # "none" /\ pipe'[c]
                          /\ d # c => task'[d] = task[d]
                          /\ ~isClosed[c] /\ task[c] # "done" => task'[c] = "runs"
    BY <2>2
  <2> QED
    BY <2>1, <2>2, <2>3 DEF Call, Groups
<1>10. ASSUME NEW u \in Caller, NEW c \in Client, TryFails(u, c) PROVE KeptInv'
  BY <1>10 DEF TryFails
<1>11. CASE Wake
  BY <1>11 DEF Wake, Loop
<1>12. CASE Visit
  <2> DEFINE c == Current("closer")
  <2>1. /\ loop'.close = loop.close /\ loop'.closer.i \in Nat
        /\ UNCHANGED <<clients, task, pipe, caller, protected>>
        /\ loop.closer.at = "run" /\ loop'.closer.at \in {"run", "cancel"}
    BY <1>12 DEF Visit, SetsClosed, Loop
  <2>2. loop'.closer.at = "cancel" => loop'.closer.i = loop.closer.i /\ c \notin protected
    BY <1>12 DEF Visit, SetsClosed, Loop
  <2> QED
    BY <2>1, <2>2
<1>13. CASE Reusable
  <2>1. loop'.close = loop.close /\ loop'.closer.at = "run"
    BY <1>13 DEF Reusable, Loop
  <2> QED
    BY <1>13, <2>1 DEF Reusable
<1>14. CASE PassDone
  BY <1>14 DEF PassDone, Off
<1>15. ASSUME NEW l \in {"closer", "close"}, TaskGone(l) PROVE KeptInv'
  BY <1>15 DEF TaskGone
<1>16. ASSUME NEW l \in {"closer", "close"}, PipeGone(l) PROVE KeptInv'
  BY <1>16 DEF PipeGone
<1>17. ASSUME NEW l \in {"closer", "close"}, Fails(l) PROVE KeptInv'
  BY <1>17 DEF Fails, Off
<1>18. CASE Close
  BY <1>18 DEF Close
<1>19. CASE CloseNext
  <2>1. loop'.close.at # "off"
    BY <1>19 DEF CloseNext, SetsClosed, Off, Loop
  <2> QED
    BY <2>1
<1>20. CASE Closed
  <2>1. loop'.close.at # "off"
    BY <1>20 DEF Closed, Loop
  <2> QED
    BY <2>1
<1>21. CASE Tick
  <2>1. /\ loop'.close = loop.close /\ loop'.closer.at \in {"off", "due", "dead"}
        /\ loop'.closer.at = "off" <=> loop.closer.at = "off"
    BY <1>21 DEF Tick, Loop
  <2> QED
    BY <1>21, <2>1 DEF Tick
<1>22. CASE UNCHANGED vars
  BY <1>22 DEF vars, conns
<1>23. ASSUME NEW c \in Client, Acks(c) PROVE KeptInv'
  BY <1>23, UserFacts, RestingFacts DEF Acks
<1> QED
  BY <1>1, <1>2, <1>3, <1>4, <1>5, <1>6, <1>7, <1>8, <1>9, <1>10, <1>11, <1>12,
     <1>13, <1>14, <1>15, <1>16, <1>17, <1>18, <1>19, <1>20, <1>21, <1>22, <1>23,
     InputFacts DEF Next, Connecting, IdleCloser, Closing

\* A new router is in order.
LEMMA TypesInit == Init => Types /\ KeptInv /\ MembersInv /\ CloseInv
<1> SUFFICES ASSUME Init PROVE Types /\ KeptInv /\ MembersInv /\ CloseInv
  OBVIOUS
<1>1. /\ clients \in Seq(Seed) /\ ToSet(clients) = Seed
      /\ \A i, j \in 1 .. Len(clients) : clients[i] = clients[j] => i = j
  BY SetToSeqFacts, RouterAssumption DEF Init
<1>2. clients \in Seq(Client) /\ Distinct
  BY <1>1 DEF Client, Distinct
<1>3. ConnTypes /\ AgeTypes
  BY DEF Init, ConnTypes, AgeTypes
<1>4. Resting.at = "idle" /\ Resting.trying = {}
  BY DEF Resting
<1>5. CallTypes
  BY <1>4, RestingFacts DEF Init, CallTypes
<1>6. LoopTypes
  BY DEF Init, LoopTypes, Off, Loop, LoopAt
<1>7. loop.close.at = "off" /\ loop.closer.at = "off" /\ caller[S].at = "idle"
  BY <1>4, RestingFacts DEF Init, Off
<1>8. KeptInv
  BY <1>7 DEF Init, KeptInv
<1>9. MembersInv
  BY <1>1, <1>4 DEF Init, MembersInv, Released
<1>10. CloseInv
  BY <1>7 DEF CloseInv
<1> QED
  BY <1>2, <1>3, <1>5, <1>6, <1>8, <1>9, <1>10 DEF Types

\* A list without repetition is as long as the set of what is in it.
LEMMA TypesImplyTypeOK == Types => TypeOK
<1> SUFFICES ASSUME Types PROVE TypeOK
  OBVIOUS
<1>1. Len(clients) \in Nat /\ clients \in [1 .. Len(clients) -> ToSet(clients)]
  BY DEF Types, ToSet
<1>2. clients \in Injection(1 .. Len(clients), ToSet(clients))
  BY <1>1 DEF Types, Distinct, Injection, IsInjective
<1>3. clients \in Surjection(1 .. Len(clients), ToSet(clients))
  BY <1>1 DEF Surjection, ToSet
<1>4. ExistsBijection(1 .. Len(clients), ToSet(clients))
  BY <1>2, <1>3 DEF Bijection, ExistsBijection
<1>5. Len(clients) = Cardinality(ToSet(clients))
  <2>1. IsFiniteSet(1 .. Len(clients)) /\ Cardinality(1 .. Len(clients)) = Len(clients)
    BY <1>1, FS_Interval
  <2> QED
    BY <1>4, <2>1, FS_Bijection
<1>6. ToSet(clients) \subseteq Client
  BY DEF Types, ToSet
<1>7. \A u \in Caller : caller[u] \in Call
  BY DEF Types, CallTypes
<1>8. \A k \in Key : cache[k] = None \/ cache[k] \subseteq Client
  BY DEF Types, CallTypes, Groups
<1>9. \A l \in DOMAIN loop : loop[l].at \in LoopAt
  BY DEF Types, LoopTypes, Loop
<1>10. \A u \in Caller : /\ caller[u].at \in {"idle", "hints", "walk", "holds"}
                         /\ caller[u].dest \in Key
                         /\ caller[u].trying \subseteq Client /\ caller[u].found \subseteq Client
  BY <1>7 DEF Call, Groups
<1> QED
  BY <1>5, <1>6, <1>8, <1>9, <1>10 DEF Types, ConnTypes, AgeTypes, CallTypes, TypeOK, LoopAt

\* The types hold of every run.
LEMMA TypesHold == Spec => []Types
<1>1. Init => Types
  BY TypesInit
<1> QED
  BY <1>1, TypesStep, PTL DEF Spec

\* router.clients lists each client once, whatever hints name, and everything
\* else has its type.
THEOREM TypeCorrect == Spec => []TypeOK
  BY TypesHold, TypesImplyTypeOK, PTL

\* The clients that start() found keep their dispatcher and their pipe until
\* close(), even when close() may be called while pipe() is under way.
THEOREM InboundStaysOpen == Spec => []InboundKept
<1>1. Init => KeptInv
  BY TypesInit
<1>2. KeptInv => InboundKept
  BY DEF KeptInv, InboundKept
<1> QED
  BY <1>1, <1>2, KeptStep, TypesHold, PTL DEF Spec

-----------------------------------------------------------------------------
(* The cache. *)

Served(c) == task[c] # "none" \/ BeingClosed(c)

\* Only the end of its close, and close(), takes its dispatcher from a client.
ServedOn ==
  loop'.close.at = "off" => \A c \in Client : Served(c) => Served(c)'

\* No step but the last of an idle close leaves a client without its dispatcher.
LEMMA ServedStep ==
  ASSUME Types, [Next]_vars, ~Reusable
  PROVE  ServedOn
<1>1. CASE Start
  BY <1>1 DEF Start, ServedOn, Served, BeingClosed, Current, conns
<1>2. ASSUME NEW u \in User, Send(u) PROVE ServedOn
  BY <1>2 DEF Send, ServedOn, Served, BeingClosed, Current, conns
<1>3. ASSUME NEW u \in User, LetGo(u) PROVE ServedOn
  BY <1>3 DEF LetGo, ServedOn, Served, BeingClosed, Current, conns
<1>4. ASSUME NEW u \in User, NEW d \in Dest, PipeCached(u, d) PROVE ServedOn
  BY <1>4 DEF PipeCached, ServedOn, Served, BeingClosed, Current, conns
<1>5. ASSUME NEW u \in User, NEW d \in Dest, NEW b \in BOOLEAN,
             PipeWalk(u, d, b)
      PROVE  ServedOn
  BY <1>5 DEF PipeWalk, ServedOn, Served, BeingClosed, Current, conns
<1>6. ASSUME NEW u \in User, NEW d \in Dest, NEW b \in BOOLEAN, NEW H \in SUBSET Client,
             PipeHints(u, d, H, b)
      PROVE  ServedOn
  <2>1. UNCHANGED <<task, loop>> /\ Grown
    BY <1>6, ClientsStep DEF PipeHints, Next, conns
  <2>2. BeingClosed(Current("closer")) => Current("closer")' = Current("closer")
    BY <2>1 DEF BeingClosed, Current, Types, LoopTypes, Grown
  <2> QED
    BY <2>1, <2>2 DEF ServedOn, Served, BeingClosed
<1>7. ASSUME NEW u \in Caller, HintsDone(u) PROVE ServedOn
  <2>1. UNCHANGED <<task, clients, loop>>
    BY <1>7, HintsDoneCases DEF conns, WalksOn, PipeReturns
  <2> QED
    BY <2>1 DEF ServedOn, Served, BeingClosed, Current
<1>8. ASSUME NEW u \in Caller, WalkDone(u) PROVE ServedOn
  <2>1. UNCHANGED <<task, clients>> /\ LoopFree
    BY <1>8, WalkDoneCases DEF conns
  <2>2. loop' = loop \/ (loop.closer.at \notin {"bye", "after"})
                    \/ (loop'.closer.at = loop.closer.at /\ loop'.closer.i = loop.closer.i)
    BY <1>8, WalkDoneCases DEF WalksOn, PipeReturns, StartReturns, Types, LoopTypes, Loop
  <2> QED
    BY <2>1, <2>2 DEF ServedOn, Served, BeingClosed, Current
<1>9. ASSUME NEW u \in Caller, NEW c \in Client, TryOk(u, c) PROVE ServedOn
  <2>1. \A d \in Client : task[d] # "none" => task'[d] # "none"
    BY <1>9 DEF TryOk, Types, ConnTypes
  <2> QED
    BY <1>9, <2>1 DEF TryOk, ServedOn, Served, BeingClosed, Current
<1>10. ASSUME NEW u \in Caller, NEW c \in Client, TryFails(u, c) PROVE ServedOn
  BY <1>10 DEF TryFails, ServedOn, Served, BeingClosed, Current, conns
<1>11. CASE Wake
  BY <1>11 DEF Wake, ServedOn, Served, BeingClosed, conns
<1>12. CASE Visit
  BY <1>12 DEF Visit, ServedOn, Served, BeingClosed, conns
<1>13. CASE Reusable
  BY <1>13
<1>14. CASE PassDone
  BY <1>14 DEF PassDone, ServedOn, Served, BeingClosed, conns
<1>15. ASSUME NEW l \in {"closer", "close"}, TaskGone(l) PROVE ServedOn
  <2>1. CASE l = "closer"
    <3>1. /\ UNCHANGED clients /\ loop'.closer.at \in {"bye", "after"}
          /\ loop'.closer.i = loop.closer.i
      BY <1>15, <2>1 DEF TaskGone, Types, LoopTypes, Loop
    <3>2. \A c \in Client : task'[c] = "none" => task[c] = "none" \/ c = Current("closer")
      BY <1>15, <2>1 DEF TaskGone, Types, ConnTypes
    <3>3. loop.closer.at = "cancel"
      BY <1>15, <2>1 DEF TaskGone
    <3> QED
      BY <3>1, <3>2, <3>3 DEF ServedOn, Served, BeingClosed, Current
  <2>2. CASE l = "close"
    <3>1. loop'.close.at # "off"
      BY <1>15, <2>2 DEF TaskGone, Types, LoopTypes, Loop
    <3> QED
      BY <3>1 DEF ServedOn
  <2> QED
    BY <2>1, <2>2
<1>16. ASSUME NEW l \in {"closer", "close"}, PipeGone(l) PROVE ServedOn
  <2>1. CASE l = "closer"
    <3>1. /\ UNCHANGED <<clients, task>> /\ loop'.closer.at = "after"
          /\ loop'.closer.i = loop.closer.i
      BY <1>16, <2>1 DEF PipeGone, Types, LoopTypes, Loop
    <3> QED
      BY <3>1 DEF ServedOn, Served, BeingClosed, Current
  <2>2. CASE l = "close"
    <3>1. loop'.close.at # "off"
      BY <1>16, <2>2 DEF PipeGone, Types, LoopTypes, Loop
    <3> QED
      BY <3>1 DEF ServedOn
  <2> QED
    BY <2>1, <2>2
<1>17. ASSUME NEW l \in {"closer", "close"}, Fails(l) PROVE ServedOn
  <2>1. UNCHANGED <<task, clients>> /\ loop[l].at = "run"
    BY <1>17 DEF Fails, conns
  <2>2. l = "close" => UNCHANGED loop.closer
    BY <1>17 DEF Fails, Types, LoopTypes
  <2> QED
    BY <2>1, <2>2 DEF ServedOn, Served, BeingClosed, Current
<1>18. CASE Close
  <2>1. loop'.close.at # "off"
    BY <1>18 DEF Close, Types, LoopTypes, Loop
  <2> QED
    BY <2>1 DEF ServedOn
<1>19. CASE CloseNext
  <2>1. loop'.close.at # "off"
    BY <1>19 DEF CloseNext, SetsClosed, Off, Types, LoopTypes, Loop
  <2> QED
    BY <2>1 DEF ServedOn
<1>20. CASE Closed
  <2>1. loop'.close.at # "off"
    BY <1>20 DEF Closed, Types, LoopTypes, Loop
  <2> QED
    BY <2>1 DEF ServedOn
<1>21. CASE Tick
  BY <1>21 DEF Tick, ServedOn, Served, BeingClosed
<1>22. CASE UNCHANGED vars
  BY <1>22 DEF vars, conns, ServedOn, Served, BeingClosed, Current
<1>23. ASSUME NEW c \in Client, Acks(c) PROVE ServedOn
  BY <1>23 DEF Acks, ServedOn, Served, BeingClosed, Current, conns
<1> QED
  BY <1>1, <1>2, <1>3, <1>4, <1>5, <1>6, <1>7, <1>8, <1>9, <1>10, <1>11, <1>12,
     <1>13, <1>14, <1>15, <1>16, <1>17, <1>18, <1>19, <1>20, <1>21, <1>22, <1>23,
     InputFacts DEF Next, Connecting, IdleCloser, Closing

SoundStep ==
  \A k \in Key : Sound(k) /\ cache'[k] = cache[k] /\ loop'.close.at = "off" => Sound(k)'

\* Every step keeps sound entries sound.
LEMMA SoundNext ==
  ASSUME Types, [Next]_vars
  PROVE  SoundStep
<1> SUFFICES ASSUME NEW k \in Key, Sound(k), cache'[k] = cache[k], loop'.close.at = "off"
             PROVE  Sound(k)'
  BY DEF SoundStep
<1>1. cache[k] \subseteq Client /\ cache[k] # None /\ \A c \in cache[k] : Served(c)
  BY DEF Sound, Served, Types, CallTypes, Groups
<1>2. CASE ~Reusable
  BY <1>1, <1>2, ServedStep DEF ServedOn, Sound, Served
<1>3. CASE Reusable
  <2>1. cache' = Evicted({Current("closer")}) /\ UNCHANGED <<task, clients>>
    BY <1>3 DEF Reusable
  <2>2. Current("closer") \notin cache[k]
    BY <1>1, <2>1 DEF Evicted
  <2>3. \A c \in cache[k] : task[c] # "none"
    BY <1>1, <2>2 DEF Served, BeingClosed
  <2> QED
    BY <1>1, <2>1, <2>3 DEF Sound
<1> QED
  BY <1>2, <1>3

\* A cache entry whose clients are all served stays one of served clients until
\* it is replaced or evicted: the idle closer takes a client's dispatcher and
\* its entries away together.
THEOREM CacheStaysSound == Spec => EntriesStaySound
<1>1. Types /\ [Next]_vars => [SoundStep]_vars
  BY SoundNext
<1> QED
  BY <1>1, TypesHold, PTL DEF Spec, EntriesStaySound, SoundStep

-----------------------------------------------------------------------------
(* Router.close(). *)

\* A call that returns tries nothing any more.
LEMMA ReturnTries ==
  ASSUME Types, NEW u \in Caller, PipeReturns(u) \/ (u = S /\ StartReturns),
         NEW v \in Caller
  PROVE  caller'[v].trying \subseteq caller[v].trying
<1>1. caller[u].found \in Groups /\ {} \in Groups
  BY DEF Types, CallTypes, Call, Groups
<1> QED
  BY <1>1, RestingFacts DEF PipeReturns, StartReturns, Types, CallTypes

\* Whoever is connected to was put into router.clients first.
LEMMA MembersStep ==
  ASSUME Types, MembersInv, [Next]_vars
  PROVE  MembersInv'
<1> USE  DEF Types, ConnTypes, CallTypes, LoopTypes, MembersInv, Released, Current,
   conns
<1>1. CASE Start
  <2>1. PICK w \in Call : caller' = [caller EXCEPT ![S] = w] /\ w.trying \subseteq Seed
    BY <1>1, WalkFacts, RestingFacts DEF Start
  <2> QED
    BY <1>1, <2>1 DEF Start
<1>2. ASSUME NEW u \in User, Send(u) PROVE MembersInv'
  BY <1>2 DEF Send
<1>3. ASSUME NEW u \in User, LetGo(u) PROVE MembersInv'
  BY <1>3 DEF LetGo, Resting
<1>4. ASSUME NEW u \in User, NEW d \in Dest, PipeCached(u, d) PROVE MembersInv'
  <2>1. cache[d] \in Groups
    BY <1>4 DEF PipeCached, Key
  <2>2. \A v \in Caller : caller'[v].trying \subseteq caller[v].trying
    BY <1>4, <2>1, RestingFacts DEF PipeCached
  <2> QED
    BY <1>4, <2>2 DEF PipeCached
<1>5. ASSUME NEW u \in User, NEW d \in Dest, NEW b \in BOOLEAN,
             PipeWalk(u, d, b)
      PROVE  MembersInv'
  <2>1. [Resting EXCEPT !.dest = d, !.caches = b] \in Call /\ u \in Caller
    BY RestingFacts DEF Resting, Call, Key, Caller
  <2>2. PICK w \in Call : caller' = [caller EXCEPT ![u] = w] /\ w.trying \subseteq Seed
    BY <1>5, <2>1, WalkFacts DEF PipeWalk
  <2> QED
    BY <1>5, <2>2 DEF PipeWalk
<1>6. ASSUME NEW u \in User, NEW d \in Dest, NEW b \in BOOLEAN, NEW H \in SUBSET Client,
             PipeHints(u, d, H, b)
      PROVE  MembersInv'
  <2>1. ToSet(clients') = ToSet(clients) \cup H /\ UNCHANGED conns
    BY <1>6, EnsureFacts DEF PipeHints
  <2>2. caller' = [caller EXCEPT ![u] =
                    [Resting EXCEPT !.at = "hints", !.dest = d, !.found = Ready(H),
                                    !.trying = Missing(H), !.caches = b]]
    BY <1>6 DEF PipeHints
  <2>3. \A v \in Caller : caller'[v].trying \subseteq ToSet(clients')
    BY <2>1, <2>2 DEF Resting, Missing
  <2> QED
    BY <2>1, <2>3
<1>7. ASSUME NEW u \in Caller, HintsDone(u) PROVE MembersInv'
  <2>1. UNCHANGED <<clients, conns>>
    BY <1>7, HintsDoneCases
  <2>2. \A v \in Caller : caller'[v].trying \subseteq caller[v].trying \cup Seed
    <3>1. CASE WalksOn(u)
      BY <3>1 DEF WalksOn
    <3>2. CASE ~WalksOn(u)
      <4>1. PipeReturns(u) \/ (u = S /\ StartReturns)
        BY <1>7, <3>2, HintsDoneCases
      <4>2. \A v \in Caller : caller'[v].trying \subseteq caller[v].trying
        BY <4>1, ReturnTries
      <4> QED
        BY <4>2
    <3> QED
      BY <3>1, <3>2
  <2> QED
    BY <2>1, <2>2
<1>8. ASSUME NEW u \in Caller, WalkDone(u) PROVE MembersInv'
  <2>1. UNCHANGED <<clients, conns>>
    BY <1>8, WalkDoneCases
  <2>2. \A v \in Caller : caller'[v].trying \subseteq caller[v].trying \cup Seed
    <3>1. CASE WalksOn(u)
      BY <3>1 DEF WalksOn
    <3>2. CASE ~WalksOn(u)
      <4>1. PipeReturns(u) \/ (u = S /\ StartReturns)
        BY <1>8, <3>2, WalkDoneCases
      <4>2. \A v \in Caller : caller'[v].trying \subseteq caller[v].trying
        BY <4>1, ReturnTries
      <4> QED
        BY <4>2
    <3> QED
      BY <3>1, <3>2
  <2> QED
    BY <2>1, <2>2
<1>9. ASSUME NEW u \in Caller, NEW c \in Client, TryOk(u, c) PROVE MembersInv'
  <2>1. \A v \in Caller : caller'[v].trying \subseteq caller[v].trying
    BY <1>9 DEF TryOk, Call
  <2>2. c \in ToSet(clients)
    BY <1>9 DEF TryOk
  <2>3. \A e \in Client : e # c => task'[e] = task[e] /\ pipe'[e] = pipe[e]
    BY <1>9 DEF TryOk
  <2> QED
    BY <1>9, <2>1, <2>2, <2>3 DEF TryOk
<1>10. ASSUME NEW u \in Caller, NEW c \in Client, TryFails(u, c) PROVE MembersInv'
  <2>1. \A v \in Caller : caller'[v].trying \subseteq caller[v].trying
    BY <1>10 DEF TryFails, Call
  <2> QED
    BY <1>10, <2>1 DEF TryFails
<1>11. CASE Wake
  BY <1>11 DEF Wake
<1>12. CASE Visit
  BY <1>12 DEF Visit
<1>13. CASE Reusable
  BY <1>13 DEF Reusable
<1>14. CASE PassDone
  BY <1>14 DEF PassDone
<1>15. ASSUME NEW l \in {"closer", "close"}, TaskGone(l) PROVE MembersInv'
  <2>1. \A e \in Client : Released(e) => Released(e)'
    BY <1>15 DEF TaskGone
  <2> QED
    BY <1>15, <2>1 DEF TaskGone
<1>16. ASSUME NEW l \in {"closer", "close"}, PipeGone(l) PROVE MembersInv'
  <2>1. \A e \in Client : Released(e) => Released(e)'
    BY <1>16 DEF PipeGone
  <2> QED
    BY <1>16, <2>1 DEF PipeGone
<1>17. ASSUME NEW l \in {"closer", "close"}, Fails(l) PROVE MembersInv'
  BY <1>17 DEF Fails
<1>18. CASE Close
  <2>1. loop.closer.at = "cancel" => Current("closer") \in ToSet(clients)
    BY DEF ToSet
  <2>2. \A e \in Client \ ToSet(clients) : task'[e] = task[e]
    BY <1>18, <2>1 DEF Close
  <2> QED
    BY <1>18, <2>2 DEF Close
<1>19. CASE CloseNext
  BY <1>19 DEF CloseNext
<1>20. CASE Closed
  BY <1>20 DEF Closed
<1>21. CASE Tick
  BY <1>21 DEF Tick
<1>22. CASE UNCHANGED vars
  BY <1>22 DEF vars, conns
<1>23. ASSUME NEW c \in Client, Acks(c) PROVE MembersInv'
  BY <1>23 DEF Acks
<1> QED
  BY <1>1, <1>2, <1>3, <1>4, <1>5, <1>6, <1>7, <1>8, <1>9, <1>10, <1>11, <1>12,
     <1>13, <1>14, <1>15, <1>16, <1>17, <1>18, <1>19, <1>20, <1>21, <1>22, <1>23,
     InputFacts DEF Next, Connecting, IdleCloser, Closing

\* While close() has not been called.
LEMMA CloseAway == loop'.close.at = "off" => CloseInv'
  BY DEF CloseInv, CloseReleases

\* Nothing that close() has behind it is connected again.
LEMMA CloseStep ==
  ASSUME ~Overlap, Types, MembersInv, CloseInv, [Next]_vars
  PROVE  CloseInv'
<1> USE  DEF Types, ConnTypes, CallTypes, LoopTypes, conns
<1>1. CASE Start
  <2>1. loop'.close.at = "off"
    BY <1>1 DEF Start, Loop
  <2> QED
    BY <2>1, CloseAway
<1>2. ASSUME NEW u \in User, Send(u) PROVE CloseInv'
  <2>1. loop'.close.at = "off"
    BY <1>2 DEF Send, Loop
  <2> QED
    BY <2>1, CloseAway
<1>3. ASSUME NEW u \in User, LetGo(u) PROVE CloseInv'
  <2>1. loop'.close.at = "off"
    BY <1>3 DEF LetGo, Loop
  <2> QED
    BY <2>1, CloseAway
<1>4. ASSUME NEW u \in User, NEW d \in Dest, PipeCached(u, d) PROVE CloseInv'
  <2>1. loop'.close.at = "off"
    BY <1>4 DEF PipeCached, Loop
  <2> QED
    BY <2>1, CloseAway
<1>5. ASSUME NEW u \in User, NEW d \in Dest, NEW b \in BOOLEAN,
             PipeWalk(u, d, b)
      PROVE  CloseInv'
  <2>1. loop'.close.at = "off"
    BY <1>5 DEF PipeWalk, Loop
  <2> QED
    BY <2>1, CloseAway
<1>6. ASSUME NEW u \in User, NEW d \in Dest, NEW b \in BOOLEAN, NEW H \in SUBSET Client,
             PipeHints(u, d, H, b)
      PROVE  CloseInv'
  <2>1. loop'.close.at = "off"
    BY <1>6 DEF PipeHints, Loop
  <2> QED
    BY <2>1, CloseAway
<1>7. ASSUME NEW u \in Caller, HintsDone(u) PROVE CloseInv'
  <2>1. loop.close.at = "off"
    BY <1>7 DEF HintsDone, CloseInv, Busy
  <2>2. UNCHANGED loop
    BY <1>7, HintsDoneCases DEF WalksOn, PipeReturns
  <2> QED
    BY <2>1, <2>2, CloseAway
<1>8. ASSUME NEW u \in Caller, WalkDone(u) PROVE CloseInv'
  <2>1. loop.close.at = "off"
    BY <1>8 DEF WalkDone, CloseInv, Busy
  <2>2. loop'.close = loop.close
    BY <1>8, WalkDoneCases DEF WalksOn, PipeReturns, StartReturns
  <2> QED
    BY <2>1, <2>2, CloseAway
<1>9. ASSUME NEW u \in Caller, NEW c \in Client, TryOk(u, c) PROVE CloseInv'
  <2>1. loop.close.at = "off"
    BY <1>9 DEF TryOk, CloseInv
  <2>2. UNCHANGED loop
    BY <1>9 DEF TryOk
  <2> QED
    BY <2>1, <2>2, CloseAway
<1>10. ASSUME NEW u \in Caller, NEW c \in Client, TryFails(u, c) PROVE CloseInv'
  <2>1. loop.close.at = "off"
    BY <1>10 DEF TryFails, CloseInv
  <2>2. UNCHANGED loop
    BY <1>10 DEF TryFails
  <2> QED
    BY <2>1, <2>2, CloseAway
<1>11. CASE Wake
  <2>1. loop.close.at = "off"
    BY <1>11 DEF Wake, CloseInv
  <2>2. loop'.close = loop.close
    BY <1>11 DEF Wake, Loop
  <2> QED
    BY <2>1, <2>2, CloseAway
<1>12. CASE Visit
  <2>1. loop.close.at = "off"
    BY <1>12 DEF Visit, CloseInv
  <2>2. loop'.close = loop.close
    BY <1>12 DEF Visit, SetsClosed, Loop
  <2> QED
    BY <2>1, <2>2, CloseAway
<1>13. CASE Reusable
  <2>1. loop.close.at = "off"
    BY <1>13 DEF Reusable, CloseInv
  <2>2. loop'.close = loop.close
    BY <1>13 DEF Reusable, Loop
  <2> QED
    BY <2>1, <2>2, CloseAway
<1>14. CASE PassDone
  <2>1. loop.close.at = "off"
    BY <1>14 DEF PassDone, CloseInv
  <2>2. loop'.close = loop.close
    BY <1>14 DEF PassDone, Loop
  <2> QED
    BY <2>1, <2>2, CloseAway
<1>15. ASSUME NEW l \in {"closer", "close"}, TaskGone(l) PROVE CloseInv'
  <2>1. CASE l = "closer"
    <3>1. loop.close.at = "off" /\ loop'.close = loop.close
      BY <1>15, <2>1 DEF TaskGone, CloseInv, Loop
    <3> QED
      BY <3>1, CloseAway
  <2>2. CASE l = "close"
    <3>1. loop.close.at = "cancel" /\ loop.close.i \in 1 .. Len(clients)
      BY <1>15, <2>2, ClientsLen DEF TaskGone, CloseInv, Loop
    <3> DEFINE c == clients[loop.close.i]
    <3>2. c \in Client
      BY <3>1
    <3>3. /\ task' = [task EXCEPT ![c] = "none"]
          /\ loop'.close.at = IF pipe[c] THEN "bye" ELSE "after"
          /\ loop'.close.i = loop.close.i /\ loop'.close.size = loop.close.size
          /\ loop'.closer = loop.closer
          /\ UNCHANGED <<clients, pipe, caller>>
      BY <1>15, <2>2 DEF TaskGone, Current, Loop
    <3>4. \A e \in Client : Released(e) => Released(e)'
      BY <3>2, <3>3 DEF Released
    <3>5. \A j \in 1 .. loop.close.i - 1 : clients[j] \in Client /\ Released(clients[j])'
      BY <3>1, <3>3, <3>4 DEF CloseInv
    <3>6. task'[c] = "none" /\ (loop'.close.at = "after" => ~pipe'[c])
      BY <3>2, <3>3
    <3>7. Current("close")' = c
      BY <3>3 DEF Current
    <3> HIDE DEF c
    <3> QED
      BY <3>1, <3>3, <3>5, <3>6, <3>7 DEF CloseInv, CloseReleases, Busy
  <2> QED
    BY <2>1, <2>2
<1>16. ASSUME NEW l \in {"closer", "close"}, PipeGone(l) PROVE CloseInv'
  <2>1. CASE l = "closer"
    <3>1. loop.close.at = "off" /\ loop'.close = loop.close
      BY <1>16, <2>1 DEF PipeGone, CloseInv, Loop
    <3> QED
      BY <3>1, CloseAway
  <2>2. CASE l = "close"
    <3>1. loop.close.at = "bye" /\ loop.close.i \in 1 .. Len(clients)
      BY <1>16, <2>2, ClientsLen DEF PipeGone, CloseInv, Loop
    <3> DEFINE c == clients[loop.close.i]
    <3>2. c \in Client /\ task[c] = "none"
      BY <3>1 DEF CloseInv, Current
    <3>3. /\ pipe' = [pipe EXCEPT ![c] = FALSE]
          /\ loop'.close.at = "after"
          /\ loop'.close.i = loop.close.i /\ loop'.close.size = loop.close.size
          /\ loop'.closer = loop.closer
          /\ UNCHANGED <<clients, task, caller>>
      BY <1>16, <2>2 DEF PipeGone, Current, Loop
    <3>4. \A e \in Client : Released(e) => Released(e)'
      BY <3>2, <3>3 DEF Released
    <3>5. \A j \in 1 .. loop.close.i - 1 : clients[j] \in Client /\ Released(clients[j])'
      BY <3>1, <3>3, <3>4 DEF CloseInv
    <3>6. task'[c] = "none" /\ ~pipe'[c]
      BY <3>2, <3>3
    <3>7. Current("close")' = c
      BY <3>3 DEF Current
    <3> HIDE DEF c
    <3> QED
      BY <3>1, <3>3, <3>5, <3>6, <3>7 DEF CloseInv, CloseReleases, Busy
  <2> QED
    BY <2>1, <2>2
<1>17. ASSUME NEW l \in {"closer", "close"}, Fails(l) PROVE CloseInv'
  <2>1. CASE l = "closer"
    <3>1. loop.close.at = "off" /\ loop'.close = loop.close
      BY <1>17, <2>1 DEF Fails, CloseInv, Loop
    <3> QED
      BY <3>1, CloseAway
  <2>2. CASE l = "close"
    <3>1. FALSE
      BY <1>17, <2>2 DEF Fails, Resized, CloseInv
    <3> QED
      BY <3>1
  <2> QED
    BY <2>1, <2>2
<1>18. CASE Close
  <2>1. /\ \A u \in Caller : ~Busy(u)
        /\ UNCHANGED <<clients, caller>>
        /\ loop' = [closer |-> Off, close |-> [at |-> "run", i |-> 1, size |-> Len(clients)]]
    BY <1>18 DEF Close
  <2>2. /\ loop'.close.at = "run" /\ loop'.close.i = 1 /\ loop'.close.size = Len(clients)
        /\ loop'.closer.at = "off"
    BY <2>1 DEF Off
  <2> QED
    BY <2>1, <2>2, ClientsLen DEF CloseInv, CloseReleases, Busy
<1>19. CASE CloseNext
  <2>1. /\ loop.close.at = "run" /\ loop.close.i \in 1 .. Len(clients) + 1
        /\ UNCHANGED <<clients, task, pipe, caller>>
        /\ loop'.closer = loop.closer /\ Len(clients) \in Nat
    BY <1>19, ClientsLen DEF CloseNext, SetsClosed, CloseInv
  <2>2. CASE loop.close.i > Len(clients)
    <3>1. loop'.close.at = "done"
      BY <1>19, <2>2 DEF CloseNext, Off
    <3>2. \A j \in 1 .. Len(clients) : Released(clients[j])
      BY <2>1, <2>2 DEF CloseInv
    <3>3. \A c \in ToSet(clients) : Released(c)
      BY <3>2 DEF ToSet
    <3>4. \A c \in Client : Released(c)
      BY <3>3 DEF MembersInv
    <3> QED
      BY <2>1, <3>1, <3>4 DEF CloseInv, CloseReleases, Released, Busy
  <2>3. CASE ~(loop.close.i > Len(clients))
    <3>1. /\ loop'.close.at = "cancel" /\ loop'.close.i = loop.close.i
          /\ loop'.close.size = loop.close.size
      BY <1>19, <2>3 DEF CloseNext, SetsClosed, Loop
    <3> QED
      BY <2>1, <2>3, <3>1 DEF CloseInv, CloseReleases, Released, Busy
  <2> QED
    BY <2>2, <2>3
<1>20. CASE Closed
  <2>1. /\ loop.close.at = "after" /\ loop.close.i \in 1 .. Len(clients)
        /\ Len(clients) \in Nat
    BY <1>20, ClientsLen DEF Closed, CloseInv, Loop
  <2>2. /\ loop'.close.at = "run" /\ loop'.close.i = loop.close.i + 1
        /\ loop'.close.size = loop.close.size /\ loop'.closer = loop.closer
        /\ UNCHANGED <<clients, task, pipe, caller>>
    BY <1>20 DEF Closed, Loop
  <2>3. Released(clients[loop.close.i])
    BY <2>1 DEF CloseInv, Released, Current
  <2>4. \A j \in 1 .. loop'.close.i - 1 : Released(clients[j])
    BY <2>1, <2>2, <2>3 DEF CloseInv
  <2>5. loop'.close.i \in 1 .. Len(clients) + 1
    BY <2>1, <2>2
  <2> QED
    BY <2>1, <2>2, <2>4, <2>5 DEF CloseInv, CloseReleases, Released, Busy
<1>21. CASE Tick
  <2>1. loop'.close.at = "off"
    BY <1>21 DEF Tick, Loop
  <2> QED
    BY <2>1, CloseAway
<1>22. CASE UNCHANGED vars
  BY <1>22 DEF vars, CloseInv, CloseReleases, Released, Current, Busy
<1>23. ASSUME NEW c \in Client, Acks(c) PROVE CloseInv'
  <2>1. loop'.close.at = "off"
    BY <1>23 DEF Acks, Loop
  <2> QED
    BY <2>1, CloseAway
<1> QED
  BY <1>1, <1>2, <1>3, <1>4, <1>5, <1>6, <1>7, <1>8, <1>9, <1>10, <1>11, <1>12,
     <1>13, <1>14, <1>15, <1>16, <1>17, <1>18, <1>19, <1>20, <1>21, <1>22, <1>23,
     InputFacts DEF Next, Connecting, IdleCloser, Closing

\* Router.close() returns with no dispatcher and no pipe left, wherever it found
\* the idle closer, if no start() or pipe() is connecting when it is called.
THEOREM CloseLeavesNothing == ASSUME ~Overlap PROVE Spec => []CloseReleases
<1>1. Init => MembersInv /\ CloseInv
  BY TypesInit
<1>2. CloseInv => CloseReleases
  BY DEF CloseInv, CloseReleases
<1>3. Types /\ MembersInv /\ CloseInv /\ [Next]_vars => MembersInv' /\ CloseInv'
  BY MembersStep, CloseStep
<1> QED
  BY <1>1, <1>2, <1>3, TypesHold, PTL DEF Spec

=============================================================================
