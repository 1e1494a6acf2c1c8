--------------------------- MODULE SessionProofs ---------------------------
(***************************************************************************)
(* Proofs about Session, for any number of callers, connections and packet *)
(* ids, with cancellation or without, and however calls of connect() and   *)
(* close() overlap.                                                        *)
(***************************************************************************)
EXTENDS Session, TLAPS

At == Handshake \cup {"idle", "up", "none", "start", "reset", "serve", "backoff", "done"}

AtTypes ==
  /\ at \in [Run -> At]
  /\ \A c \in Caller : at[c] \in (Handshake \ {"dying"}) \cup {"idle", "up"}
  /\ at[D] \in Handshake \cup {"none", "start", "reset", "serve", "backoff", "done"}

PipeTypes ==
  /\ pipe \in Pipe \cup {None} /\ closing \in Pipe \cup {None}
  /\ net \in [Pipe -> {"free", "open", "lost", "closed"}]
  /\ mine \in [Run -> Pipe \cup {None}]
  /\ joined \subseteq Pipe

IdTypes ==
  /\ futs \in [Id -> Pipe \cup {None}]
  /\ packetId \in 0 .. MaxId
  /\ owed \in [Pipe -> 0 .. MaxId]

FlagTypes ==
  /\ isClosed \in BOOLEAN
  /\ closer \in {"idle", "wait", "bye", "shut", "over", "crashed"}

Types == AtTypes /\ PipeTypes /\ IdTypes /\ FlagTypes

\* ClosedForGood needs what close() has done by then, from the cancellation of
\* the dispatcher on, and that is_closed stays set.
ClosedInv ==
  /\ at \in [Run -> At]
  /\ closer # "idle" => isClosed
  /\ closer \notin {"idle", "wait"} => at[D] \in {"none", "start", "done"}

Holding == {"connack", "suback", "subbed", "shut", "dying"}

\* LeftOpen needs who has a connection of its own: a run from its TCP connection to
\* the end of its attempt, and close() while it awaits pipe.close().
HandInv ==
  /\ \A t \in Run : mine[t] # None <=> at[t] \in Holding
  /\ closer # "shut" => closing = None

-----------------------------------------------------------------------------
(* Types. *)

\* 0 stands for no packet id.
LEMMA ZeroId == 0 \in 0 .. MaxId /\ Id \subseteq 0 .. MaxId
  BY SessionAssumption DEF Id

\* get_packet_id wraps within the ids.
LEMMA NextIdsAreIds ==
  ASSUME packetId \in 0 .. MaxId
  PROVE  NextIds \subseteq Id
<1> SUFFICES ASSUME NEW k \in Id PROVE ((packetId + k - 1) % MaxId) + 1 \in Id
  BY DEF NextIds
<1>1. MaxId \in Nat \ {0} /\ packetId + k - 1 \in Nat
  BY SessionAssumption DEF Id
<1> QED
  BY <1>1 DEF Id

\* Each step keeps the types.
LEMMA TypesStep ==
  ASSUME Types, [Next]_vars
  PROVE  Types'
<1>1. ASSUME NEW c \in Caller, Connect(c) PROVE Types'
  BY <1>1, SessionAssumption DEF Connect, Dispatching, Types, AtTypes, PipeTypes, IdTypes, FlagTypes, At, Handshake, Run
<1>2. ASSUME NEW c \in Caller, ConnectCancelled(c) PROVE Types'
  BY <1>2, SessionAssumption DEF ConnectCancelled, LetGo, ClosePipe, Types, AtTypes, PipeTypes, IdTypes, FlagTypes, At, Handshake, Run
<1>3. ASSUME NEW c \in Caller, Again(c) PROVE Types'
  BY <1>3, SessionAssumption DEF Again, Types, AtTypes, PipeTypes, IdTypes, FlagTypes, At, Handshake, Run
<1>4. ASSUME NEW t \in Run, t = D => closer # "wait", TcpUp(t) PROVE Types'
  BY <1>4, SessionAssumption DEF TcpUp, Held, Types, AtTypes, PipeTypes, IdTypes, FlagTypes, At, Handshake, Run
<1>5. ASSUME NEW t \in Run, t = D => closer # "wait", TcpFails(t) PROVE Types'
  BY <1>5, SessionAssumption DEF TcpFails, AfterFailure, Types, AtTypes, PipeTypes, IdTypes, FlagTypes, At, Handshake, Run
<1>6. ASSUME NEW t \in Run, t = D => closer # "wait", ConnackOk(t) PROVE Types'
  <2>1. AtTypes'
    BY <1>6, SessionAssumption DEF Types, ConnackOk, AtTypes, At, Handshake, Run
  <2>2. PipeTypes'
    BY <1>6, SessionAssumption DEF Types, ConnackOk, PipeTypes, Run
  <2>3. IdTypes'
    <3>1. PICK i \in NextIds : /\ packetId' = i
                              /\ futs' = [futs EXCEPT ![i] = mine[t]]
                              /\ owed' = [owed EXCEPT ![mine[t]] = i]
      BY <1>6 DEF ConnackOk
    <3>2. i \in 0 .. MaxId /\ mine[t] \in Pipe \cup {None}
      BY <1>6, ZeroId, NextIdsAreIds DEF Types, IdTypes, PipeTypes
    <3> QED
      BY <3>1, <3>2 DEF Types, IdTypes
  <2>4. FlagTypes'
    BY <1>6, SessionAssumption DEF Types, ConnackOk, FlagTypes
  <2> QED
    BY <2>1, <2>2, <2>3, <2>4 DEF Types
<1>7. ASSUME NEW t \in Run, t = D => closer # "wait", ConnackFails(t) PROVE Types'
  BY <1>7, SessionAssumption DEF ConnackFails, Types, AtTypes, PipeTypes, IdTypes, FlagTypes, At, Handshake, Run
<1>8. ASSUME NEW t \in Run, t = D => closer # "wait", SubOk(t) PROVE Types'
  BY <1>8, SessionAssumption DEF SubOk, Types, AtTypes, PipeTypes, IdTypes, FlagTypes, At, Handshake, Run
<1>9. ASSUME NEW t \in Run, t = D => closer # "wait", SubFails(t) PROVE Types'
  BY <1>9, SessionAssumption DEF SubFails, Types, AtTypes, PipeTypes, IdTypes, FlagTypes, At, Handshake, Run
<1>10. ASSUME NEW t \in Run, t = D => closer # "wait", Shut(t) PROVE Types'
  <2>1. AtTypes'
    BY <1>10, SessionAssumption DEF Types, Shut, AfterFailure, ClosePipe, AtTypes, At, Handshake, Run
  <2>2. PipeTypes'
    BY <1>10, SessionAssumption DEF Types, Shut, AfterFailure, ClosePipe, PipeTypes, Run
  <2>3. IdTypes'
    BY <1>10, SessionAssumption, ZeroId DEF Types, Shut, AfterFailure, ClosePipe, IdTypes, PipeTypes, Run
  <2>4. FlagTypes'
    BY <1>10, SessionAssumption DEF Types, Shut, AfterFailure, ClosePipe, FlagTypes
  <2> QED
    BY <2>1, <2>2, <2>3, <2>4 DEF Types
<1>11. CASE LoopEnds
  BY <1>11, SessionAssumption DEF LoopEnds, LoopTop, Types, AtTypes, PipeTypes, IdTypes, FlagTypes, At, Handshake, Run
<1>12. CASE CheckAlive
  BY <1>12, SessionAssumption DEF CheckAlive, LoopTop, Types, AtTypes, PipeTypes, IdTypes, FlagTypes, At, Handshake, Run
<1>13. CASE CheckDead
  BY <1>13, SessionAssumption DEF CheckDead, LoopTop, ClosePipe, Types, AtTypes, PipeTypes, IdTypes, FlagTypes, At, Handshake, Run
<1>14. CASE CheckNone
  BY <1>14, SessionAssumption DEF CheckNone, LoopTop, Reset, Types, AtTypes, PipeTypes, IdTypes, FlagTypes, At, Handshake, Run
<1>15. CASE Close
  BY <1>15, SessionAssumption DEF Close, Dispatching, TaskGone, Finish, Types, AtTypes, PipeTypes, IdTypes, FlagTypes, At, Handshake, Run
<1>16. CASE DispatcherCancelled
  <2>1. AtTypes'
    BY <1>16, SessionAssumption DEF Types, DispatcherCancelled, LetGo, ClosePipe, TaskGone, Finish, AtTypes, At, Handshake, Run
  <2>2. PipeTypes'
    BY <1>16, SessionAssumption DEF Types, DispatcherCancelled, LetGo, ClosePipe, TaskGone, Finish, PipeTypes, Run
  <2>3. IdTypes'
    BY <1>16, SessionAssumption, ZeroId DEF Types, DispatcherCancelled, LetGo, ClosePipe, TaskGone, Finish, IdTypes, PipeTypes, Run
  <2>4. FlagTypes'
    BY <1>16, SessionAssumption DEF Types, DispatcherCancelled, LetGo, ClosePipe, TaskGone, Finish, FlagTypes
  <2> QED
    BY <2>1, <2>2, <2>3, <2>4 DEF Types
<1>17. CASE SubCancelled
  BY <1>17, SessionAssumption DEF SubCancelled, Types, AtTypes, PipeTypes, IdTypes, FlagTypes, At, Handshake, Run
<1>18. CASE Dying
  <2>1. AtTypes'
    BY <1>18, SessionAssumption DEF Types, Dying, ClosePipe, TaskGone, Finish, AtTypes, At, Handshake, Run
  <2>2. PipeTypes'
    BY <1>18, SessionAssumption DEF Types, Dying, ClosePipe, TaskGone, Finish, PipeTypes, Run
  <2>3. IdTypes'
    BY <1>18, SessionAssumption, ZeroId DEF Types, Dying, ClosePipe, TaskGone, Finish, IdTypes, PipeTypes, Run
  <2>4. FlagTypes'
    BY <1>18, SessionAssumption DEF Types, Dying, ClosePipe, TaskGone, Finish, FlagTypes
  <2> QED
    BY <2>1, <2>2, <2>3, <2>4 DEF Types
<1>19. CASE Bye
  BY <1>19, SessionAssumption DEF Bye, Types, AtTypes, PipeTypes, IdTypes, FlagTypes, At, Handshake, Run
<1>20. CASE PipeClosed
  <2>1. AtTypes'
    BY <1>20, SessionAssumption DEF Types, PipeClosed, ClosePipe, Finish, AtTypes, At, Handshake, Run
  <2>2. PipeTypes'
    BY <1>20, SessionAssumption DEF Types, PipeClosed, ClosePipe, Finish, PipeTypes, Run
  <2>3. IdTypes'
    BY <1>20, SessionAssumption, ZeroId DEF Types, PipeClosed, ClosePipe, Finish, IdTypes, PipeTypes, Run
  <2>4. FlagTypes'
    BY <1>20, SessionAssumption DEF Types, PipeClosed, ClosePipe, Finish, FlagTypes
  <2> QED
    BY <2>1, <2>2, <2>3, <2>4 DEF Types
<1>21. ASSUME NEW p \in Pipe, Suback(p) PROVE Types'
  <2>1. AtTypes'
    BY <1>21, SessionAssumption DEF Types, Suback, AtTypes, At, Handshake, Run
  <2>2. PipeTypes'
    BY <1>21, SessionAssumption DEF Types, Suback, PipeTypes, Run
  <2>3. IdTypes'
    BY <1>21, SessionAssumption, ZeroId DEF Types, Suback, IdTypes, PipeTypes, Run
  <2>4. FlagTypes'
    BY <1>21, SessionAssumption DEF Types, Suback, FlagTypes
  <2> QED
    BY <2>1, <2>2, <2>3, <2>4 DEF Types
<1>22. ASSUME NEW p \in Pipe, PipeLost(p) PROVE Types'
  BY <1>22, SessionAssumption DEF PipeLost, Types, AtTypes, PipeTypes, IdTypes, FlagTypes, At, Handshake, Run
<1>23. CASE UNCHANGED vars
  BY <1>23, SessionAssumption DEF vars, Types, AtTypes, PipeTypes, IdTypes, FlagTypes, At, Handshake, Run
<1>24. CASE DispatcherDies
  BY <1>24, SessionAssumption DEF DispatcherDies, Types, AtTypes, PipeTypes, IdTypes, FlagTypes, At, Handshake, Run
<1> QED
  BY <1>1, <1>2, <1>3, <1>4, <1>5, <1>6, <1>7, <1>8, <1>9, <1>10, <1>11, <1>12, <1>13, <1>14, <1>15, <1>16, <1>17, <1>18, <1>19, <1>20, <1>21, <1>22, <1>23, <1>24 DEF Next, AttemptOf, Dispatcher, Closing

\* A new client has its types.
LEMMA TypesInit == Init => Types
<1> SUFFICES ASSUME Init PROVE Types
  OBVIOUS
<1>1. AtTypes
  BY SessionAssumption DEF Init, AtTypes, At, Handshake, Run
<1>2. PipeTypes /\ FlagTypes
  BY DEF Init, PipeTypes, FlagTypes
<1>3. IdTypes
  BY ZeroId DEF Init, IdTypes
<1> QED
  BY <1>1, <1>2, <1>3 DEF Types

\* Every variable of the client keeps its type; an await of a caller and one of
\* the dispatcher are never mixed up.
THEOREM TypeCorrect == Spec => []TypeOK
<1>1. Types /\ [Next]_vars => Types'
  BY TypesStep
<1>2. Types => TypeOK
  BY DEF Types, AtTypes, PipeTypes, IdTypes, FlagTypes, TypeOK
<1> QED
  BY TypesInit, <1>1, <1>2, PTL DEF Spec

-----------------------------------------------------------------------------
(* A client that is closed for good. *)

\* No step wakes the dispatcher of a client that is closed.
LEMMA ClosedStep ==
  ASSUME ClosedInv, [Next]_vars
  PROVE  ClosedInv'
<1> USE SessionAssumption DEF ClosedInv, At, Handshake, Run
<1>1. ASSUME NEW c \in Caller, Connect(c) PROVE ClosedInv'
  BY <1>1 DEF Connect, Dispatching
<1>2. ASSUME NEW c \in Caller, ConnectCancelled(c) PROVE ClosedInv'
  BY <1>2 DEF ConnectCancelled, LetGo, ClosePipe
<1>3. ASSUME NEW c \in Caller, Again(c) PROVE ClosedInv'
  BY <1>3 DEF Again
<1>4. ASSUME NEW t \in Run, t = D => closer # "wait", TcpUp(t) PROVE ClosedInv'
  BY <1>4 DEF TcpUp, Held
<1>5. ASSUME NEW t \in Run, t = D => closer # "wait", TcpFails(t) PROVE ClosedInv'
  BY <1>5 DEF TcpFails, AfterFailure
<1>6. ASSUME NEW t \in Run, t = D => closer # "wait", ConnackOk(t) PROVE ClosedInv'
  BY <1>6 DEF ConnackOk
<1>7. ASSUME NEW t \in Run, t = D => closer # "wait", ConnackFails(t) PROVE ClosedInv'
  BY <1>7 DEF ConnackFails
<1>8. ASSUME NEW t \in Run, t = D => closer # "wait", SubOk(t) PROVE ClosedInv'
  BY <1>8 DEF SubOk
<1>9. ASSUME NEW t \in Run, t = D => closer # "wait", SubFails(t) PROVE ClosedInv'
  BY <1>9 DEF SubFails
<1>10. ASSUME NEW t \in Run, t = D => closer # "wait", Shut(t) PROVE ClosedInv'
  BY <1>10 DEF Shut, AfterFailure, ClosePipe
<1>11. CASE LoopEnds
  BY <1>11 DEF LoopEnds, LoopTop
<1>12. CASE CheckAlive
  BY <1>12 DEF CheckAlive, LoopTop
<1>13. CASE CheckDead
  BY <1>13 DEF CheckDead, LoopTop, ClosePipe
<1>14. CASE CheckNone
  BY <1>14 DEF CheckNone, LoopTop, Reset
<1>15. CASE Close
  BY <1>15 DEF Close, Dispatching, TaskGone, Finish
<1>16. CASE DispatcherCancelled
  BY <1>16 DEF DispatcherCancelled, LetGo, ClosePipe, TaskGone, Finish
<1>17. CASE SubCancelled
  BY <1>17 DEF SubCancelled
<1>18. CASE Dying
  BY <1>18 DEF Dying, ClosePipe, TaskGone, Finish
<1>19. CASE Bye
  BY <1>19 DEF Bye
<1>20. CASE PipeClosed
  BY <1>20 DEF PipeClosed, ClosePipe, Finish
<1>21. ASSUME NEW p \in Pipe, Suback(p) PROVE ClosedInv'
  BY <1>21 DEF Suback
<1>22. ASSUME NEW p \in Pipe, PipeLost(p) PROVE ClosedInv'
  BY <1>22 DEF PipeLost
<1>23. CASE UNCHANGED vars
  BY <1>23 DEF vars
<1>24. CASE DispatcherDies
  BY <1>24 DEF DispatcherDies
<1> QED
  BY <1>1, <1>2, <1>3, <1>4, <1>5, <1>6, <1>7, <1>8, <1>9, <1>10, <1>11, <1>12,
     <1>13, <1>14, <1>15, <1>16, <1>17, <1>18, <1>19, <1>20, <1>21, <1>22, <1>23, <1>24 DEF
     Next, AttemptOf, Dispatcher, Closing

\* A new client is not closed.
LEMMA ClosedInit == Init => ClosedInv
  BY SessionAssumption DEF Init, ClosedInv, At, Handshake, Run

\* A client that is closed for good never gets a dispatcher that does anything,
\* for any number of connect() calls that overlap with close(), with the reuse
\* by the idle closer or without, and whichever of them are cancelled.
THEOREM ClosedStaysClosed == Spec => []ClosedForGood
<1>1. ClosedInv /\ [Next]_vars => ClosedInv'
  BY ClosedStep
<1>2. ClosedInv => ClosedForGood
  BY DEF ClosedInv, ClosedForGood
<1> QED
  BY ClosedInit, <1>1, <1>2, PTL DEF Spec

-----------------------------------------------------------------------------
(* Connections that are let go of. *)

\* Every step keeps who has which connection.
LEMMA HandStep ==
  ASSUME Types, HandInv, [Next]_vars
  PROVE  HandInv'
<1> USE SessionAssumption DEF Types, AtTypes, PipeTypes, FlagTypes, HandInv, Holding, At,
   Handshake, Run
<1>1. ASSUME NEW c \in Caller, Connect(c) PROVE HandInv'
  BY <1>1 DEF Connect, Dispatching
<1>2. ASSUME NEW c \in Caller, ConnectCancelled(c) PROVE HandInv'
  BY <1>2 DEF ConnectCancelled, LetGo, ClosePipe
<1>3. ASSUME NEW c \in Caller, Again(c) PROVE HandInv'
  BY <1>3 DEF Again
<1>4. ASSUME NEW t \in Run, t = D => closer # "wait", TcpUp(t) PROVE HandInv'
  BY <1>4 DEF TcpUp, Held
<1>5. ASSUME NEW t \in Run, t = D => closer # "wait", TcpFails(t) PROVE HandInv'
  BY <1>5 DEF TcpFails, AfterFailure
<1>6. ASSUME NEW t \in Run, t = D => closer # "wait", ConnackOk(t) PROVE HandInv'
  BY <1>6 DEF ConnackOk
<1>7. ASSUME NEW t \in Run, t = D => closer # "wait", ConnackFails(t) PROVE HandInv'
  BY <1>7 DEF ConnackFails
<1>8. ASSUME NEW t \in Run, t = D => closer # "wait", SubOk(t) PROVE HandInv'
  BY <1>8 DEF SubOk
<1>9. ASSUME NEW t \in Run, t = D => closer # "wait", SubFails(t) PROVE HandInv'
  BY <1>9 DEF SubFails
<1>10. ASSUME NEW t \in Run, t = D => closer # "wait", Shut(t) PROVE HandInv'
  BY <1>10 DEF Shut, AfterFailure, ClosePipe
<1>11. CASE LoopEnds
  BY <1>11 DEF LoopEnds, LoopTop
<1>12. CASE CheckAlive
  BY <1>12 DEF CheckAlive, LoopTop
<1>13. CASE CheckDead
  BY <1>13 DEF CheckDead, LoopTop, ClosePipe
<1>14. CASE CheckNone
  BY <1>14 DEF CheckNone, LoopTop, Reset
<1>15. CASE Close
  BY <1>15 DEF Close, Dispatching, TaskGone, Finish
<1>16. CASE DispatcherCancelled
  BY <1>16 DEF DispatcherCancelled, LetGo, ClosePipe, TaskGone, Finish
<1>17. CASE SubCancelled
  BY <1>17 DEF SubCancelled
<1>18. CASE Dying
  BY <1>18 DEF Dying, ClosePipe, TaskGone, Finish
<1>19. CASE Bye
  BY <1>19 DEF Bye
<1>20. CASE PipeClosed
  BY <1>20 DEF PipeClosed, ClosePipe, Finish
<1>21. ASSUME NEW p \in Pipe, Suback(p) PROVE HandInv'
  BY <1>21 DEF Suback
<1>22. ASSUME NEW p \in Pipe, PipeLost(p) PROVE HandInv'
  BY <1>22 DEF PipeLost
<1>23. CASE UNCHANGED vars
  BY <1>23 DEF vars
<1>24. CASE DispatcherDies
  BY <1>24 DEF DispatcherDies
<1> QED
  BY <1>1, <1>2, <1>3, <1>4, <1>5, <1>6, <1>7, <1>8, <1>9, <1>10, <1>11, <1>12,
     <1>13, <1>14, <1>15, <1>16, <1>17, <1>18, <1>19, <1>20, <1>21, <1>22, <1>23, <1>24 DEF
     Next, AttemptOf, Dispatcher, Closing

\* In a new client nobody has one.
LEMMA HandInit == Init => HandInv
  BY SessionAssumption DEF Init, HandInv, Holding, Run

LetGoRight(p) ==
  net[p] = "open" /\ Held(p) /\ net'[p] = "open" /\ ~Held(p)'
    => Cancelled(p) \/ Overwritten(p) \/ Superseded(p)

\* A run that lets go of its connection is cancelled or has handed it over, and
\* client.pipe goes from one connection to another or to None in four places.
LEMMA LeftStep ==
  ASSUME Types, HandInv, [Next]_vars, NEW q \in Pipe
  PROVE  LetGoRight(q)
<1> USE SessionAssumption DEF Types, AtTypes, PipeTypes, FlagTypes, HandInv, Holding, At,
   Handshake, Run, LetGoRight, Held, Cancelled, Overwritten, Superseded
<1>1. ASSUME NEW c \in Caller, Connect(c) PROVE LetGoRight(q)
  BY <1>1 DEF Connect, Dispatching
<1>2. ASSUME NEW c \in Caller, ConnectCancelled(c) PROVE LetGoRight(q)
  BY <1>2 DEF ConnectCancelled, LetGo, ClosePipe
<1>3. ASSUME NEW c \in Caller, Again(c) PROVE LetGoRight(q)
  BY <1>3 DEF Again
<1>4. ASSUME NEW t \in Run, t = D => closer # "wait", TcpUp(t) PROVE LetGoRight(q)
  BY <1>4 DEF TcpUp
<1>5. ASSUME NEW t \in Run, t = D => closer # "wait", TcpFails(t) PROVE LetGoRight(q)
  BY <1>5 DEF TcpFails, AfterFailure
<1>6. ASSUME NEW t \in Run, t = D => closer # "wait", ConnackOk(t) PROVE LetGoRight(q)
  BY <1>6 DEF ConnackOk
<1>7. ASSUME NEW t \in Run, t = D => closer # "wait", ConnackFails(t) PROVE LetGoRight(q)
  BY <1>7 DEF ConnackFails
<1>8. ASSUME NEW t \in Run, t = D => closer # "wait", SubOk(t) PROVE LetGoRight(q)
  BY <1>8 DEF SubOk
<1>9. ASSUME NEW t \in Run, t = D => closer # "wait", SubFails(t) PROVE LetGoRight(q)
  BY <1>9 DEF SubFails
<1>10. ASSUME NEW t \in Run, t = D => closer # "wait", Shut(t) PROVE LetGoRight(q)
  BY <1>10 DEF Shut, AfterFailure, ClosePipe
<1>11. CASE LoopEnds
  BY <1>11 DEF LoopEnds, LoopTop
<1>12. CASE CheckAlive
  BY <1>12 DEF CheckAlive, LoopTop
<1>13. CASE CheckDead
  BY <1>13 DEF CheckDead, LoopTop, ClosePipe
<1>14. CASE CheckNone
  BY <1>14 DEF CheckNone, LoopTop, Reset
<1>15. CASE Close
  BY <1>15 DEF Close, Dispatching, TaskGone, Finish
<1>16. CASE DispatcherCancelled
  BY <1>16 DEF DispatcherCancelled, LetGo, ClosePipe, TaskGone, Finish
<1>17. CASE SubCancelled
  BY <1>17 DEF SubCancelled
<1>18. CASE Dying
  BY <1>18 DEF Dying, ClosePipe, TaskGone, Finish
<1>19. CASE Bye
  BY <1>19 DEF Bye
<1>20. CASE PipeClosed
  BY <1>20 DEF PipeClosed, ClosePipe, Finish
<1>21. ASSUME NEW p \in Pipe, Suback(p) PROVE LetGoRight(q)
  BY <1>21 DEF Suback
<1>22. ASSUME NEW p \in Pipe, PipeLost(p) PROVE LetGoRight(q)
  BY <1>22 DEF PipeLost
<1>23. CASE UNCHANGED vars
  BY <1>23 DEF vars
<1>24. CASE DispatcherDies
  BY <1>24 DEF DispatcherDies
<1> QED
  BY <1>1, <1>2, <1>3, <1>4, <1>5, <1>6, <1>7, <1>8, <1>9, <1>10, <1>11, <1>12,
     <1>13, <1>14, <1>15, <1>16, <1>17, <1>18, <1>19, <1>20, <1>21, <1>22, <1>23, <1>24 DEF
     Next, AttemptOf, Dispatcher, Closing

\* An open connection is let go of only by a run that is cancelled at one of two
\* awaits, or because overlapping calls have given client.pipe another value: no
\* failure of an attempt, no reconnect and no close() by itself forgets one.
THEOREM OpenConnectionsAreClosed == Spec => LeftOpen
<1>1. Types /\ HandInv /\ [Next]_vars => Types' /\ HandInv'
  BY TypesStep, HandStep
<1>2. Types /\ HandInv /\ [Next]_vars => [\A p \in Pipe : LetGoRight(p)]_vars
  BY LeftStep
<1> QED
  BY TypesInit, HandInit, <1>1, <1>2, PTL DEF Spec, LeftOpen, LetGoRight
=============================================================================
