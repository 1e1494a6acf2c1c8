------------------------------ MODULE Session ------------------------------
(***************************************************************************)
(* One MQTTClient's connection to its broker: connect(), the reconnect     *)
(* loop of its dispatcher, and close(), which may all be at an await at    *)
(* the same time and share client.pipe, client.packet_ids and              *)
(* client.dispatcher_task.                                                 *)
(*                                                                         *)
(* A run is a task inside mqtt_connect: a caller of connect(), or the      *)
(* dispatcher D.  A pipe is a TCP connection.  Some of the code forgets    *)
(* about pipes; they are told apart so that it shows.                      *)
(***************************************************************************)
EXTENDS Naturals

CONSTANTS
  Caller,   \* tasks that call connect()
  D,        \* the dispatcher task
  Pipe,     \* bound on the connections that exist at the same time
  MaxId,    \* the largest packet id (65535)
  Reuse,    \* close() is called by the router's idle closer, who clears is_closed
  Overlap,  \* connect() and close() may be called while the other is running
  Cancel,   \* callers of connect() may be cancelled (the walk's cap, timeouts)
  None

Run == Caller \cup {D}
Id  == 1 .. MaxId

ASSUME SessionAssumption ==
  /\ MaxId \in Nat /\ D \notin Caller /\ None \notin Pipe
  /\ Reuse \in BOOLEAN /\ Overlap \in BOOLEAN /\ Cancel \in BOOLEAN

VARIABLES
  pipe,      \* client.pipe
  net,       \* the state of each connection; "lost": on_close is set
  at,        \* the await each run is at
  mine,      \* the connection a run has opened and not yet handed over
  futs,      \* packet_ids[SUBACK]: the connection each future was made for
  packetId,  \* client.packet_id
  owed,      \* the id of the SUBSCRIBE the broker has yet to acknowledge
  joined,    \* history: the connections the broker has subscribed
  isClosed,  \* client.is_closed
  closer,    \* the await close() is at
  closing    \* the connection it is closing

vars == <<pipe, net, at, mine, futs, packetId, owed, joined, isClosed, closer, closing>>

Handshake == {"tcp", "connack", "suback", "subbed", "shut", "dying"}

Init ==
  /\ pipe = None /\ closing = None
  /\ net = [p \in Pipe |-> "free"]
  /\ at = [t \in Run |-> IF t = D THEN "none" ELSE "idle"]
  /\ mine = [t \in Run |-> None]
  /\ futs = [i \in Id |-> None]
  /\ packetId = 0
  /\ owed = [p \in Pipe |-> 0]
  /\ joined = {}
  /\ isClosed = FALSE
  /\ closer = "idle"

Held(p) == p = pipe \/ p = closing \/ \E t \in Run : mine[t] = p

\* dispatcher_task is set and not done.
Dispatching == at[D] \notin {"none", "done"}

ClosePipe(p) == net' = [net EXCEPT ![p] = "closed"] /\ owed' = [owed EXCEPT ![p] = 0]

-----------------------------------------------------------------------------
(* mqtt_connect. *)

\* connect(), past its re-entry guard.
Connect(c) ==
  /\ at[c] = "idle" /\ ~Dispatching
  /\ Overlap \/ closer = "idle"
  /\ at' = [at EXCEPT ![c] = "tcp"]
  /\ UNCHANGED <<pipe, net, mine, futs, packetId, owed, joined, isClosed, closer, closing>>

\* Fault: connect() tries again by itself.
AfterFailureRetry(t) == "backoff"

\* Where a run goes whose attempt has failed.
AfterFailure(t) == IF t = D THEN "backoff" ELSE "idle"

TcpUp(t) ==
  /\ at[t] = "tcp"
  /\ \E p \in Pipe :
       /\ net[p] # "open" /\ ~Held(p)
       /\ net' = [net EXCEPT ![p] = "open"]
       /\ mine' = [mine EXCEPT ![t] = p]
       /\ joined' = joined \ {p}
  /\ at' = [at EXCEPT ![t] = "connack"]
  /\ UNCHANGED <<pipe, futs, packetId, owed, isClosed, closer, closing>>

TcpFails(t) ==
  /\ at[t] = "tcp"
  /\ at' = [at EXCEPT ![t] = AfterFailure(t)]
  /\ UNCHANGED <<pipe, net, mine, futs, packetId, owed, joined, isClosed, closer, closing>>

\* get_packet_id: the next id that is not in flight.
NextIds ==
  LET after(k) == ((packetId + k - 1) % MaxId) + 1
  IN {after(k) : k \in {k \in Id : /\ futs[after(k)] = None
                                   /\ \A j \in 1 .. k - 1 : futs[after(j)] # None}}

\* A good CONNACK: client.pipe is set, SUBSCRIBE is sent, its future made.
ConnackOk(t) ==
  /\ at[t] = "connack" /\ net[mine[t]] = "open"
  /\ pipe' = mine[t]
  /\ \E i \in NextIds :
       /\ packetId' = i
       /\ futs' = [futs EXCEPT ![i] = mine[t]]
       /\ owed' = [owed EXCEPT ![mine[t]] = i]
  /\ at' = [at EXCEPT ![t] = "suback"]
  /\ UNCHANGED <<net, mine, joined, isClosed, closer, closing>>

\* Fault: the connection is not closed.
ConnackFailsOpen(t) ==
  /\ at[t] = "connack"
  /\ at' = [at EXCEPT ![t] = AfterFailure(t)]
  /\ mine' = [mine EXCEPT ![t] = None]
  /\ UNCHANGED <<pipe, net, futs, packetId, owed, joined, isClosed, closer, closing>>

\* No CONNACK in time, or a bad one: the run closes its connection.
ConnackFails(t) ==
  /\ at[t] = "connack"
  /\ at' = [at EXCEPT ![t] = "shut"]
  /\ UNCHANGED <<pipe, net, mine, futs, packetId, owed, joined, isClosed, closer, closing>>

\* handle_broker_ack for a SUBACK on p: it resolves the future under its id,
\* whichever connection that was made for.
Suback(p) ==
  /\ net[p] = "open" /\ owed[p] # 0
  /\ owed' = [owed EXCEPT ![p] = 0]
  /\ joined' = joined \cup {p}
  /\ futs' = [futs EXCEPT ![owed[p]] = None]
  /\ at' = [t \in Run |-> IF /\ at[t] = "suback" /\ futs[owed[p]] # None
                             /\ mine[t] = futs[owed[p]]
                          THEN "subbed" ELSE at[t]]
  /\ UNCHANGED <<pipe, net, mine, packetId, isClosed, closer, closing>>

\* Fault: the SUBACK is not waited for.
SubOkAtOnce(t) ==
  /\ at[t] \in {"suback", "subbed"}
  /\ at' = [r \in Run |-> CASE r = t -> IF t = D THEN "serve" ELSE "up"
                            [] r = D /\ r # t /\ at[D] = "none" -> "start"
                            [] OTHER -> at[r]]
  /\ mine' = [mine EXCEPT ![t] = None]
  /\ UNCHANGED <<pipe, net, futs, packetId, owed, joined, isClosed, closer, closing>>

\* The run sees that its future is done.  connect() starts a dispatcher unless
\* dispatcher_task is set, even to a task that is done.
SubOk(t) ==
  /\ at[t] = "subbed"
  /\ at' = [r \in Run |-> CASE r = t -> IF t = D THEN "serve" ELSE "up"
                            [] r = D /\ r # t /\ at[D] = "none" -> "start"
                            [] OTHER -> at[r]]
  /\ mine' = [mine EXCEPT ![t] = None]
  /\ UNCHANGED <<pipe, net, futs, packetId, owed, joined, isClosed, closer, closing>>

\* Fault: the connection is forgotten, not closed.
SubFailsOpen(t) ==
  /\ at[t] \in {"suback", "subbed"}
  /\ pipe' = None
  /\ mine' = [mine EXCEPT ![t] = None]
  /\ at' = [at EXCEPT ![t] = AfterFailure(t)]
  /\ UNCHANGED <<net, futs, packetId, owed, joined, isClosed, closer, closing>>

\* A timeout, a refused subscription, or a future that a reset has cancelled:
\* client.pipe is cleared, whatever it is, and the run's own connection closed.
SubFails(t) ==
  /\ at[t] \in {"suback", "subbed"}
  /\ pipe' = None
  /\ at' = [at EXCEPT ![t] = "shut"]
  /\ UNCHANGED <<net, mine, futs, packetId, owed, joined, isClosed, closer, closing>>

Shut(t) ==
  /\ at[t] = "shut"
  /\ ClosePipe(mine[t])
  /\ mine' = [mine EXCEPT ![t] = None]
  /\ at' = [at EXCEPT ![t] = AfterFailure(t)]
  /\ UNCHANGED <<pipe, futs, packetId, joined, isClosed, closer, closing>>

\* CancelledError at any other await of mqtt_connect than that of the SUBACK
\* (which SubFails handles, too): there is no handler, so a connection that is
\* not yet client.pipe is let go as it is, and one that the run was closing is
\* closed or still open.
LetGo(t) ==
  /\ UNCHANGED <<net, owed>> \/ (at[t] = "shut" /\ ClosePipe(mine[t]))
  /\ mine' = [mine EXCEPT ![t] = None]

\* The timeout of connect(), of try_client, or the cap of walk_af.
ConnectCancelled(c) ==
  /\ Cancel
  /\ at[c] \in {"tcp", "connack", "shut"}
  /\ LetGo(c)
  /\ at' = [at EXCEPT ![c] = "idle"]
  /\ UNCHANGED <<pipe, futs, packetId, joined, isClosed, closer, closing>>

\* A caller that is connected may call connect() again.
Again(c) ==
  /\ at[c] = "up"
  /\ at' = [at EXCEPT ![c] = "idle"]
  /\ UNCHANGED <<pipe, net, mine, futs, packetId, owed, joined, isClosed, closer, closing>>

-----------------------------------------------------------------------------
(* The dispatcher and its reconnect_loop. *)

\* reset_session_state of mqtt/utils.py: all futures are cancelled.
Reset == futs' = [i \in Id |-> None] /\ packetId' = 0

\* Where the dispatcher enters its loop: at the start, after the pause that ends
\* a sweep, after the backoff of an attempt that failed.
LoopTop == closer # "wait" /\ at[D] \in {"start", "serve", "backoff"}

LoopEnds ==
  /\ LoopTop /\ isClosed
  /\ at' = [at EXCEPT ![D] = "done"]
  /\ UNCHANGED <<pipe, net, mine, futs, packetId, owed, joined, isClosed, closer, closing>>

\* A sweep ends with an exception that the dispatcher does not catch: Dispatcher
\* shows how.  dispatcher_task stays set, client.pipe stays open.
DispatcherDies ==
  /\ closer # "wait" /\ at[D] = "serve"
  /\ at' = [at EXCEPT ![D] = "done"]
  /\ UNCHANGED <<pipe, net, mine, futs, packetId, owed, joined, isClosed, closer, closing>>

\* reconnect_loop finds a connection that works, one that does not, or none.
CheckAlive ==
  /\ LoopTop /\ ~isClosed
  /\ pipe # None /\ net[pipe] = "open"
  /\ at' = [at EXCEPT ![D] = "serve"]
  /\ UNCHANGED <<pipe, net, mine, futs, packetId, owed, joined, isClosed, closer, closing>>

\* Fault: the dead connection is closed and not replaced.
CheckDeadStays ==
  /\ LoopTop /\ ~isClosed
  /\ pipe # None /\ net[pipe] # "open"
  /\ ClosePipe(pipe)
  /\ at' = [at EXCEPT ![D] = "serve"]
  /\ UNCHANGED <<pipe, mine, futs, packetId, joined, isClosed, closer, closing>>

CheckDead ==
  /\ LoopTop /\ ~isClosed
  /\ pipe # None /\ net[pipe] # "open"
  /\ ClosePipe(pipe)
  /\ at' = [at EXCEPT ![D] = "reset"]
  /\ UNCHANGED <<pipe, mine, futs, packetId, joined, isClosed, closer, closing>>

\* Fault: is_closed is not looked at.
CheckNoneIfClosed ==
  /\ closer # "wait"
  /\ (LoopTop /\ pipe = None) \/ at[D] = "reset"
  /\ Reset
  /\ at' = [at EXCEPT ![D] = "tcp"]
  /\ UNCHANGED <<pipe, net, mine, owed, joined, isClosed, closer, closing>>

CheckNone ==
  /\ \/ LoopTop /\ ~isClosed /\ pipe = None
     \/ closer # "wait" /\ at[D] = "reset"
  /\ Reset
  /\ at' = [at EXCEPT ![D] = "tcp"]
  /\ UNCHANGED <<pipe, net, mine, owed, joined, isClosed, closer, closing>>

PipeLost(p) ==
  /\ net[p] = "open"
  /\ net' = [net EXCEPT ![p] = "lost"]
  /\ owed' = [owed EXCEPT ![p] = 0]
  /\ UNCHANGED <<pipe, at, mine, futs, packetId, joined, isClosed, closer, closing>>

-----------------------------------------------------------------------------
(* close(). *)

\* The end of close(); the idle closer then makes the client usable again.
Finish ==
  /\ closer' = IF Reuse THEN "idle" ELSE "over"
  /\ isClosed' = ~Reuse
  /\ futs' = IF Reuse THEN [i \in Id |-> None] ELSE futs

\* Fault: the pipe is not closed.
TaskGonePipeStays == at' = [at EXCEPT ![D] = "none"] /\ Finish

\* cancel_task has returned, at once if nothing was running: dispatcher_task is
\* cleared, and DISCONNECT sent if there is a pipe.
TaskGone ==
  /\ at' = [at EXCEPT ![D] = "none"]
  /\ IF pipe = None THEN Finish
     ELSE closer' = "bye" /\ isClosed' = TRUE /\ UNCHANGED futs

\* close_idle_clients passes over a client without a dispatcher.
Close ==
  /\ closer = "idle" /\ ~isClosed
  /\ Reuse => at[D] # "none"
  /\ Overlap \/ \A c \in Caller : at[c] \notin Handshake
  /\ IF Dispatching
     THEN closer' = "wait" /\ isClosed' = TRUE /\ UNCHANGED <<at, futs>>
     ELSE TaskGone
  /\ UNCHANGED <<pipe, net, mine, packetId, owed, joined, closing>>

\* The dispatcher is cancelled at the await it is at.
DispatcherCancelled ==
  /\ closer = "wait" /\ at[D] \notin {"suback", "subbed", "dying"}
  /\ LetGo(D)
  /\ TaskGone
  /\ UNCHANGED <<pipe, packetId, joined, closing>>

\* Cancelled while it waits for the SUBACK, it closes its connection first.
SubCancelled ==
  /\ closer = "wait" /\ at[D] \in {"suback", "subbed"}
  /\ pipe' = None
  /\ at' = [at EXCEPT ![D] = "dying"]
  /\ UNCHANGED <<net, mine, futs, packetId, owed, joined, isClosed, closer, closing>>

Dying ==
  /\ closer = "wait" /\ at[D] = "dying"
  /\ ClosePipe(mine[D])
  /\ mine' = [mine EXCEPT ![D] = None]
  /\ TaskGone
  /\ UNCHANGED <<pipe, packetId, joined, closing>>

\* client.pipe is read again after that await; None has no close method, which
\* ends close() and the idle closer.
Bye ==
  /\ closer = "bye"
  /\ closing' = pipe
  /\ closer' = IF pipe = None THEN "crashed" ELSE "shut"
  /\ UNCHANGED <<pipe, net, at, mine, futs, packetId, owed, joined, isClosed>>

PipeClosed ==
  /\ closer = "shut"
  /\ ClosePipe(closing)
  /\ pipe' = None /\ closing' = None
  /\ Finish
  /\ UNCHANGED <<at, mine, packetId, joined>>

-----------------------------------------------------------------------------
\* A dispatcher that has been cancelled does not go on.
AttemptOf(t) ==
  /\ t = D => closer # "wait"
  /\ \/ TcpUp(t) \/ TcpFails(t) \/ ConnackOk(t) \/ ConnackFails(t)
     \/ SubOk(t) \/ SubFails(t) \/ Shut(t)

Dispatcher == LoopEnds \/ CheckAlive \/ CheckDead \/ CheckNone

Closing == DispatcherCancelled \/ SubCancelled \/ Dying \/ Bye \/ PipeClosed

Next ==
  \/ \E c \in Caller : Connect(c) \/ ConnectCancelled(c) \/ Again(c)
  \/ \E t \in Run : AttemptOf(t)
  \/ Dispatcher \/ DispatcherDies \/ Close \/ Closing
  \/ \E p \in Pipe : Suback(p) \/ PipeLost(p)

Spec == Init /\ [][Next]_vars

\* Awaits end, an attempt that is repeated for ever succeeds in the end, a broker
\* that is asked again and again subscribes client.pipe in the end, and it drops
\* a connection that nobody uses any more.
FairSpec ==
  /\ Spec
  /\ WF_vars(Dispatcher) /\ WF_vars(Closing)
  /\ WF_vars(AttemptOf(D))
  /\ SF_vars(AttemptOf(D) /\ TcpUp(D)) /\ SF_vars(AttemptOf(D) /\ ConnackOk(D))
  /\ SF_vars(\E p \in Pipe : p = pipe /\ Suback(p))
  /\ SF_vars(AttemptOf(D) /\ SubOk(D))
  /\ \A p \in Pipe : WF_vars(~Held(p) /\ PipeLost(p))

-----------------------------------------------------------------------------
(* Properties. *)

TypeOK ==
  /\ pipe \in Pipe \cup {None} /\ closing \in Pipe \cup {None}
  /\ net \in [Pipe -> {"free", "open", "lost", "closed"}]
  /\ \A c \in Caller : at[c] \in (Handshake \ {"dying"}) \cup {"idle", "up"}
  /\ at[D] \in Handshake \cup {"none", "start", "reset", "serve", "backoff", "done"}
  /\ mine \in [Run -> Pipe \cup {None}]
  /\ futs \in [Id -> Pipe \cup {None}]
  /\ packetId \in 0 .. MaxId
  /\ owed \in [Pipe -> 0 .. MaxId]
  /\ joined \subseteq Pipe
  /\ isClosed \in BOOLEAN
  /\ closer \in {"idle", "wait", "bye", "shut", "over", "crashed"}

\* A run takes its connection for subscribed on the SUBACK of that connection, not
\* on one of an earlier connection whose packet ids came again; except a late one of
\* a connection that nobody has any more, whose pipe.close() was cancelled.
SubackIsOwn ==
  [][\A t \in Run : at[t] = "suback" /\ at'[t] \in {"subbed", "serve", "up"}
        => \E p \in Pipe : /\ owed[p] # 0 /\ p \in joined'
                          /\ (p = mine[t] \/ ~Held(p))]_vars

\* connect(): "Connect to the MQTT server and start the background message
\* dispatcher" (mqtt_client.py:180): no caller is told it is connected on a
\* client that nothing publishes for.
ConnectStartsDispatcher ==
  [][\A c \in Caller : at[c] = "subbed" /\ at'[c] = "up"
        => at'[D] \notin {"none", "done"}]_vars

CloseReturns == (Close \/ Closing) /\ closer' \in {"idle", "over"}

\* close(): "Cleanly shut down the dispatcher, send DISCONNECT, and close the
\* pipe": when it returns, wherever the dispatcher was when it was cancelled, no
\* dispatcher is left and no connection that the client had is open; except one
\* whose CONNACK or whose own close the dispatcher was waiting for.
CloseReleases ==
  [][CloseReturns =>
       /\ at'[D] = "none" /\ pipe' = None
       /\ \A p \in Pipe : Held(p) /\ net'[p] = "open"
             => mine[D] = p /\ at[D] \in {"connack", "shut"}]_vars

\* A client that is closed for good never gets a dispatcher that does anything,
\* whatever calls of connect() were under way when close() was called.
ClosedForGood ==
  closer \in {"over", "crashed"} => at[D] \in {"none", "start", "done"}

\* The ways in which p is let go.  Its run is cancelled while it waits for the
\* CONNACK, or for pipe.close(); ...
Cancelled(p) ==
  \E t \in Run : /\ mine[t] = p /\ at[t] \in {"connack", "shut"}
                /\ at'[t] = IF t = D THEN "none" ELSE "idle"

\* ... it was client.pipe, and another run has set client.pipe to its own connection
\* or cleared it, or close() has, which was closing an earlier one; ...
Overwritten(p) ==
  /\ pipe = p
  /\ \/ \E t \in Run : /\ mine[t] \notin {p, None}
                       /\ at[t] \in {"connack", "suback", "subbed"} /\ at'[t] # at[t]
     \/ closer = "shut" /\ closing # p

\* ... or its run has ended well, when client.pipe was no longer p.
Superseded(p) == pipe # p /\ \E t \in Run : mine[t] = p /\ at[t] = "subbed"

\* An open connection that client.pipe or a task has is let go of in these ways only:
\* every attempt that fails by itself closes what it opened, and so do reconnect_loop
\* and close(), however calls of connect() and close() overlap.  (utils.py:284-286 says
\* of cancelled connects "They unwind and close their own half-open pipes in the
\* background".)
LeftOpen ==
  [][\A p \in Pipe :
       net[p] = "open" /\ Held(p) /\ net'[p] = "open" /\ ~Held(p)'
         => Cancelled(p) \/ Overwritten(p) \/ Superseded(p)]_vars

\* A dispatcher that runs gets a subscribed connection, after any number of
\* lost connections and failed attempts, unless close() ends it first.
Works == pipe # None /\ net[pipe] = "open" /\ pipe \in joined

Reconnects == Dispatching ~> (Works \/ ~Dispatching)
=============================================================================
