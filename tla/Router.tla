------------------------------- MODULE Router -------------------------------
(***************************************************************************)
(* The Router's bookkeeping of its clients: start(), pipe() with discovery *)
(* and cache, the idle closer and close(), each of which may be at an      *)
(* await while the others go on.                                           *)
(*                                                                         *)
(* A client's connection is seen from outside here: Session details it.    *)
(* Time is in passes of the idle closer; ages are kept instead of times.   *)
(* Closing one client takes less than a tick; what happens after close(),  *)
(* other than what was under way, is left out, and so is a dispatcher that *)
(* ends by itself (see Dispatcher and Session).  The server list has at    *)
(* most the 10 brokers a walk tries (see Discovery for longer ones).       *)
(***************************************************************************)
EXTENDS Naturals, FiniteSets, SequencesExt

CONSTANTS
  Seed,     \* brokers of the server list
  Late,     \* brokers that only other nodes' hints name
  User,     \* tasks that call pipe() and hold the SmartPipe they get
  S,        \* the task that calls start(), once
  Dest,     \* destinations of pipe()
  Me,       \* the router's own key
  Flaky,    \* brokers to which a connect may fail
  Hints,    \* the lists of brokers that destinations advertise
  Idle,     \* IDLE_CLIENT_TIMEOUT
  Retry,    \* retry_duration of try_client
  UseCache, \* the values of use_cache that pipe() is called with
  Overlap,  \* close() may be called while pipe() is looking for clients
  None

Client == Seed \cup Late
Caller == User \cup {S}
Key    == Dest \cup {Me}

ASSUME RouterAssumption ==
  /\ IsFiniteSet(Seed) /\ IsFiniteSet(Late) /\ Seed \cap Late = {}
  /\ S \notin User
  /\ Flaky \subseteq Client /\ Hints \subseteq SUBSET Client \ {{}}
  /\ Idle \in Nat \ {0} /\ Retry \in Nat /\ Retry >= Idle
  /\ UseCache \subseteq BOOLEAN /\ Overlap \in BOOLEAN

VARIABLES
  clients,      \* router.clients, in the order of insertion
  task,         \* dispatcher_task of each client
  pipe,         \* whether client.pipe is set
  isClosed,     \* client.is_closed
  lastSend,     \* the age of client.last_send
  lastConnect,  \* the age of client.last_connect
  cache,        \* the clients cached for a destination
  caller,       \* where each call of start() or pipe() is
  loop,         \* the two loops over router.clients: idle closer and close()
  protected     \* protected_clients

conns == <<task, pipe, isClosed, lastSend, lastConnect>>
vars  == <<clients, conns, cache, caller, loop, protected>>

\* trying: the clients a call is connecting to; found: those it has; caches:
\* whether it will store them; again: whether the walk is the repeated one.
Resting == [at |-> "idle", dest |-> Me, trying |-> {}, found |-> {},
            caches |-> FALSE, again |-> FALSE]

\* i, size: where the iteration is, and the size of the dict when it began.
Off == [at |-> "off", i |-> 0, size |-> 0]

Init ==
  /\ clients = SetToSeq(Seed)
  /\ task = [c \in Client |-> "none"]
  /\ pipe = [c \in Client |-> FALSE]
  /\ isClosed = [c \in Client |-> FALSE]
  /\ lastSend = [c \in Client |-> None]
  /\ lastConnect = [c \in Client |-> None]
  /\ cache = [k \in Key |-> None]
  /\ caller = [u \in Caller |-> Resting]
  /\ loop = [closer |-> Off, close |-> Off]
  /\ protected = {}

Busy(u) == caller[u].at \in {"hints", "walk"}

\* Neither loop is between two awaits: something else may move.
LoopFree == \A l \in DOMAIN loop : loop[l].at \notin {"run", "after"}

\* evict_client_from_cache, for each client of C.
Evicted(C) ==
  [k \in Key |-> IF cache[k] # None /\ cache[k] \cap C # {} THEN None ELSE cache[k]]

-----------------------------------------------------------------------------
(* start() and pipe(). *)

Least(a, b) == IF a <= b THEN a ELSE b

\* try_client at its start: a client with a dispatcher is taken as it is, one
\* that failed not long ago is passed over, the others are connected to.
Ready(C)   == {c \in C : task[c] # "none"}
Limited(c) == lastConnect[c] # None /\ lastConnect[c] < Retry
Missing(C) == {c \in C : task[c] = "none" /\ ~Limited(c)}

\* How many clients a walk looks for; with one server it looks for none.
Needed ==
  LET n == Cardinality(Seed)
  IN CASE n < 2 -> 0 [] n \in 2 .. 3 -> 1 [] n \in 4 .. 7 -> 2 [] OTHER -> 3

\* The first to complete are taken: those that are ready, up to Needed.
BeginWalk(u, r) ==
  LET ready == Ready(Seed)
      n == Least(Needed, Cardinality(ready))
  IN \E F \in {F \in SUBSET ready : Cardinality(F) = n} :
       caller' = [caller EXCEPT ![u] =
         [r EXCEPT !.at = "walk", !.found = F,
                   !.trying = IF n = Needed THEN {} ELSE Missing(Seed)]]

\* Fault: the idle closer is started first.
StartClosing ==
  /\ LoopFree /\ loop.close.at = "off"
  /\ caller[S].at = "idle"
  /\ BeginWalk(S, Resting)
  /\ loop' = [loop EXCEPT !.closer.at = "sleep"]
  /\ UNCHANGED <<clients, conns, cache, protected>>

Start ==
  /\ LoopFree /\ loop.close.at = "off"
  /\ caller[S].at = "idle"
  /\ BeginWalk(S, Resting)
  /\ UNCHANGED <<clients, conns, cache, loop, protected>>

\* A call that has returned clients C.
Holding(C) == [Resting EXCEPT !.at = "holds", !.found = C]

\* pipe() with a cached entry that is not empty: nothing is connected.
PipeCached(u, d) ==
  /\ LoopFree /\ loop.close.at = "off"
  /\ caller[u].at = "idle"
  /\ TRUE \in UseCache /\ cache[d] \notin {None, {}}
  /\ caller' = [caller EXCEPT ![u] = Holding(cache[d])]
  /\ UNCHANGED <<clients, conns, cache, loop, protected>>

\* Fault: ensure_client does not look for the client it makes.
EnsureAnew(H) == clients \o SetToSeq(H)

\* ensure_client, for each broker of H: unknown ones are added.
Ensure(H) == clients \o SetToSeq(H \ ToSet(clients))

\* pipe() without the cache, or with no entry, an empty or an expired one.
\* Hint brokers come first.
PipeHints(u, d, H, caches) ==
  /\ LoopFree /\ loop.close.at = "off"
  /\ caller[u].at = "idle"
  /\ clients' = Ensure(H)
  /\ caller' = [caller EXCEPT ![u] =
                  [Resting EXCEPT !.at = "hints", !.dest = d, !.found = Ready(H),
                                  !.trying = Missing(H), !.caches = caches]]
  /\ UNCHANGED <<conns, cache, loop, protected>>

PipeWalk(u, d, caches) ==
  /\ LoopFree /\ loop.close.at = "off"
  /\ caller[u].at = "idle"
  /\ BeginWalk(u, [Resting EXCEPT !.dest = d, !.caches = caches])
  /\ UNCHANGED <<clients, conns, cache, loop, protected>>

\* connect() succeeds: a dispatcher is started if there was none, and ends at
\* once if is_closed is set.
TryOk(u, c) ==
  /\ LoopFree
  /\ Busy(u) /\ c \in caller[u].trying
  /\ caller[u].at = "walk" => Cardinality(caller[u].found) < Needed
  /\ task' = [task EXCEPT ![c] = IF @ # "none" THEN @
                                 ELSE IF isClosed[c] THEN "done" ELSE "runs"]
  /\ pipe' = [pipe EXCEPT ![c] = TRUE]
  /\ caller' = [caller EXCEPT ![u].trying = @ \ {c}, ![u].found = @ \cup {c}]
  /\ UNCHANGED <<clients, isClosed, lastSend, lastConnect, cache, loop, protected>>

TryFails(u, c) ==
  /\ LoopFree
  /\ Busy(u) /\ c \in caller[u].trying /\ c \in Flaky
  /\ lastConnect' = [lastConnect EXCEPT ![c] = 0]
  /\ caller' = [caller EXCEPT ![u].trying = @ \ {c}]
  /\ UNCHANGED <<clients, task, pipe, isClosed, lastSend, cache, loop, protected>>

\* What pipe() does with the clients it has found.
PipeReturns(u) ==
  /\ caller' = [caller EXCEPT ![u] = Holding(caller[u].found)]
  /\ cache' = IF caller[u].caches THEN [cache EXCEPT ![caller[u].dest] = caller[u].found]
              ELSE cache
  /\ UNCHANGED <<loop, protected>>

\* The hint brokers have all answered; if none is reachable, the walk follows.
HintsDone(u) ==
  /\ LoopFree
  /\ caller[u].at = "hints" /\ caller[u].trying = {}
  /\ IF caller[u].found # {} THEN PipeReturns(u)
     ELSE BeginWalk(u, caller[u]) /\ UNCHANGED <<cache, loop, protected>>
  /\ UNCHANGED <<clients, conns>>

\* What start() does with the clients it has found: they are protected before
\* the idle closer exists.
StartReturns ==
  /\ caller' = [caller EXCEPT ![S] = Holding({})]
  /\ protected' = protected \cup caller[S].found
  /\ cache' = [cache EXCEPT ![Me] = caller[S].found]
  /\ loop' = [loop EXCEPT !.closer.at = IF @ \in {"off", "dead"} THEN "sleep" ELSE @]

\* The walk has what it needs, nothing more to try, or hits its cap, and the
\* other connects are cancelled.  A walk that found nothing is repeated once.
WalkDone(u) ==
  /\ LoopFree
  /\ caller[u].at = "walk"
  /\ IF caller[u].found = {} /\ ~caller[u].again
     THEN /\ BeginWalk(u, [caller[u] EXCEPT !.again = TRUE])
          /\ UNCHANGED <<cache, loop, protected>>
     ELSE IF u = S THEN StartReturns ELSE PipeReturns(u)
  /\ UNCHANGED <<clients, conns>>

\* SmartPipe.send queues a message on each of the pipe's clients.
Send(u) ==
  /\ LoopFree /\ loop.close.at = "off"
  /\ u # S /\ caller[u].at = "holds"
  /\ lastSend' = [c \in Client |-> IF c \in caller[u].found THEN 0 ELSE lastSend[c]]
  /\ UNCHANGED <<clients, task, pipe, isClosed, lastConnect, cache, caller, loop, protected>>

\* A message or a probe has come in on c's connection: its ack is queued, or
\* published at once, and either sets last_send.
Acks(c) ==
  /\ LoopFree /\ loop.close.at = "off"
  /\ pipe[c]
  /\ lastSend' = [lastSend EXCEPT ![c] = 0]
  /\ UNCHANGED <<clients, task, pipe, isClosed, lastConnect, cache, caller, loop, protected>>

\* SmartPipe.close evicts the pipe's clients from the cache; a pipe may also
\* be let go without it.
LetGo(u) ==
  /\ LoopFree /\ loop.close.at = "off"
  /\ u # S /\ caller[u].at = "holds"
  /\ caller' = [caller EXCEPT ![u] = Resting]
  /\ UNCHANGED <<clients, conns, loop, protected>>
  /\ \/ cache' = cache
     \/ cache' = Evicted(caller[u].found)

-----------------------------------------------------------------------------
(* client.close(), as either loop calls it. *)

Current(l) == clients[loop[l].i]

SetsClosed(l, c) ==
  /\ isClosed' = [isClosed EXCEPT ![c] = TRUE]
  /\ loop' = [loop EXCEPT ![l].at = "cancel"]

\* cancel_task has returned.
TaskGone(l) ==
  /\ LoopFree
  /\ loop[l].at = "cancel"
  /\ task' = [task EXCEPT ![Current(l)] = "none"]
  /\ loop' = [loop EXCEPT ![l].at = IF pipe[Current(l)] THEN "bye" ELSE "after"]
  /\ UNCHANGED <<clients, pipe, isClosed, lastSend, lastConnect, cache, caller, protected>>

PipeGone(l) ==
  /\ LoopFree
  /\ loop[l].at = "bye"
  /\ pipe' = [pipe EXCEPT ![Current(l)] = FALSE]
  /\ loop' = [loop EXCEPT ![l].at = "after"]
  /\ UNCHANGED <<clients, task, isClosed, lastSend, lastConnect, cache, caller, protected>>

\* The next key of a dict; it fails if the dict has grown since the loop began.
Resized(l) == Len(clients) # loop[l].size

Fails(l) ==
  /\ loop[l].at = "run" /\ Resized(l)
  /\ loop' = [loop EXCEPT ![l] = [Off EXCEPT !.at = "dead"]]
  /\ UNCHANGED <<clients, conns, cache, caller, protected>>

-----------------------------------------------------------------------------
(* The idle closer. *)

\* The sleep of IDLE_CLIENT_INTERVAL has ended: a pass begins.
Wake ==
  /\ LoopFree
  /\ loop.closer.at = "due"
  /\ loop' = [loop EXCEPT !.closer = [at |-> "run", i |-> 1, size |-> Len(clients)]]
  /\ UNCHANGED <<clients, conns, cache, caller, protected>>

\* last_active of a client that nothing was sent on: last_connect, or now.
Baseline(c) == IF lastConnect[c] = None THEN 0 ELSE lastConnect[c]


\* The pass comes to the next client: one that is protected or has no
\* dispatcher is skipped, one that is not idle for long enough stays.
Visit ==
  /\ loop.closer.at = "run" /\ ~Resized("closer")
  /\ loop.closer.i <= Len(clients)
  /\ LET c == Current("closer")
         skip == task[c] = "none" \/ c \in protected
         active == IF lastSend[c] = None THEN Baseline(c) ELSE lastSend[c]
     IN /\ lastSend' = IF skip THEN lastSend ELSE [lastSend EXCEPT ![c] = active]
        /\ IF skip \/ active < Idle
           THEN loop' = [loop EXCEPT !.closer.i = @ + 1] /\ UNCHANGED isClosed
           ELSE SetsClosed("closer", c)
  /\ UNCHANGED <<clients, task, pipe, lastConnect, cache, caller, protected>>

\* Fault: the cache is not told.
ReusableCached ==
  /\ loop.closer.at = "after"
  /\ LET c == Current("closer")
     IN /\ isClosed' = [isClosed EXCEPT ![c] = FALSE]
        /\ lastSend' = [lastSend EXCEPT ![c] = None]
        /\ UNCHANGED cache
  /\ loop' = [loop EXCEPT !.closer.at = "run", !.closer.i = @ + 1]
  /\ UNCHANGED <<clients, task, pipe, lastConnect, caller, protected>>

\* client.close() has returned: the client is made usable again.
Reusable ==
  /\ loop.closer.at = "after"
  /\ LET c == Current("closer")
     IN /\ isClosed' = [isClosed EXCEPT ![c] = FALSE]
        /\ lastSend' = [lastSend EXCEPT ![c] = None]
        /\ cache' = Evicted({c})
  /\ loop' = [loop EXCEPT !.closer.at = "run", !.closer.i = @ + 1]
  /\ UNCHANGED <<clients, task, pipe, lastConnect, caller, protected>>

PassDone ==
  /\ loop.closer.at = "run" /\ ~Resized("closer")
  /\ loop.closer.i > Len(clients)
  /\ loop' = [loop EXCEPT !.closer = [Off EXCEPT !.at = "sleep"]]
  /\ UNCHANGED <<clients, conns, cache, caller, protected>>

-----------------------------------------------------------------------------
(* Router.close(). *)

\* The idle closer is cancelled first.  In client.close() it leaves is_closed
\* set, and a dispatcher that was cancelled, or a pipe, behind.
Close ==
  /\ LoopFree
  /\ loop.close.at = "off"
  /\ Overlap \/ ~\E u \in Caller : Busy(u)
  /\ task' = IF loop.closer.at = "cancel" THEN [task EXCEPT ![Current("closer")] = "done"]
             ELSE task
  /\ loop' = [closer |-> Off, close |-> [at |-> "run", i |-> 1, size |-> Len(clients)]]
  /\ UNCHANGED <<clients, pipe, isClosed, lastSend, lastConnect, cache, caller, protected>>

\* Fault: is_closed is not cleared before client.close(), which then returns
\* at once.
CloseNextAsIs ==
  /\ loop.close.at = "run" /\ ~Resized("close")
  /\ IF loop.close.i > Len(clients)
     THEN loop' = [loop EXCEPT !.close = [Off EXCEPT !.at = "done"]] /\ UNCHANGED isClosed
     ELSE IF isClosed[Current("close")]
     THEN loop' = [loop EXCEPT !.close.i = @ + 1] /\ UNCHANGED isClosed
     ELSE SetsClosed("close", Current("close"))
  /\ UNCHANGED <<clients, task, pipe, lastSend, lastConnect, cache, caller, protected>>

CloseNext ==
  /\ loop.close.at = "run" /\ ~Resized("close")
  /\ IF loop.close.i > Len(clients)
     THEN loop' = [loop EXCEPT !.close = [Off EXCEPT !.at = "done"]] /\ UNCHANGED isClosed
     ELSE SetsClosed("close", Current("close"))
  /\ UNCHANGED <<clients, task, pipe, lastSend, lastConnect, cache, caller, protected>>

Closed ==
  /\ loop.close.at = "after"
  /\ loop' = [loop EXCEPT !.close.at = "run", !.close.i = @ + 1]
  /\ UNCHANGED <<clients, conns, cache, caller, protected>>

-----------------------------------------------------------------------------
Older(age, cap) == IF age = None \/ age >= cap THEN age ELSE age + 1

Tick ==
  /\ loop.close.at = "off" /\ loop.closer.at \in {"off", "sleep", "dead"}
  /\ lastSend' = [c \in Client |-> Older(lastSend[c], Idle)]
  /\ lastConnect' = [c \in Client |-> Older(lastConnect[c], Retry)]
  /\ loop' = [loop EXCEPT !.closer.at = IF @ = "sleep" THEN "due" ELSE @]
  /\ UNCHANGED <<clients, task, pipe, isClosed, cache, caller, protected>>

IdleCloser == \/ Wake \/ Visit \/ Reusable \/ PassDone
              \/ TaskGone("closer") \/ PipeGone("closer") \/ Fails("closer")

Closing == CloseNext \/ Closed \/ TaskGone("close") \/ PipeGone("close") \/ Fails("close")

Connecting(u) == \/ HintsDone(u) \/ WalkDone(u)
                 \/ \E c \in Client : TryOk(u, c) \/ TryFails(u, c)

Next ==
  \/ Start
  \/ \E u \in User : Send(u) \/ LetGo(u)
  \/ \E u \in User, d \in Dest :
       \/ PipeCached(u, d)
       \/ \E caches \in UseCache :
            \/ PipeWalk(u, d, caches)
            \/ \E H \in Hints : PipeHints(u, d, H, caches)
  \/ \E u \in Caller : Connecting(u)
  \/ \E c \in Client : Acks(c)
  \/ IdleCloser \/ Close \/ Closing
  \/ Tick

Spec == Init /\ [][Next]_vars

\* Awaits end, and time goes on.
FairSpec == Spec /\ WF_vars(IdleCloser) /\ WF_vars(Closing) /\ WF_vars(Tick)

-----------------------------------------------------------------------------
(* Properties. *)

TypeOK ==
  /\ ToSet(clients) \subseteq Client /\ Len(clients) = Cardinality(ToSet(clients))
  /\ task \in [Client -> {"none", "runs", "done"}]
  /\ pipe \in [Client -> BOOLEAN] /\ isClosed \in [Client -> BOOLEAN]
  /\ lastSend \in [Client -> 0 .. Retry \cup {None}]
  /\ lastConnect \in [Client -> 0 .. Retry \cup {None}]
  /\ \A k \in Key : cache[k] = None \/ cache[k] \subseteq Client
  /\ \A u \in Caller : /\ caller[u].at \in {"idle", "hints", "walk", "holds"}
                       /\ caller[u].dest \in Key
                       /\ caller[u].trying \subseteq Client /\ caller[u].found \subseteq Client
  /\ \A l \in DOMAIN loop :
       loop[l].at \in {"off", "sleep", "due", "run", "cancel", "bye", "after", "dead", "done"}
  /\ protected \subseteq Client

\* router.py:309: a client that the idle closer closes leaves the cache with
\* that: an entry whose clients all have a dispatcher does not become one with
\* a closed client in it, wherever a pipe() stores it during the close.
BeingClosed(c) == loop.closer.at \in {"bye", "after"} /\ Current("closer") = c
Sound(k) ==
  cache[k] # None /\ \A c \in cache[k] : task[c] # "none" \/ BeingClosed(c)

EntriesStaySound ==
  [][\A k \in Key : Sound(k) /\ cache'[k] = cache[k] /\ loop'.close.at = "off"
        => Sound(k)']_vars

\* The first loaded group carries the inbound subscription and stays open until
\* close(): "the idle-closer below leaves them alone for the Router's lifetime".
InboundKept ==
  loop.close.at = "off" => \A c \in protected : task[c] = "runs" /\ pipe[c]

\* Router.close(), wherever in client.close() it cancels the idle closer,
\* returns with no dispatcher and no pipe left.
CloseReleases ==
  loop.close.at = "done" => \A c \in Client : task[c] = "none" /\ ~pipe[c]

\* Every client that is neither protected nor sent on, by a user or to ack what
\* came in, is closed in the end.
\* The idle closer goes on for ever unless a broker is added that is not of the
\* server list: it does not survive that in the middle of a pass.
Unused(c) == /\ task[c] # "none" /\ c \notin protected
             /\ caller[S].at = "holds" /\ loop.close.at = "off"

Used(c) == Acks(c) \/ \E u \in User : c \in caller[u].found /\ Send(u)

=============================================================================
