----------------------------- MODULE Discovery -----------------------------
(***************************************************************************)
(* How nodes find brokers: the ranking of a key's brokers, the walk over   *)
(* them, the hints a node keeps in a file for its next start, and the      *)
(* hints a node gives to others.                                           *)
(*                                                                         *)
(* A node is a process that may end at any time and be started again; all  *)
(* nodes of a host share the hint file.  One address family; the walks of  *)
(* the families do not touch each other's clients.                         *)
(***************************************************************************)
EXTENDS Integers, FiniteSets, SequencesExt

CONSTANTS
  Node,       \* processes; each has its own key
  Broker,
  Score,      \* get_server_score of a key and a broker
  MaxTries,   \* connects a walk makes at most (10)
  MayFail,    \* connects may fail, and take longer than the walk's cap
  RetryEnabled,  \* broker_walk_cap is below the cap of the repeated walk
  Pipes,      \* pairs of nodes: the first one calls pipe() for the second
  MaxEnds,    \* bound on how often processes end
  None

ASSUME DiscoveryAssumption ==
  /\ IsFiniteSet(Broker) /\ MaxTries \in Nat \ {0} /\ MaxEnds \in Nat
  /\ MayFail \in BOOLEAN /\ RetryEnabled \in BOOLEAN /\ Pipes \subseteq Node \X Node
  /\ \A k \in Node, b \in Broker : Score[k][b] \in Nat
  /\ \A k \in Node, b, c \in Broker : Score[k][b] = Score[k][c] => b = c

VARIABLES
  proc,   \* each process: see Off
  file,   \* the hint file: the brokers stored under each key, or None
  addr,   \* the brokers each node has advertised
  ends,   \* how often processes have ended
  kept    \* history: what the starts of each key have found

vars == <<proc, file, addr, ends, kept>>

\* servers: the server list; up: clients with a dispatcher; limited: clients
\* whose last_connect is not long ago; own: protected_clients, None before
\* start() returns; key: what the call is for; hints: it was given; first, needed:
\* the brokers its walk tries, and how many are enough; trying, found: at the
\* moment; again: the walk is the repeated one; read: the file as store_for has
\* read it; link: what pipe() returned.
Off == [at |-> "off", servers |-> {}, up |-> {}, limited |-> {}, own |-> None,
        key |-> None, hints |-> {}, needed |-> 0, first |-> {}, trying |-> {},
        found |-> {}, again |-> FALSE, read |-> None, link |-> None]

Init ==
  /\ proc = [n \in Node |-> Off]
  /\ file = [k \in Node |-> None]
  /\ addr = [k \in Node |-> {}]
  /\ ends = 0
  /\ kept = [k \in Node |-> {}]

Become(n, r) == proc' = [proc EXCEPT ![n] = r]

-----------------------------------------------------------------------------
(* Ranking and candidates. *)

\* rendezvous_hash: the servers of one family, best score first.
Ranked(k, servers) ==
  [i \in 1 .. Cardinality(servers) |->
     CHOOSE b \in servers : Cardinality({c \in servers : Score[k][c] < Score[k][b]}) = i - 1]

\* Fault: a hinted broker stays where it is in the ranking, too.
CandidatesTwice(k, servers, hints) ==
  Ranked(k, hints \cap servers) \o Ranked(k, servers)

\* walk_af: hinted brokers that are still in the list, then the others.  The
\* order of the hints does not matter: there are fewer than MaxTries.
Candidates(k, servers, hints) ==
  Ranked(k, hints \cap servers) \o Ranked(k, servers \ hints)

BitLength[n \in Nat] == IF n = 0 THEN 0 ELSE 1 + BitLength[n \div 2]

\* min(3, max(0, n.bit_length() - 1)).
Needed(n) ==
  LET bits == BitLength[n]
  IN IF bits = 0 THEN 0 ELSE IF bits - 1 < 3 THEN bits - 1 ELSE 3

-----------------------------------------------------------------------------
(* The walk. *)

Least(a, b) == IF a <= b THEN a ELSE b

\* get_dest_clients for key k, before its first await: which brokers a walk
\* will try, and how many it needs.
Seeking(r, k, hints) ==
  LET all == Candidates(k, r.servers, hints)
  IN [r EXCEPT !.key = k, !.needed = Needed(Len(all)),
               !.first = IF Needed(Len(all)) = 0 THEN {}
                         ELSE ToSet(SubSeq(all, 1, Least(MaxTries, Len(all))))]

\* try_client, at its start, for each of them: those with a dispatcher are done,
\* those that failed not long ago passed over.  Of those that are done no more
\* are collected than are needed.
Walks(r) ==
  LET n == Least(r.needed, Cardinality(r.first \cap r.up))
  IN {[r EXCEPT !.at = IF n = r.needed THEN "full" ELSE "walk", !.found = F,
                !.trying = r.first \ (r.up \cup r.limited)] :
        F \in {F \in SUBSET (r.first \cap r.up) : Cardinality(F) = n}}

\* A process is started: its server list may have changed.
Boot(n) ==
  /\ proc[n].at = "off"
  /\ \E servers \in SUBSET Broker \ {{}} : Become(n, [Off EXCEPT !.at = "idle", !.servers = servers])
  /\ UNCHANGED <<file, addr, ends, kept>>

\* start(): the hints are loaded and the walk begins.
Start(n) ==
  /\ proc[n].at = "idle" /\ proc[n].own = None
  /\ LET hints == IF file[n] = None THEN {} ELSE file[n]
     IN \E r \in Walks(Seeking(proc[n], n, hints)) : Become(n, r)
  /\ UNCHANGED <<file, addr, ends, kept>>

\* pipe() for a node that has not given hints.
Pipe(n, k) ==
  /\ proc[n].at = "idle" /\ proc[n].own # None
  /\ \E r \in Walks(Seeking(proc[n], k, {})) : Become(n, r)
  /\ UNCHANGED <<file, addr, ends, kept>>

\* A connect completes.  It is collected unless the walk has what it needs and
\* is about to cancel the others.
TryOk(n, b) ==
  /\ proc[n].at \in {"walk", "full", "hints"} /\ b \in proc[n].trying
  /\ LET r == proc[n]
         taken == IF r.at = "full" THEN r.found ELSE r.found \cup {b}
     IN Become(n, [r EXCEPT !.up = @ \cup {b}, !.trying = @ \ {b}, !.found = taken,
                            !.at = IF @ = "walk" /\ Cardinality(taken) = r.needed
                                   THEN "full" ELSE @])
  /\ UNCHANGED <<file, addr, ends, kept>>

\* Fault: the client is returned although it could not connect.
TryFailsReturned(n, b) ==
  /\ MayFail
  /\ proc[n].at \in {"walk", "full", "hints"} /\ b \in proc[n].trying
  /\ Become(n, [proc[n] EXCEPT !.trying = @ \ {b}, !.found = @ \cup {b}])
  /\ UNCHANGED <<file, addr, ends, kept>>

\* A connect fails: last_connect is set.
TryFails(n, b) ==
  /\ MayFail
  /\ proc[n].at \in {"walk", "full", "hints"} /\ b \in proc[n].trying
  /\ Become(n, [proc[n] EXCEPT !.trying = @ \ {b}, !.limited = @ \cup {b}])
  /\ UNCHANGED <<file, addr, ends, kept>>

\* retry_duration passes.
LimitEnds(n, b) ==
  /\ b \in proc[n].limited
  /\ Become(n, [proc[n] EXCEPT !.limited = @ \ {b}])
  /\ UNCHANGED <<file, addr, ends, kept>>

\* The call has returned: start() goes on to store what it has found.
Returns(r) ==
  [r EXCEPT !.at = IF r.own = None /\ r.found # {} THEN "store" ELSE "idle",
            !.own = IF r.own = None THEN r.found ELSE @,
            !.link = IF r.own = None THEN @ ELSE [key |-> r.key, to |-> r.found],
            !.trying = {}, !.hints = {}, !.needed = 0, !.first = {}, !.again = FALSE,
            !.key = None, !.found = {}]

\* Faults: a connect that is cancelled counts as a failure; the walk is
\* repeated as long as it finds nothing.
WalkDoneLimits(n) ==
  /\ \/ proc[n].at = "full"
     \/ proc[n].at = "walk" /\ (MayFail \/ proc[n].trying = {})
  /\ LET r == [proc[n] EXCEPT !.limited = @ \cup proc[n].trying]
     IN IF r.found = {} /\ ~r.again /\ RetryEnabled
        THEN \E w \in Walks([r EXCEPT !.again = TRUE]) : Become(n, w)
        ELSE Become(n, Returns(r))
  /\ UNCHANGED <<file, addr, ends, kept>>

WalkDoneAgain(n) ==
  /\ \/ proc[n].at = "full"
     \/ proc[n].at = "walk" /\ (MayFail \/ proc[n].trying = {})
  /\ LET r == proc[n]
     IN IF r.found = {}
        THEN \E w \in Walks([r EXCEPT !.again = TRUE]) : Become(n, w)
        ELSE Become(n, Returns(r))
  /\ UNCHANGED <<file, addr, ends, kept>>

\* The walk has what it needs, nothing left to try, or is cut off by its cap,
\* and the connects still under way are cancelled.  One that found nothing is
\* repeated once.
WalkDone(n) ==
  /\ \/ proc[n].at = "full"
     \/ proc[n].at = "walk" /\ (MayFail \/ proc[n].trying = {})
  /\ LET r == proc[n]
     IN IF r.found = {} /\ ~r.again /\ RetryEnabled
        THEN \E w \in Walks([r EXCEPT !.again = TRUE]) : Become(n, w)
        ELSE Become(n, Returns(r))
  /\ UNCHANGED <<file, addr, ends, kept>>

-----------------------------------------------------------------------------
(* Hints. *)

\* A node publishes its address with the brokers it is subscribed at.
Advertise(n) ==
  /\ proc[n].own # None
  /\ addr[n] # proc[n].own
  /\ addr' = [addr EXCEPT ![n] = proc[n].own]
  /\ UNCHANGED <<proc, file, ends, kept>>

\* pipe() with the hints of k: resolve_hint_clients tries all of them ...
PipeHints(n, k) ==
  /\ proc[n].at = "idle" /\ proc[n].own # None
  /\ addr[k] # {}
  /\ Become(n, [Seeking(proc[n], k, {}) EXCEPT !.at = "hints", !.hints = addr[k],
                     !.found = addr[k] \cap proc[n].up,
                     !.trying = addr[k] \ (proc[n].up \cup proc[n].limited)])
  /\ UNCHANGED <<file, addr, ends, kept>>

\* ... and waits for all of them; if none is reachable the walk follows.
HintsDone(n) ==
  /\ proc[n].at = "hints" /\ proc[n].trying = {}
  /\ LET r == proc[n]
     IN IF r.found # {} THEN Become(n, Returns(r))
        ELSE \E w \in Walks([r EXCEPT !.hints = {}]) : Become(n, w)
  /\ UNCHANGED <<file, addr, ends, kept>>

\* store_for reads the file ...
StoreReads(n) ==
  /\ proc[n].at = "store"
  /\ Become(n, [proc[n] EXCEPT !.at = "write", !.read = file])
  /\ kept' = [kept EXCEPT ![n] = @ \cup {proc[n].own}]
  /\ UNCHANGED <<file, addr, ends>>

\* Fault: the new brokers are added to the old ones.
StoreWritesBoth(n) ==
  /\ proc[n].at = "write"
  /\ file' = [proc[n].read EXCEPT ![n] = proc[n].own \cup (IF @ = None THEN {} ELSE @)]
  /\ Become(n, [proc[n] EXCEPT !.at = "idle", !.read = None])
  /\ UNCHANGED <<addr, ends, kept>>

\* ... replaces its own entry and then, at once, the file.  (start() has
\* returned when it has; the idle closer and the cache are in Router.)
StoreWrites(n) ==
  /\ proc[n].at = "write"
  /\ file' = [proc[n].read EXCEPT ![n] = proc[n].own]
  /\ Become(n, [proc[n] EXCEPT !.at = "idle", !.read = None])
  /\ UNCHANGED <<addr, ends, kept>>

\* A process ends, wherever it is.
End(n) ==
  /\ proc[n].at # "off" /\ ends < MaxEnds
  /\ ends' = ends + 1
  /\ Become(n, Off)
  /\ UNCHANGED <<file, addr, kept>>

-----------------------------------------------------------------------------
Call(n) == \/ WalkDone(n) \/ HintsDone(n) \/ StoreReads(n) \/ StoreWrites(n)
           \/ \E b \in Broker : TryOk(n, b) \/ TryFails(n, b)

Next ==
  \/ \E n \in Node : Boot(n) \/ Start(n) \/ Call(n) \/ End(n)
  \/ \E n \in Node, b \in Broker : LimitEnds(n, b)
  \/ \E p \in Pipes : Advertise(p[2]) \/ Pipe(p[1], p[2]) \/ PipeHints(p[1], p[2])

Spec == Init /\ [][Next]_vars

\* Every await of these calls has a time-out.
FairSpec == Spec /\ \A n \in Node : WF_vars(Call(n))

-----------------------------------------------------------------------------
(* Properties. *)

TypeOK ==
  /\ \A n \in Node :
       LET r == proc[n]
       IN /\ r.at \in {"off", "idle", "walk", "full", "hints", "store", "write"}
          /\ r.servers \subseteq Broker /\ r.up \subseteq Broker /\ r.limited \subseteq Broker
          /\ r.own = None \/ r.own \subseteq r.up
          /\ r.key \in Node \cup {None}
          /\ r.trying \subseteq Broker \ r.up /\ r.found \subseteq r.up
          /\ r.again \in BOOLEAN
  /\ \A k \in Node : file[k] = None \/ file[k] \subseteq Broker
  /\ \A k \in Node : addr[k] \subseteq Broker
  /\ ends \in 0 .. MaxEnds

\* utils.py:247-250: "stepping up at the 2 / 4 / 8 candidate-count thresholds";
\* for the walks that happen, with lists and hints of any age: a hinted broker
\* is not counted twice, and one that left the list is not counted.
Threshold(n) == CASE n < 2 -> 0 [] n \in 2 .. 3 -> 1 [] n \in 4 .. 7 -> 2 [] OTHER -> 3

NeededByServers ==
  /\ \A n \in Node :
       proc[n].at = "walk" =>
         proc[n].needed = Threshold(Cardinality(proc[n].servers))
  /\ (\A n \in Node : proc[n].at = "off") => \A n \in 0 .. 33 : Needed(n) = Threshold(n)

\* utils.py:309-313: what the cap has cut off in the first walk "gets a fresh
\* connect attempt under the larger budget" in the second.
RetryTakesUp ==
  [][\A n \in Node :
       ~proc[n].again /\ proc[n].at = "walk" /\ proc'[n].again
         => proc[n].trying \subseteq proc'[n].trying]_vars

\* broker_hint_cache.py:104-107: an entry is what one start of its own key has
\* found, whatever other processes do to the file and wherever one ends.
EntriesGenuine ==
  \A k \in Node : file[k] = None \/ file[k] \in kept[k]

\* start() and pipe() return.
CallsReturn ==
  \A n \in Node : proc[n].at \notin {"off", "idle"} ~> proc[n].at \in {"off", "idle"}

\* utils.py:141-144, of peers with one server list that reach all of its
\* brokers: "the intersection between A's publish-target set and B's protected
\* set is guaranteed per-AF".
Meet ==
  \A n, k \in Node :
    /\ proc[n].link # None /\ proc[n].link.key = k
    /\ proc[k].own # None /\ proc[k].servers = proc[n].servers
    /\ proc[n].link.to # {} /\ proc[k].own # {}
    => proc[n].link.to \cap proc[k].own # {}
=============================================================================
