--------------------------- MODULE FirestoreLookup ---------------------------
(***************************************************************************)
(* How the Firestore client answers Query.getDocuments: OnlineStateTracker,*)
(* RemoteStore's watch stream, SyncEngine and EventManager on the worker   *)
(* queue, QueryListener and ListenOnce between it and the main queue.      *)
(*                                                                         *)
(* What the worker queue owns is one record, client, because one operation *)
(* of the queue runs a chain of calls through all of it; each function of  *)
(* the code is an operator from client to client.  A HARD_ASSERT that fails*)
(* sets client.failed, and the process is over.  A query's view is without *)
(* results that only the cache has (see FirestoreLimbo), so it is synced   *)
(* when it is current.  A stream is open as soon as it has a token, since  *)
(* GrpcStream waits for nothing else, not even for the network.            *)
(***************************************************************************)
EXTENDS Integers, Sequences, FiniteSets, SequencesExt

CONSTANTS
  Lookups,     \* calls of getDocuments
  QueryOf,     \* the query of each
  MaxEvents,   \* bound: events kept for a listener that was not yet muted
  MaxChanges   \* bound: times the connectivity monitor reports a network

ASSUME LookupAssumption ==
  MaxEvents \in Nat \ {0} /\ MaxChanges \in Nat /\ DOMAIN QueryOf = Lookups

Queries == {QueryOf[l] : l \in Lookups}

VARIABLES
  client,
  queue,     \* operations enqueued on the worker queue, first in first out
  called,    \* calls made so far
  muted,     \* AsyncEventListener::muted_
  answers,   \* the answers each call's completion got
  changes,
  hungup     \* history: the server ended a call with OK while a query was listened to

userVars == <<called, muted, answers>>
vars == <<client, queue, userVars, changes, hungup>>

Client ==
  [enabled : BOOLEAN, stream : {"Initial", "Starting", "Backoff", "Open", "Error"},
   token : BOOLEAN, stale : BOOLEAN,   \* a token request of this start, of a closed one
   idle : BOOLEAN, targets : SUBSET Queries, watched : SUBSET Queries,
   online : {"Unknown", "Online", "Offline"}, failures : 0 .. 2, timer : BOOLEAN,
   view : [Queries -> {"none", "local", "synced"}],
   listeners : [Queries -> SUBSET Lookups], raised : SUBSET Lookups,
   events : [Lookups -> Seq({"cache", "server", "error"})],   \* posted to the main queue
   failed : BOOLEAN]

HardAssert(c, holds) == [c EXCEPT !.failed = @ \/ ~holds]

-----------------------------------------------------------------------------
\* QueryListener, EventManager

Post(c, S, event) ==
  [c EXCEPT !.events = [l \in Lookups |->
     IF l \in S /\ Len(c.events[l]) < MaxEvents THEN Append(c.events[l], event) ELSE c.events[l]]]

\* mutant: what the cache has is raised at once
OnViewSnapshotEager(c, listeners, fromCache) ==
  Post([c EXCEPT !.raised = @ \cup listeners], listeners, IF fromCache THEN "cache" ELSE "server")

\* getDocuments waits for the server unless the client is offline
OnViewSnapshot(c, listeners, fromCache) ==
  LET hear == {l \in listeners : l \in c.raised \/ ~fromCache \/ c.online = "Offline"}
  IN Post([c EXCEPT !.raised = @ \cup hear], hear, IF fromCache THEN "cache" ELSE "server")

Listening(c, S) == UNION {c.listeners[q] : q \in S}

\* mutant: the listeners that wait are not told
HandleOnlineStateChangeToViews(c, state) ==
  LET synced == {q \in Queries : c.view[q] = "synced"}
  IN IF state # "Offline" THEN [c EXCEPT !.online = state]
     ELSE [OnViewSnapshot([c EXCEPT !.view = [q \in Queries |-> IF q \in synced THEN "local" ELSE @[q]]],
                          Listening(c, synced), TRUE) EXCEPT !.online = state]

\* SyncEngine::HandleOnlineStateChange: the views are told before the listeners
HandleOnlineStateChange(c, state) ==
  LET synced == {q \in Queries : c.view[q] = "synced"}
      told == OnViewSnapshot([c EXCEPT !.view = [q \in Queries |-> IF q \in synced THEN "local" ELSE @[q]]],
                             Listening(c, synced), TRUE)
      waiting == Listening(told, Queries) \ told.raised
  IN IF state # "Offline" THEN [c EXCEPT !.online = state]
     ELSE Post([told EXCEPT !.online = state, !.raised = @ \cup waiting], waiting, "cache")

-----------------------------------------------------------------------------
\* OnlineStateTracker

SetAndBroadcast(c, state) ==
  IF state = c.online THEN c ELSE HandleOnlineStateChange(c, state)

HandleWatchStreamStart(c) ==
  IF c.failures # 0 THEN c
  ELSE [HardAssert(SetAndBroadcast(c, "Unknown"), ~c.timer) EXCEPT !.timer = TRUE]

HandleWatchStreamFailure(c) ==
  IF c.online = "Online"
  THEN HardAssert(SetAndBroadcast(c, "Unknown"), c.failures = 0 /\ ~c.timer)
  ELSE SetAndBroadcast([c EXCEPT !.failures = IF @ < 2 THEN @ + 1 ELSE @, !.timer = FALSE], "Offline")

\* mutant: the timer is left running
UpdateStateTimed(c, state) == SetAndBroadcast([c EXCEPT !.failures = 0], state)

UpdateState(c, state) == SetAndBroadcast([c EXCEPT !.timer = FALSE, !.failures = 0], state)

-----------------------------------------------------------------------------
\* RemoteStore and its watch stream

IsStarted(c) == c.stream \in {"Starting", "Backoff", "Open"}
ShouldStartWatchStream(c) == c.enabled /\ ~IsStarted(c) /\ c.targets # {}

\* Stream::Start: after an error it backs off first
StreamStart(c) ==
  IF c.stream = "Error" THEN [c EXCEPT !.stream = "Backoff"]
  ELSE [HardAssert(c, c.stream = "Initial") EXCEPT !.stream = "Starting", !.token = TRUE]

StartWatchStream(c) ==
  HandleWatchStreamStart(StreamStart(HardAssert(c, ShouldStartWatchStream(c))))

OnWatchStreamClose(c, graceful) ==
  LET closed == HardAssert(c, graceful => ~ShouldStartWatchStream(c))
  IN IF ShouldStartWatchStream(c)
     THEN StartWatchStream(HandleWatchStreamFailure(closed))
     ELSE UpdateState(closed, "Unknown")

Close(c, graceful) ==
  OnWatchStreamClose(
    [HardAssert(c, IsStarted(c)) EXCEPT !.idle = FALSE, !.watched = {},
       !.stale = @ \/ c.token, !.token = FALSE,
       !.stream = IF graceful THEN "Initial" ELSE "Error"], graceful)

Stop(c) == IF IsStarted(c) THEN Close(c, TRUE) ELSE c

\* Listen and StopListening of RemoteStore; a request written wakes the stream from idleness
Watch(c, q) ==
  LET listening == [c EXCEPT !.targets = @ \cup {q}]
  IN IF ShouldStartWatchStream(listening) THEN StartWatchStream(listening)
     ELSE IF c.stream = "Open" THEN [listening EXCEPT !.watched = @ \cup {q}, !.idle = FALSE]
     ELSE listening

Unwatch(c, q) ==
  LET left == [HardAssert(c, q \in c.targets) EXCEPT !.targets = @ \ {q}]
  IN IF c.stream = "Open"
     THEN [left EXCEPT !.watched = @ \ {q}, !.idle = left.targets = {}]
     ELSE IF left.targets = {} /\ c.enabled THEN UpdateState(left, "Unknown")
     ELSE left

RestartNetwork(c) ==
  LET stopped == UpdateState(Stop([c EXCEPT !.enabled = FALSE]), "Unknown")
      ready == [HardAssert(stopped, ~IsStarted(stopped)) EXCEPT !.stream = "Initial", !.enabled = TRUE]
  IN IF ShouldStartWatchStream(ready) THEN StartWatchStream(ready) ELSE UpdateState(ready, "Unknown")

-----------------------------------------------------------------------------
\* EventManager::AddQueryListener, with SyncEngine::Listen for the first
AddQueryListener(c, l) ==
  LET q == QueryOf[l]
      added == [c EXCEPT !.listeners[q] = @ \cup {l}]
  IN IF c.view[q] # "none"
     THEN OnViewSnapshot(added, {l}, c.view[q] = "local")
     ELSE Watch(OnViewSnapshot([added EXCEPT !.view[q] = "local"], {l}, TRUE), q)

\* EventManager::RemoveQueryListener, with SyncEngine::StopListening for the last
RemoveQueryListener(c, l) ==
  LET q == QueryOf[l]
      removed == [c EXCEPT !.listeners[q] = @ \ {l}]
  IN IF c.view[q] # "none" /\ removed.listeners[q] = {}
     THEN [Unwatch(removed, q) EXCEPT !.view[q] = "none"]
     ELSE removed

Init ==
  /\ client = [enabled |-> TRUE, stream |-> "Initial", token |-> FALSE, stale |-> FALSE,
               idle |-> FALSE, targets |-> {}, watched |-> {}, online |-> "Unknown",
               failures |-> 0, timer |-> FALSE, view |-> [q \in Queries |-> "none"],
               listeners |-> [q \in Queries |-> {}], raised |-> {},
               events |-> [l \in Lookups |-> <<>>], failed |-> FALSE]
  /\ queue = <<>> /\ called = {} /\ muted = {} /\ answers = [l \in Lookups |-> <<>>] /\ changes = 0
  /\ hungup = FALSE

\* a step of a process that no assertion has ended
Goes == ~client.failed /\ UNCHANGED hungup

-----------------------------------------------------------------------------
\* The app: GetDocuments and the events of the main queue

GetDocuments(l) ==
  /\ Goes /\ l \notin called /\ called' = called \cup {l}
  /\ queue' = Append(queue, [add |-> TRUE, lookup |-> l])
  /\ UNCHANGED <<client, muted, answers, changes>>

\* the next operation of the worker queue
Run ==
  /\ Goes /\ queue # <<>> /\ queue' = Tail(queue)
  /\ client' = IF Head(queue).add THEN AddQueryListener(client, Head(queue).lookup)
               ELSE RemoveQueryListener(client, Head(queue).lookup)
  /\ UNCHANGED <<userVars, changes>>

\* mutant: ListenOnce is removed but not muted
OnEventUnmuted(l) ==
  /\ Goes /\ client.events[l] # <<>> /\ client' = [client EXCEPT !.events[l] = Tail(@)]
  /\ answers' = [answers EXCEPT ![l] = Append(@, Head(client.events[l]))]
  /\ queue' = Append(queue, [add |-> FALSE, lookup |-> l])
  /\ UNCHANGED <<called, muted, changes>>

\* AsyncEventListener::OnEvent on the main queue, ListenOnce::OnEvent
OnEvent(l) ==
  /\ Goes /\ client.events[l] # <<>>
  /\ client' = [client EXCEPT !.events[l] = Tail(@)]
  /\ LET event == Head(client.events[l])
     IN IF l \in muted THEN UNCHANGED <<queue, muted, answers>>
        ELSE /\ answers' = [answers EXCEPT ![l] = Append(@, event)]
             /\ IF event = "error" THEN UNCHANGED <<queue, muted>>
                ELSE /\ muted' = muted \cup {l}
                     /\ queue' = Append(queue, [add |-> FALSE, lookup |-> l])
  /\ UNCHANGED <<called, changes>>

-----------------------------------------------------------------------------
\* The network and the timers

\* ResumeStartWithCredentials, OnStreamStart, OnWatchStreamOpen
ResumeStart(c) ==
  [HardAssert(c, c.stream = "Starting") EXCEPT !.stream = "Open", !.watched = c.targets]

TokenArrives ==
  /\ Goes /\ client.token /\ client' = ResumeStart([client EXCEPT !.token = FALSE])
  /\ UNCHANGED <<queue, userVars, changes>>

TokenFails ==
  /\ Goes /\ client.token
  /\ client' = Close(HardAssert([client EXCEPT !.token = FALSE], client.stream = "Starting"), FALSE)
  /\ UNCHANGED <<queue, userVars, changes>>

\* the token asked for by a start that was closed since: the close count differs
StaleTokenArrives ==
  /\ Goes /\ client.stale /\ client' = [client EXCEPT !.stale = FALSE]
  /\ UNCHANGED <<queue, userVars, changes>>

BackoffElapses ==
  /\ Goes /\ client.stream = "Backoff"
  /\ client' = StreamStart([client EXCEPT !.stream = "Initial"])
  /\ UNCHANGED <<queue, userVars, changes>>

\* gRPC reports an error; also what the connectivity monitor does to an open call
\* when the network becomes unavailable
StreamFails ==
  /\ Goes /\ client.stream = "Open" /\ client' = Close(client, FALSE)
  /\ UNCHANGED <<queue, userVars, changes>>

\* The server ends the call with OK, which Close takes for a stop of the client's
\* own.  If a query is listened to, the assertion of OnWatchStreamClose ends the
\* process.
StreamCloses ==
  /\ ~client.failed /\ client.stream = "Open"
  /\ LET closed == Close(client, TRUE)
     IN client' = IF closed.failed THEN [client EXCEPT !.failed = TRUE] ELSE closed
  /\ hungup' = (client.targets # {})
  /\ UNCHANGED <<queue, userVars, changes>>

\* GrpcConnection ends its calls, then RemoteStore restarts the streams
NetworkAvailable ==
  /\ Goes /\ changes < MaxChanges /\ changes' = changes + 1
  /\ client' = RestartNetwork(IF client.stream = "Open" THEN Close(client, FALSE) ELSE client)
  /\ UNCHANGED <<queue, userVars>>

\* OnWatchStreamChange: a message, with a snapshot that makes the queries of S current or not
Message(S, current) ==
  /\ Goes /\ client.stream = "Open" /\ S \subseteq client.watched \cap client.targets
  /\ LET online == UpdateState(client, "Online")
         state == IF current THEN "synced" ELSE "local"
         changed == {q \in S : online.view[q] # state}
     IN client' = OnViewSnapshot([online EXCEPT !.view =
                     [q \in Queries |-> IF q \in S THEN state ELSE @[q]]],
                   Listening(online, changed), ~current)
  /\ UNCHANGED <<queue, userVars, changes>>

\* ProcessTargetError, HandleRejectedListen, EventManager::OnError
TargetError(q) ==
  /\ Goes /\ client.stream = "Open" /\ q \in client.watched
  /\ LET online == UpdateState(client, "Online")
     IN client' = Post([online EXCEPT !.targets = @ \ {q}, !.watched = @ \ {q},
                          !.view[q] = "none", !.listeners[q] = {}],
                       online.listeners[q], "error")
  /\ UNCHANGED <<queue, userVars, changes>>

OnlineStateTimeout ==
  /\ Goes /\ client.timer
  /\ client' = SetAndBroadcast(HardAssert([client EXCEPT !.timer = FALSE], client.online = "Unknown"), "Offline")
  /\ UNCHANGED <<queue, userVars, changes>>

IdleTimeout ==
  /\ Goes /\ client.idle /\ client' = Stop([client EXCEPT !.idle = FALSE])
  /\ UNCHANGED <<queue, userVars, changes>>

Timers == BackoffElapses \/ OnlineStateTimeout \/ IdleTimeout

Next ==
  \/ \E l \in Lookups : GetDocuments(l) \/ OnEvent(l)
  \/ Run \/ TokenArrives \/ TokenFails \/ StaleTokenArrives \/ Timers
  \/ StreamFails \/ StreamCloses \/ NetworkAvailable
  \/ \E S \in SUBSET Queries, current \in BOOLEAN : Message(S, current)
  \/ \E q \in Queries : TargetError(q)

Spec == Init /\ [][Next]_vars

Heard(q) == TargetError(q) \/ \E S \in SUBSET Queries : q \in S /\ Message(S, TRUE)

(* Both queues run what they hold, tokens arrive or fail, timers fire: as  *)
(* each of these steps takes away what enables it, weak fairness says that *)
(* it is disabled again and again.  An open stream is heard of or fails    *)
(* (gRPC keeps it alive with pings); a query watched again and again on    *)
(* open streams is once answered, which is strong fairness.  Nothing of    *)
(* this is expected of a process that is over.                             *)
Fairness ==
  \/ <>client.failed
  \/ /\ []<>(queue = <<>>) /\ \A l \in Lookups : []<>(client.events[l] = <<>>)
     /\ []<>~client.token /\ []<>(client.stream # "Backoff") /\ []<>~client.timer
     /\ []<>(client.stream # "Open") \/ []<><<\E S \in SUBSET Queries : Message(S, TRUE)>>_vars
     /\ \A q \in Queries :
          <>[](client.stream # "Open" \/ q \notin client.watched) \/ []<><<Heard(q)>>_vars

FairSpec == Spec /\ Fairness

-----------------------------------------------------------------------------
TypeOK ==
  /\ client \in Client /\ \A l \in Lookups : Len(client.events[l]) <= MaxEvents
  /\ queue \in Seq([add : BOOLEAN, lookup : Lookups]) /\ called \subseteq Lookups /\ muted \subseteq called
  /\ answers \in [Lookups -> Seq({"server", "cache", "error"})] /\ changes \in 0 .. MaxChanges
  /\ hungup \in BOOLEAN

(* One HARD_ASSERT of the classes modelled can fail, and only in one way:   *)
(* "stopped gracefully while still needed", when the server ends the watch *)
(* call with OK while a query is listened to; then it does.  Otherwise a   *)
(* stream is never started twice or stopped while needed, a timer is never *)
(* set twice or left running over a change of state, a token of a closed   *)
(* start never opens the next one.                                         *)
AssertionsHold == client.failed <=> hungup

(* EventManager, SyncEngine and RemoteStore agree between operations: the  *)
(* queries with a listener are those with a view and those listened to, and*)
(* an open stream has been asked for all of them.                          *)
BooksAgree ==
  /\ \A q \in Queries : client.listeners[q] # {} <=> client.view[q] # "none"
  /\ client.targets = {q \in Queries : client.view[q] # "none"}
  /\ client.stream = "Open" => client.watched = client.targets

(* While a query is listened to, its stream is open or on its way.         *)
StreamServesTargets == client.targets # {} => IsStarted(client)

(* A call that waits has no answer that could be given: the client is not  *)
(* offline and the server has not confirmed the result of its query.       *)
NoAnswerWithheld ==
  \A q \in Queries : \A l \in client.listeners[q] \ client.raised :
    client.online # "Offline" /\ client.view[q] = "local"

(* What every operation of the worker queue keeps true.                    *)
ClientOK == TypeOK /\ AssertionsHold /\ BooksAgree /\ StreamServesTargets /\ NoAnswerWithheld

(* What ClientOK rests on.  The token of a start is awaited while it starts;*)
(* only an open stream without targets is idle; the timer runs only in the *)
(* state Unknown, before any failure and for a stream that is on its way;  *)
(* a stream that is not started leaves the tracker as it began.            *)
TrackerAgrees ==
  /\ client.enabled /\ (client.token <=> client.stream = "Starting")
  /\ client.idle => client.stream = "Open" /\ client.targets = {}
  /\ client.timer => client.online = "Unknown" /\ client.failures = 0 /\ IsStarted(client)
  /\ client.online = "Online" => client.failures = 0
  /\ ~IsStarted(client) => client.online = "Unknown" /\ client.failures = 0

\* a call that is queued: nothing has come of it yet
Fresh(l) ==
  /\ l \notin client.listeners[QueryOf[l]] /\ l \notin client.raised
  /\ client.events[l] = <<>> /\ answers[l] = <<>>

\* a call is added once, under its own query
ListenersAreCalls == \A q \in Queries : client.listeners[q] \subseteq {l \in called : QueryOf[l] = q}

QueueAgrees ==
  \A i \in DOMAIN queue :
    /\ queue[i].lookup \in called
    /\ queue[i].add => Fresh(queue[i].lookup)
    /\ \A j \in DOMAIN queue : queue[i].add /\ queue[j].add /\ queue[i].lookup = queue[j].lookup => i = j

\* once a call is answered its listener is muted, or nothing can reach it any more
AnswersAgree(l) ==
  /\ l \notin called => Fresh(l)
  /\ l \in muted => answers[l] # <<>>
  /\ answers[l] # <<>> =>
       /\ Len(answers[l]) = 1
       /\ l \in muted \/ (client.events[l] = <<>> /\ l \notin client.listeners[QueryOf[l]])

\* a listener that was not raised has no event but an error, and an error is its last
EventsAgree(l) ==
  \A i \in DOMAIN client.events[l] :
    /\ l \notin client.raised => client.events[l][i] = "error"
    /\ client.events[l][i] = "error" =>
         i = Len(client.events[l]) /\ l \notin client.listeners[QueryOf[l]]

(* What KeepsPromise and CacheOnlyOffline rest on.                         *)
CallsAgree ==
  ListenersAreCalls /\ QueueAgrees /\ \A l \in Lookups : AnswersAgree(l) /\ EventsAgree(l)

(* A call's first answer comes from the cache only when the client is      *)
(* offline, or when a new network cut the open stream it was waiting on.   *)
CacheOnlyOffline ==
  [][\A l \in Lookups :
       l \notin client.raised /\ l \in client'.raised /\ client'.events[l] = <<"cache">> =>
         client'.online = "Offline" \/ changes' # changes]_vars

(* Every call is answered, unless an assertion ends the process first.     *)
EveryLookupAnswered ==
  \A l \in Lookups : l \in called ~> answers[l] # <<>> \/ client.failed

\* The first answer decided for each call
Decided ==
  [l \in Lookups |-> IF answers[l] # <<>> THEN Head(answers[l])
                     ELSE IF client.events[l] # <<>> THEN Head(client.events[l]) ELSE "none"]

Promise == INSTANCE LookupPromise WITH asked <- called, decided <- Decided

(* The client implements the promise of getDocuments.                      *)
KeepsPromise == Promise!Spec
=============================================================================
