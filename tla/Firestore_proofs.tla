-------------------------- MODULE Firestore_proofs --------------------------
(***************************************************************************)
(* Theorems about the Firestore client: its lookups, for every set of      *)
(* calls and queries and every bound of FirestoreLookup, and its limbo     *)
(* resolutions, for every finite set of documents, every set of queries    *)
(* and every bound of FirestoreLimbo.                                      *)
(***************************************************************************)
EXTENDS FirestoreLookup, FirestoreLimbo, DataTheorems

-----------------------------------------------------------------------------
\* Lookups

\* What a part of an operation leaves alone
StreamKept(c, d) ==
  /\ d.enabled = c.enabled /\ d.stream = c.stream /\ d.token = c.token /\ d.stale = c.stale
  /\ d.idle = c.idle /\ d.targets = c.targets /\ d.watched = c.watched

TrackerKept(c, d) == d.online = c.online /\ d.failures = c.failures /\ d.timer = c.timer

ListenersKept(c, d) ==
  d.view = c.view /\ d.listeners = c.listeners /\ d.raised = c.raised /\ d.events = c.events

\* One kind of event is posted, each listener that hears it counts as raised
Posted(c, d, event) ==
  \A l \in Lookups :
    \/ d.events[l] = c.events[l]
    \/ /\ l \in Listening(c, Queries) /\ l \in d.raised
       /\ Len(c.events[l]) < MaxEvents /\ d.events[l] = Append(c.events[l], event)

LEMMA AssertPasses ==
  ASSUME NEW c \in Client, NEW holds \in BOOLEAN, holds
  PROVE  HardAssert(c, holds) = c
  BY DEF HardAssert, Client

LEMMA SetTracker ==
  ASSUME NEW c \in Client, NEW t \in BOOLEAN, NEW n \in 0 .. 2,
         NEW s \in {"Unknown", "Online", "Offline"}
  PROVE  [c EXCEPT !.timer = t, !.failures = n, !.online = s] \in Client
  BY DEF Client

LEMMA Answers ==
  ASSUME NEW s \in Seq({"cache", "server", "error"}), NEW e \in {"cache", "server", "error"}
  PROVE  Append(s, e) \in Seq({"cache", "server", "error"})
  OBVIOUS

\* The listeners of S get an event, but for those that hold as many as are kept.
PostedTo(c, d, S, event) ==
  /\ StreamKept(c, d) /\ TrackerKept(c, d) /\ d.failed = c.failed
  /\ d.view = c.view /\ d.listeners = c.listeners /\ d.raised = c.raised
  /\ \A l \in Lookups :
       d.events[l] = IF l \in S /\ Len(c.events[l]) < MaxEvents
                     THEN Append(c.events[l], event) ELSE c.events[l]

LEMMA PostContract ==
  ASSUME NEW c \in Client, NEW S \in SUBSET Lookups, NEW e \in {"cache", "server", "error"},
         NEW d, d = Post(c, S, e)
  PROVE  d \in Client /\ PostedTo(c, d, S, e)
<1> DEFINE ev == [l \in Lookups |->
     IF l \in S /\ Len(c.events[l]) < MaxEvents THEN Append(c.events[l], e) ELSE c.events[l]]
<1>1. c.events \in [Lookups -> Seq({"cache", "server", "error"})]
  BY DEF Client
<1>2. ev \in [Lookups -> Seq({"cache", "server", "error"})]
  BY <1>1, Answers
<1>3. d = [c EXCEPT !.events = ev]
  BY DEF Post
<1> HIDE DEF ev
<1>4. d \in Client /\ d.events = ev
  BY <1>2, <1>3 DEF Client
<1>5. StreamKept(c, d) /\ TrackerKept(c, d) /\ d.failed = c.failed
         /\ d.view = c.view /\ d.listeners = c.listeners /\ d.raised = c.raised
  BY <1>3 DEF Client, StreamKept, TrackerKept
<1> QED
  BY <1>4, <1>5 DEF ev, PostedTo

TrackerReset(c, d, state) ==
  /\ StreamKept(c, d) /\ ListenersKept(c, d) /\ d.failed = c.failed
  /\ d.online = state /\ d.failures = 0 /\ ~d.timer

LEMMA UpdateStateContract ==
  ASSUME NEW c \in Client, NEW s \in {"Unknown", "Online"}, NEW d, d = UpdateState(c, s)
  PROVE  d \in Client /\ TrackerReset(c, d, s)
<1>1. d = [c EXCEPT !.timer = FALSE, !.failures = 0, !.online = s]
  BY DEF Client, UpdateState, SetAndBroadcast, HandleOnlineStateChange
<1>2. \A n \in 0 .. 2 : [c EXCEPT !.timer = FALSE, !.failures = n, !.online = s] \in Client
  BY SetTracker
<1>3. d \in Client
  BY <1>1, <1>2, 0 \in 0 .. 2
<1> QED
  BY <1>1, <1>3 DEF Client, StreamKept, ListenersKept, TrackerReset

\* A stream is started with its token asked for, or after a pause when it had failed.
StreamStarted(c, d) ==
  /\ ListenersKept(c, d) /\ d.failed = c.failed
  /\ d.enabled = c.enabled /\ d.stale = c.stale /\ d.idle = c.idle
  /\ d.targets = c.targets /\ d.watched = c.watched /\ d.failures = c.failures
  /\ c.stream = "Error" => d.stream = "Backoff" /\ d.token = c.token
  /\ c.stream # "Error" => d.stream = "Starting" /\ d.token
  /\ c.failures = 0 => d.online = "Unknown" /\ d.timer
  /\ c.failures # 0 => d.online = c.online /\ ~d.timer

LEMMA StartContract ==
  ASSUME NEW c \in Client, ShouldStartWatchStream(c), ~c.timer, NEW d, d = StartWatchStream(c)
  PROVE  d \in Client /\ StreamStarted(c, d)
<1> DEFINE a == HardAssert(c, ShouldStartWatchStream(c))
           b == StreamStart(a)
<1>1. a = c
  BY DEF Client, HardAssert
<1>2. c.stream \in {"Initial", "Error"}
  BY DEF ShouldStartWatchStream, IsStarted, Client
<1>3. /\ b \in Client /\ ListenersKept(c, b) /\ b.failed = c.failed /\ TrackerKept(c, b)
      /\ b.enabled = c.enabled /\ b.stale = c.stale /\ b.idle = c.idle
      /\ b.targets = c.targets /\ b.watched = c.watched
      /\ c.stream = "Error" => b.stream = "Backoff" /\ b.token = c.token
      /\ c.stream # "Error" => b.stream = "Starting" /\ b.token = TRUE
  <2>1. CASE c.stream = "Error"
    <3>1. b = [c EXCEPT !.stream = "Backoff"]
      BY <1>1, <2>1 DEF StreamStart
    <3> QED
      BY <3>1, <2>1 DEF Client, ListenersKept, TrackerKept
  <2>2. CASE c.stream = "Initial"
    <3>1. b = [c EXCEPT !.stream = "Starting", !.token = TRUE]
      BY <1>1, <2>2 DEF StreamStart, HardAssert, Client
    <3> QED
      BY <3>1, <2>2 DEF Client, ListenersKept, TrackerKept
  <2> QED
    BY <1>2, <2>1, <2>2
<1> HIDE DEF b
<1>4. d = HandleWatchStreamStart(b)
  BY DEF StartWatchStream, b
<1>5. CASE c.failures # 0
  BY <1>5, <1>3, <1>4 DEF HandleWatchStreamStart, Client, ListenersKept, TrackerKept, StreamStarted
<1>6. CASE c.failures = 0
  <2>1. SetAndBroadcast(b, "Unknown") = [b EXCEPT !.online = "Unknown"]
    BY <1>3 DEF SetAndBroadcast, HandleOnlineStateChange, Client
  <2>2. [b EXCEPT !.online = "Unknown"] \in Client
    BY <1>3 DEF Client
  <2>3. ~b.timer
    BY <1>3 DEF TrackerKept
  <2>4. HardAssert([b EXCEPT !.online = "Unknown"], ~b.timer) = [b EXCEPT !.online = "Unknown"]
    BY <2>2, <2>3, AssertPasses
  <2>5. d = [[b EXCEPT !.online = "Unknown"] EXCEPT !.timer = TRUE]
    BY ZenonT(40), <1>6, <1>3, <1>4, <2>1, <2>4 DEF HandleWatchStreamStart, TrackerKept
  <2>6. /\ d \in Client /\ d.online = "Unknown" /\ d.timer = TRUE /\ ListenersKept(b, d)
        /\ StreamKept(b, d) /\ d.failed = b.failed /\ d.failures = b.failures
    BY ZenonT(40), <2>5, <1>3 DEF Client, ListenersKept, StreamKept
  <2> QED
    BY <2>6, <1>6, <1>3 DEF ListenersKept, StreamKept, TrackerKept, StreamStarted
<1> QED
  BY <1>5, <1>6

\* The listeners of H hear an event and count as raised.
Told(c, d, H, event) ==
  /\ StreamKept(c, d) /\ TrackerKept(c, d) /\ d.failed = c.failed
  /\ d.view = c.view /\ d.listeners = c.listeners /\ d.raised = c.raised \cup H
  /\ \A l \in Lookups :
       d.events[l] = IF l \in H /\ Len(c.events[l]) < MaxEvents
                     THEN Append(c.events[l], event) ELSE c.events[l]

LEMMA RaiseContract ==
  ASSUME NEW c \in Client, NEW H \in SUBSET Lookups, NEW e \in {"cache", "server", "error"},
         NEW d, d = Post([c EXCEPT !.raised = @ \cup H], H, e)
  PROVE  d \in Client /\ Told(c, d, H, e)
<1> DEFINE a == [c EXCEPT !.raised = c.raised \cup H]
<1>1. c.raised \cup H \in SUBSET Lookups
  BY DEF Client
<1>2. d = Post(a, H, e)
  OBVIOUS
<1>3. /\ a \in Client /\ StreamKept(c, a) /\ TrackerKept(c, a) /\ a.failed = c.failed
      /\ a.view = c.view /\ a.listeners = c.listeners /\ a.events = c.events
      /\ a.raised = c.raised \cup H
  BY <1>1 DEF Client, StreamKept, TrackerKept
<1> HIDE DEF a
<1>4. d \in Client /\ PostedTo(a, d, H, e)
  BY <1>2, <1>3, PostContract
<1> QED
  BY ZenonT(40), <1>3, <1>4 DEF StreamKept, TrackerKept, PostedTo, Told

CacheHearers(c, S) == {l \in S : l \in c.raised \/ c.online = "Offline"}

LEMMA CacheSnapshotContract ==
  ASSUME NEW c \in Client, NEW S \in SUBSET Lookups, NEW d, d = OnViewSnapshot(c, S, TRUE)
  PROVE  d \in Client /\ Told(c, d, CacheHearers(c, S), "cache")
<1>1. d = Post([c EXCEPT !.raised = @ \cup CacheHearers(c, S)], CacheHearers(c, S), "cache")
  BY DEF OnViewSnapshot, CacheHearers
<1>2. CacheHearers(c, S) \in SUBSET Lookups
  BY DEF CacheHearers
<1> QED
  BY <1>1, <1>2, RaiseContract

LEMMA ServerSnapshotContract ==
  ASSUME NEW c \in Client, NEW S \in SUBSET Lookups, NEW d, d = OnViewSnapshot(c, S, FALSE)
  PROVE  d \in Client /\ Told(c, d, S, "server")
<1>1. d = Post([c EXCEPT !.raised = @ \cup S], S, "server")
  BY DEF OnViewSnapshot
<1> QED
  BY <1>1, RaiseContract

LEMMA ListeningAreCalls ==
  ASSUME NEW c \in Client, NEW Q \in SUBSET Queries
  PROVE  Listening(c, Q) \in SUBSET Lookups /\ Listening(c, Q) \subseteq Listening(c, Queries)
  BY DEF Listening, Client

\* Synced views turn local and every listener that waited is raised.
OfflineToViews(c, d) ==
  /\ d.listeners = c.listeners
  /\ \A q \in Queries : d.view[q] = IF c.view[q] = "synced" THEN "local" ELSE c.view[q]
  /\ d.raised = c.raised \cup Listening(c, Queries)
  /\ Posted(c, d, "cache")

WentOffline(c, d) ==
  /\ StreamKept(c, d) /\ d.failed = c.failed /\ d.failures = c.failures /\ d.timer = c.timer
  /\ d.online = "Offline" /\ OfflineToViews(c, d)

LEMMA OfflineContract ==
  ASSUME NEW c \in Client, c.online # "Offline", NEW d, d = SetAndBroadcast(c, "Offline")
  PROVE  d \in Client /\ WentOffline(c, d)
<1> DEFINE synced == {q \in Queries : c.view[q] = "synced"}
           v == [q \in Queries |-> IF q \in synced THEN "local" ELSE c.view[q]]
           a == [c EXCEPT !.view = v]
           told == OnViewSnapshot(a, Listening(c, synced), TRUE)
           waiting == Listening(told, Queries) \ told.raised
           b == [told EXCEPT !.online = "Offline", !.raised = told.raised \cup waiting]
<1>1. d = Post(b, waiting, "cache")
  BY DEF SetAndBroadcast, HandleOnlineStateChange
<1>2. v \in [Queries -> {"none", "local", "synced"}]
  BY DEF Client
<1>3. \A q \in Queries : v[q] = IF c.view[q] = "synced" THEN "local" ELSE c.view[q]
  OBVIOUS
<1>4. synced \in SUBSET Queries
  OBVIOUS
<1> HIDE DEF v, synced
<1>5. /\ a \in Client /\ StreamKept(c, a) /\ TrackerKept(c, a) /\ a.failed = c.failed
      /\ a.view = v /\ a.listeners = c.listeners /\ a.events = c.events /\ a.raised = c.raised
  BY <1>2 DEF Client, StreamKept, TrackerKept
<1> HIDE DEF a
<1>6. Listening(c, synced) \in SUBSET Lookups /\ Listening(c, synced) \subseteq Listening(c, Queries)
  BY <1>4, ListeningAreCalls
<1>7. CacheHearers(a, Listening(c, synced)) \subseteq Listening(c, Queries)
  BY <1>6 DEF CacheHearers
<1>8. told \in Client /\ Told(a, told, CacheHearers(a, Listening(c, synced)), "cache")
  BY <1>5, <1>6, CacheSnapshotContract
<1> HIDE DEF told
<1>9. Listening(told, Queries) = Listening(c, Queries)
  BY <1>5, <1>8 DEF Listening, Told
<1>10. /\ waiting \in SUBSET Lookups /\ waiting \subseteq Listening(c, Queries)
       /\ told.raised \cup waiting = c.raised \cup Listening(c, Queries)
       /\ waiting \cap CacheHearers(a, Listening(c, synced)) = {}
  BY <1>5, <1>7, <1>8, <1>9, ListeningAreCalls DEF Told
<1> HIDE DEF waiting
<1>11. told.raised \cup waiting \in SUBSET Lookups
  BY <1>8, <1>10 DEF Client
<1>12. /\ b \in Client /\ StreamKept(told, b) /\ b.failed = told.failed /\ b.online = "Offline"
       /\ b.failures = told.failures /\ b.timer = told.timer
       /\ b.view = told.view /\ b.listeners = told.listeners /\ b.events = told.events
       /\ b.raised = c.raised \cup Listening(c, Queries)
  BY <1>8, <1>10, <1>11 DEF Client, StreamKept
<1> HIDE DEF b
<1>13. d \in Client /\ PostedTo(b, d, waiting, "cache")
  BY <1>1, <1>10, <1>12, PostContract
<1>14. Posted(c, d, "cache")
  <2> SUFFICES ASSUME NEW l \in Lookups, d.events[l] # c.events[l]
               PROVE  /\ l \in Listening(c, Queries) /\ l \in d.raised
                      /\ Len(c.events[l]) < MaxEvents /\ d.events[l] = Append(c.events[l], "cache")
    BY DEF Posted
  <2>1. CASE l \in waiting
    <3>1. told.events[l] = c.events[l]
      BY <2>1, <1>5, <1>8, <1>10 DEF Told
    <3> QED
      BY ZenonT(40), <2>1, <3>1, <1>10, <1>12, <1>13 DEF PostedTo
  <2>2. CASE l \notin waiting
    <3>1. d.events[l] = told.events[l]
      BY <2>2, <1>12, <1>13 DEF PostedTo
    <3>2. l \in CacheHearers(a, Listening(c, synced)) /\ Len(c.events[l]) < MaxEvents
      BY <3>1, <1>5, <1>8 DEF Told
    <3> QED
      BY <3>1, <3>2, <1>5, <1>7, <1>8, <1>12, <1>13 DEF Told, PostedTo
  <2> QED
    BY <2>1, <2>2
<1> QED
  BY <1>3, <1>5, <1>8, <1>12, <1>13, <1>14 DEF Told, PostedTo, StreamKept, TrackerKept, WentOffline, OfflineToViews

\* What a failed stream does to the listeners: nothing, or they hear that the client is offline.
FailureToViews(c, d) ==
  \/ ListenersKept(c, d) /\ (d.online = "Offline" => c.online = "Offline")
  \/ d.online = "Offline" /\ OfflineToViews(c, d)

\* What happened before the failure told the listeners nothing.
LEMMA FailureAfterKept ==
  ASSUME NEW c, NEW a, NEW d, ListenersKept(c, a), a.online = c.online, FailureToViews(a, d)
  PROVE  FailureToViews(c, d)
<1>1. CASE ListenersKept(a, d) /\ (d.online = "Offline" => a.online = "Offline")
  <2>1. ListenersKept(c, d)
    BY <1>1 DEF ListenersKept
  <2> QED
    BY <1>1, <2>1 DEF FailureToViews
<1>2. CASE d.online = "Offline" /\ OfflineToViews(a, d)
  <2>1. Listening(c, Queries) = Listening(a, Queries)
    BY DEF ListenersKept, Listening
  <2>2. Posted(c, d, "cache")
    BY <2>1, <1>2 DEF ListenersKept, OfflineToViews, Posted
  <2>3. OfflineToViews(c, d)
    BY <2>1, <2>2, <1>2 DEF ListenersKept, OfflineToViews
  <2> QED
    BY <1>2, <2>3 DEF FailureToViews
<1> QED
  BY <1>1, <1>2 DEF FailureToViews

\* What happens after the failure tells the listeners nothing.
LEMMA FailureBeforeKept ==
  ASSUME NEW c, NEW a, NEW d, FailureToViews(c, a), ListenersKept(a, d),
         a.online = "Offline" <=> d.online = "Offline"
  PROVE  FailureToViews(c, d)
<1>1. CASE ListenersKept(c, a) /\ (a.online = "Offline" => c.online = "Offline")
  <2>1. ListenersKept(c, d)
    BY <1>1 DEF ListenersKept
  <2> QED
    BY <1>1, <2>1 DEF FailureToViews
<1>2. CASE a.online = "Offline" /\ OfflineToViews(c, a)
  <2>1. Posted(c, d, "cache")
    BY <1>2 DEF ListenersKept, OfflineToViews, Posted
  <2>2. OfflineToViews(c, d)
    BY <2>1, <1>2 DEF ListenersKept, OfflineToViews
  <2> QED
    BY <1>2, <2>2 DEF FailureToViews
<1> QED
  BY <1>1, <1>2 DEF FailureToViews

StreamBroke(c, d) ==
  /\ StreamKept(c, d) /\ d.failed = c.failed /\ ~d.timer /\ FailureToViews(c, d)
  /\ \/ d.online = "Unknown" /\ d.failures = 0
     \/ d.online = "Offline" /\ d.failures # 0

LEMMA FailureContract ==
  ASSUME NEW c \in Client, c.online = "Online" => c.failures = 0 /\ ~c.timer,
         NEW d, d = HandleWatchStreamFailure(c)
  PROVE  d \in Client /\ StreamBroke(c, d)
<1>1. CASE c.online = "Online"
  <2> DEFINE a == [c EXCEPT !.online = "Unknown"]
  <2>1. SetAndBroadcast(c, "Unknown") = a
    BY <1>1 DEF SetAndBroadcast, HandleOnlineStateChange
  <2>2. /\ a \in Client /\ StreamKept(c, a) /\ a.failed = c.failed /\ ListenersKept(c, a)
        /\ a.online = "Unknown" /\ a.failures = c.failures /\ a.timer = c.timer
    BY DEF Client, StreamKept, ListenersKept
  <2>3. d = HardAssert(a, c.failures = 0 /\ ~c.timer)
    BY <1>1, <2>1 DEF HandleWatchStreamFailure
  <2> HIDE DEF a
  <2>4. d = a
    BY <1>1, <2>2, <2>3, AssertPasses
  <2> QED
    BY <1>1, <2>2, <2>4 DEF StreamBroke, FailureToViews
<1>2. CASE c.online # "Online"
  <2> DEFINE n == IF c.failures < 2 THEN c.failures + 1 ELSE c.failures
             a == [c EXCEPT !.failures = n, !.timer = FALSE]
  <2>1. n \in 0 .. 2 /\ n # 0
    BY DEF Client
  <2>2. d = SetAndBroadcast(a, "Offline")
    BY <1>2 DEF HandleWatchStreamFailure
  <2> HIDE DEF n
  <2>3. /\ a \in Client /\ StreamKept(c, a) /\ a.failed = c.failed /\ ListenersKept(c, a)
        /\ a.online = c.online /\ a.failures # 0 /\ ~a.timer
    BY <2>1 DEF Client, StreamKept, ListenersKept
  <2> HIDE DEF a
  <2>4. CASE c.online = "Offline"
    <3>1. d = a
      BY <2>2, <2>3, <2>4 DEF SetAndBroadcast
    <3> QED
      BY <3>1, <2>3, <2>4 DEF StreamBroke, FailureToViews
  <2>5. CASE c.online # "Offline"
    <3>1. d \in Client /\ WentOffline(a, d)
      BY <2>2, <2>3, <2>5, OfflineContract
    <3>2. FailureToViews(c, d)
      BY <3>1, <2>3, FailureAfterKept DEF WentOffline, FailureToViews
    <3> QED
      BY <3>1, <3>2, <2>3 DEF StreamBroke, WentOffline, StreamKept
  <2> QED
    BY <2>4, <2>5
<1> QED
  BY <1>1, <1>2

\* A stream that failed is started again, after a pause, while a query is listened to.
StreamClosed(c, d) ==
  /\ d.enabled = c.enabled /\ d.targets = c.targets /\ d.watched = {} /\ ~d.idle /\ ~d.token
  /\ d.stream = (IF c.targets # {} THEN "Backoff" ELSE "Error") /\ d.failed = c.failed
  /\ d.timer => d.online = "Unknown" /\ d.failures = 0 /\ c.targets # {}
  /\ d.online # "Online"
  /\ c.targets = {} => d.online = "Unknown" /\ d.failures = 0
  /\ FailureToViews(c, d)

LEMMA CloseContract ==
  ASSUME NEW c \in Client, c.enabled, IsStarted(c),
         c.online = "Online" => c.failures = 0 /\ ~c.timer,
         NEW d, d = Close(c, FALSE)
  PROVE  d \in Client /\ StreamClosed(c, d)
<1> DEFINE st == c.stale \/ c.token
           e == [c EXCEPT !.idle = FALSE, !.watched = {}, !.stale = st, !.token = FALSE,
                          !.stream = "Error"]
<1>1. st \in BOOLEAN
  BY DEF Client
<1>2. HardAssert(c, IsStarted(c)) = c
  <2>1. IsStarted(c) \in BOOLEAN
    BY DEF IsStarted
  <2> QED
    BY <2>1, AssertPasses
<1>3. d = OnWatchStreamClose(e, FALSE)
  BY <1>2 DEF Close
<1> HIDE DEF st
<1>4. /\ e \in Client /\ e.enabled = c.enabled /\ e.targets = c.targets /\ e.watched = {}
      /\ e.idle = FALSE /\ e.token = FALSE /\ e.stream = "Error" /\ e.failed = c.failed
      /\ TrackerKept(c, e) /\ ListenersKept(c, e)
  BY <1>1 DEF Client, TrackerKept, ListenersKept
<1> HIDE DEF e
<1>5. HardAssert(e, FALSE => ~ShouldStartWatchStream(e)) = e
  BY <1>4 DEF HardAssert, Client
<1>6. ShouldStartWatchStream(e) <=> c.targets # {}
  BY <1>4 DEF ShouldStartWatchStream, IsStarted
<1>7. CASE c.targets # {}
  <2> DEFINE a == HandleWatchStreamFailure(e)
  <2>1. a \in Client /\ StreamBroke(e, a)
    BY <1>4, FailureContract DEF TrackerKept
  <2>2. d = StartWatchStream(a)
    BY <1>3, <1>5, <1>6, <1>7 DEF OnWatchStreamClose
  <2> HIDE DEF a
  <2>3. ShouldStartWatchStream(a) /\ ~a.timer /\ a.stream = "Error" /\ ~a.token /\ ~a.idle
    BY <2>1, <1>4, <1>7 DEF StreamBroke, StreamKept, ShouldStartWatchStream, IsStarted
  <2>4. d \in Client /\ StreamStarted(a, d)
    BY <2>1, <2>2, <2>3, StartContract
  <2>5. FailureToViews(c, d)
    <3>1. ListenersKept(a, d) /\ (a.online = "Offline" <=> d.online = "Offline") /\ FailureToViews(e, a)
      BY <2>1, <2>4 DEF StreamStarted, StreamBroke
    <3>2. FailureToViews(e, d)
      BY <3>1, FailureBeforeKept
    <3> QED
      BY <3>2, <1>4, FailureAfterKept DEF TrackerKept
  <2> QED
    BY ZenonT(40), <2>1, <2>3, <2>4, <2>5, <1>4, <1>7 DEF StreamBroke, StreamKept, StreamStarted, StreamClosed
<1>8. CASE c.targets = {}
  <2>1. d = UpdateState(e, "Unknown")
    BY <1>3, <1>5, <1>6, <1>8 DEF OnWatchStreamClose
  <2>2. d \in Client /\ TrackerReset(e, d, "Unknown")
    BY <1>4, <2>1, UpdateStateContract
  <2> QED
    BY ZenonT(40), <2>2, <1>4, <1>8
    DEF TrackerReset, StreamClosed, StreamKept, FailureToViews, ListenersKept, TrackerKept
<1> QED
  BY <1>7, <1>8

\* A stream is stopped when it is not needed: nobody hears of it.
StreamStopped(c, d) ==
  /\ d.enabled = c.enabled /\ d.targets = c.targets /\ d.watched = {} /\ ~d.idle /\ ~d.token
  /\ d.stream = "Initial" /\ d.failed = c.failed
  /\ d.online = "Unknown" /\ d.failures = 0 /\ ~d.timer /\ ListenersKept(c, d)

LEMMA StopContract ==
  ASSUME NEW c \in Client, IsStarted(c), ~c.enabled \/ c.targets = {}, NEW d, d = Stop(c)
  PROVE  d \in Client /\ StreamStopped(c, d)
<1> DEFINE st == c.stale \/ c.token
           e == [c EXCEPT !.idle = FALSE, !.watched = {}, !.stale = st, !.token = FALSE,
                          !.stream = "Initial"]
<1>1. st \in BOOLEAN
  BY DEF Client
<1>2. HardAssert(c, IsStarted(c)) = c
  <2>1. IsStarted(c) \in BOOLEAN
    BY DEF IsStarted
  <2> QED
    BY <2>1, AssertPasses
<1>3. d = OnWatchStreamClose(e, TRUE)
  BY <1>2 DEF Stop, Close
<1> HIDE DEF st
<1>4. /\ e \in Client /\ e.enabled = c.enabled /\ e.targets = c.targets /\ e.watched = {}
      /\ e.idle = FALSE /\ e.token = FALSE /\ e.stream = "Initial" /\ e.failed = c.failed
      /\ TrackerKept(c, e) /\ ListenersKept(c, e)
  BY <1>1 DEF Client, TrackerKept, ListenersKept
<1> HIDE DEF e
<1>5. ~ShouldStartWatchStream(e)
  BY <1>4 DEF ShouldStartWatchStream
<1>6. HardAssert(e, TRUE => ~ShouldStartWatchStream(e)) = e
  BY <1>4, <1>5 DEF HardAssert, Client
<1>7. d = UpdateState(e, "Unknown")
  BY <1>3, <1>5, <1>6 DEF OnWatchStreamClose
<1>8. d \in Client /\ TrackerReset(e, d, "Unknown")
  BY <1>4, <1>7, UpdateStateContract
<1> QED
  BY <1>4, <1>8 DEF TrackerReset, StreamStopped, StreamKept, ListenersKept

\* Listening to a query starts the stream, or is asked of one that is open.
StreamWatches(c, d, q) ==
  /\ d.enabled = c.enabled /\ d.targets = c.targets \cup {q} /\ d.failed = c.failed
  /\ ListenersKept(c, d)
  /\ ~IsStarted(c) =>
       /\ d.stream \in {"Backoff", "Starting"} /\ (d.token <=> d.stream = "Starting")
       /\ ~d.idle /\ d.online = "Unknown" /\ d.failures = 0
  /\ IsStarted(c) =>
       /\ d.stream = c.stream /\ d.token = c.token /\ ~d.idle /\ TrackerKept(c, d)
       /\ c.stream = "Open" => d.watched = c.watched \cup {q}

LEMMA WatchContract ==
  ASSUME NEW c \in Client, c.enabled, c.token <=> c.stream = "Starting",
         c.idle => c.stream = "Open",
         ~IsStarted(c) => c.failures = 0 /\ ~c.timer,
         NEW q \in Queries, NEW d, d = Watch(c, q)
  PROVE  d \in Client /\ StreamWatches(c, d, q)
<1> DEFINE tg == c.targets \cup {q}
           a == [c EXCEPT !.targets = tg]
<1>1. tg \in SUBSET Queries
  BY DEF Client
<1>2. d = IF ShouldStartWatchStream(a) THEN StartWatchStream(a)
          ELSE IF c.stream = "Open" THEN [a EXCEPT !.watched = @ \cup {q}, !.idle = FALSE]
          ELSE a
  BY DEF Watch
<1>3. tg # {}
  OBVIOUS
<1> HIDE DEF tg
<1>4. /\ a \in Client /\ ListenersKept(c, a) /\ TrackerKept(c, a) /\ a.targets = tg
      /\ a.enabled = c.enabled /\ a.stream = c.stream /\ a.token = c.token /\ a.idle = c.idle
      /\ a.watched = c.watched /\ a.failed = c.failed
  BY <1>1 DEF Client, ListenersKept, TrackerKept
<1> HIDE DEF a
<1>5. ShouldStartWatchStream(a) <=> ~IsStarted(c)
  BY <1>3, <1>4 DEF ShouldStartWatchStream, IsStarted
<1>6. CASE ~IsStarted(c)
  <2>1. d = StartWatchStream(a) /\ ShouldStartWatchStream(a) /\ ~a.timer
    BY <1>2, <1>4, <1>5, <1>6 DEF TrackerKept
  <2>2. d \in Client /\ StreamStarted(a, d)
    BY <1>4, <2>1, StartContract
  <2>3. c.stream \in {"Initial", "Error"} /\ ~c.token /\ ~c.idle
    BY <1>6 DEF IsStarted, Client
  <2> QED
    BY <1>4, <1>6, <2>2, <2>3 DEF StreamStarted, StreamWatches, ListenersKept, TrackerKept, tg
<1>7. CASE IsStarted(c) /\ c.stream # "Open"
  BY <1>2, <1>4, <1>5, <1>7 DEF StreamWatches, tg
<1>8. CASE c.stream = "Open"
  <2> DEFINE w == a.watched \cup {q}
             no == FALSE
  <2>1. d = [a EXCEPT !.watched = w, !.idle = no]
    BY <1>2, <1>5, <1>8 DEF IsStarted
  <2>2. w \in SUBSET Queries /\ no \in BOOLEAN
    BY <1>4 DEF Client
  <2> HIDE DEF w, no
  <2>3. /\ d \in Client /\ ListenersKept(a, d) /\ TrackerKept(a, d) /\ d.targets = a.targets
        /\ d.enabled = a.enabled /\ d.stream = a.stream /\ d.token = a.token
        /\ d.watched = w /\ d.failed = a.failed
    <3>1. d \in Client
      BY ZenonT(40), <1>4, <2>1, <2>2 DEF Client
    <3>2. ListenersKept(a, d) /\ TrackerKept(a, d)
      BY <1>4, <2>1 DEF Client, ListenersKept, TrackerKept
    <3>3. /\ d.targets = a.targets
        /\ d.enabled = a.enabled /\ d.stream = a.stream /\ d.token = a.token
        /\ d.watched = w /\ d.failed = a.failed
      BY <1>4, <2>1 DEF Client
    <3> QED
      BY <3>1, <3>2, <3>3
  <2>4. ~d.idle
    BY <1>4, <2>1 DEF Client, no
  <2> QED
    BY <1>4, <1>8, <2>3, <2>4 DEF StreamWatches, ListenersKept, TrackerKept, IsStarted, tg, w
<1> QED
  BY <1>6, <1>7, <1>8

\* Leaving the last query makes an open stream idle and resets the tracker of any other.
StreamUnwatches(c, d, q) ==
  /\ d.enabled = c.enabled /\ d.targets = c.targets \ {q} /\ d.failed = c.failed
  /\ ListenersKept(c, d) /\ d.stream = c.stream /\ d.token = c.token
  /\ IF c.stream = "Open"
     THEN /\ TrackerKept(c, d) /\ d.watched = c.watched \ {q} /\ (d.idle <=> c.targets \ {q} = {})
     ELSE /\ d.idle = c.idle
          /\ \/ TrackerKept(c, d)
             \/ d.online = "Unknown" /\ d.failures = 0 /\ ~d.timer

LEMMA UnwatchContract ==
  ASSUME NEW c \in Client, NEW q \in Queries, q \in c.targets, NEW d, d = Unwatch(c, q)
  PROVE  d \in Client /\ StreamUnwatches(c, d, q)
<1> DEFINE tg == c.targets \ {q}
           a == [c EXCEPT !.targets = tg]
<1>1. tg \in SUBSET Queries
  BY DEF Client
<1>2. HardAssert(c, q \in c.targets) = c
  BY DEF HardAssert, Client
<1>3. d = IF c.stream = "Open" THEN [a EXCEPT !.watched = @ \ {q}, !.idle = a.targets = {}]
          ELSE IF a.targets = {} /\ c.enabled THEN UpdateState(a, "Unknown") ELSE a
  BY <1>2 DEF Unwatch
<1> HIDE DEF tg
<1>4. /\ a \in Client /\ ListenersKept(c, a) /\ TrackerKept(c, a) /\ a.targets = tg
      /\ a.enabled = c.enabled /\ a.stream = c.stream /\ a.token = c.token /\ a.idle = c.idle
      /\ a.watched = c.watched /\ a.failed = c.failed
  BY <1>1 DEF Client, ListenersKept, TrackerKept
<1> HIDE DEF a
<1>5. CASE c.stream = "Open"
  <2> DEFINE w == a.watched \ {q}
             i == a.targets = {}
  <2>1. d = [a EXCEPT !.watched = w, !.idle = i]
    BY <1>3, <1>5
  <2>2. w \in SUBSET Queries
    BY <1>4 DEF Client
  <2>3. i \in BOOLEAN
    OBVIOUS
  <2> HIDE DEF w, i
  <2>4. /\ d \in Client /\ ListenersKept(a, d) /\ TrackerKept(a, d) /\ d.targets = a.targets
        /\ d.enabled = a.enabled /\ d.stream = a.stream /\ d.token = a.token
        /\ d.watched = w /\ d.failed = a.failed
    BY ZenonT(40), <1>4, <2>1, <2>2, <2>3 DEF Client, ListenersKept, TrackerKept
  <2>5. d.idle = i
    BY <1>4, <2>1 DEF Client
  <2> QED
    BY <1>4, <1>5, <2>4, <2>5 DEF StreamUnwatches, ListenersKept, TrackerKept, tg, w, i
<1>6. CASE c.stream # "Open" /\ a.targets = {} /\ c.enabled
  <2>1. d = UpdateState(a, "Unknown")
    BY <1>3, <1>6
  <2>2. d \in Client /\ TrackerReset(a, d, "Unknown")
    BY <1>4, <2>1, UpdateStateContract
  <2> QED
    BY ZenonT(40), <1>4, <1>6, <2>2 DEF TrackerReset, StreamKept, StreamUnwatches, ListenersKept, TrackerKept, tg
<1>7. CASE c.stream # "Open" /\ ~(a.targets = {} /\ c.enabled)
  BY <1>3, <1>4, <1>7 DEF StreamUnwatches, tg
<1> QED
  BY <1>5, <1>6, <1>7

\* A restart of the network starts the stream afresh, and nobody hears of it.
NetworkRestarted(c, d) ==
  /\ d.enabled /\ d.targets = c.targets /\ ~d.idle /\ d.failed = c.failed
  /\ d.stream = (IF c.targets # {} THEN "Starting" ELSE "Initial") /\ (d.token <=> c.targets # {})
  /\ d.online = "Unknown" /\ d.failures = 0 /\ (d.timer => c.targets # {})
  /\ ListenersKept(c, d)

LEMMA RestartContract ==
  ASSUME NEW c \in Client, c.stream # "Open", c.token <=> c.stream = "Starting", ~c.idle,
         NEW d, d = RestartNetwork(c)
  PROVE  d \in Client /\ NetworkRestarted(c, d)
<1> DEFINE a == [c EXCEPT !.enabled = FALSE]
           b == Stop(a)
           s == UpdateState(b, "Unknown")
           r == [HardAssert(s, ~IsStarted(s)) EXCEPT !.stream = "Initial", !.enabled = TRUE]
<1>1. d = IF ShouldStartWatchStream(r) THEN StartWatchStream(r) ELSE UpdateState(r, "Unknown")
  BY DEF RestartNetwork
<1>2. /\ a \in Client /\ ~a.enabled /\ a.targets = c.targets /\ a.failed = c.failed
      /\ a.stream = c.stream /\ (a.token <=> c.token) /\ ~a.idle /\ ListenersKept(c, a)
  BY DEF Client, ListenersKept
<1> HIDE DEF a
<1>3. /\ b \in Client /\ b.targets = c.targets /\ b.failed = c.failed
      /\ ~IsStarted(b) /\ ~b.token /\ ~b.idle /\ ListenersKept(c, b)
  <2>1. CASE IsStarted(a)
    <3>1. StreamStopped(a, b) /\ b \in Client
      BY <2>1, <1>2, StopContract
    <3> QED
      BY <3>1, <1>2 DEF StreamStopped, ListenersKept, IsStarted
  <2>2. CASE ~IsStarted(a)
    <3>1. b = a /\ ~a.token
      BY <2>2, <1>2 DEF Stop, IsStarted
    <3> QED
      BY <3>1, <2>2, <1>2
  <2> QED
    BY <2>1, <2>2
<1> HIDE DEF b
<1>4. s \in Client /\ TrackerReset(b, s, "Unknown")
  BY <1>3, UpdateStateContract
<1> HIDE DEF s
<1>5. ~IsStarted(s)
  BY <1>3, <1>4 DEF TrackerReset, StreamKept, IsStarted
<1>6. HardAssert(s, ~IsStarted(s)) = s
  <2>1. (~IsStarted(s)) \in BOOLEAN
    OBVIOUS
  <2> QED
    BY <1>4, <1>5, <2>1, AssertPasses
<1>7. r = [s EXCEPT !.stream = "Initial", !.enabled = TRUE]
  BY <1>6
<1>8. /\ r \in Client /\ r.targets = s.targets /\ r.failed = s.failed
      /\ r.stream = "Initial" /\ (r.token <=> s.token) /\ (r.idle <=> s.idle)
      /\ ListenersKept(s, r) /\ TrackerKept(s, r)
  <2> DEFINE yes == TRUE
  <2>1. r = [s EXCEPT !.stream = "Initial", !.enabled = yes] /\ yes \in BOOLEAN
    BY <1>7
  <2> HIDE DEF yes, r
  <2> QED
    BY <1>4, <2>1 DEF Client, ListenersKept, TrackerKept
<1>12. r.enabled
  BY <1>4, <1>7 DEF Client
<1> HIDE DEF r
<1>9. /\ r.targets = c.targets /\ r.failed = c.failed /\ ~r.token /\ ~r.idle /\ ListenersKept(c, r)
      /\ r.online = "Unknown" /\ r.failures = 0 /\ ~r.timer
  BY <1>3, <1>4, <1>8 DEF TrackerReset, StreamKept, ListenersKept, TrackerKept
<1>10. CASE c.targets # {}
  <2>1. ShouldStartWatchStream(r)
    BY <1>8, <1>9, <1>10, <1>12 DEF ShouldStartWatchStream, IsStarted
  <2>2. d \in Client /\ StreamStarted(r, d)
    BY <1>1, <1>8, <1>9, <2>1, StartContract
  <2> QED
    BY <1>8, <1>9, <1>10, <1>12, <2>2 DEF StreamStarted, NetworkRestarted, ListenersKept
<1>11. CASE c.targets = {}
  <2>1. d = UpdateState(r, "Unknown")
    BY <1>1, <1>9, <1>11 DEF ShouldStartWatchStream
  <2>2. d \in Client /\ TrackerReset(r, d, "Unknown")
    BY <1>8, <2>1, UpdateStateContract
  <2> QED
    BY <1>8, <1>9, <1>11, <1>12, <2>2 DEF TrackerReset, StreamKept, NetworkRestarted, ListenersKept
<1> QED
  BY <1>10, <1>11

-----------------------------------------------------------------------------
\* ClientOK and TrackerAgrees of any client

ViewsOK(c) ==
  /\ \A l \in Lookups : Len(c.events[l]) <= MaxEvents
  /\ \A q \in Queries : c.listeners[q] # {} <=> c.view[q] # "none"
  /\ c.targets = {q \in Queries : c.view[q] # "none"}
  /\ \A q \in Queries : \A l \in c.listeners[q] \ c.raised :
       c.online # "Offline" /\ c.view[q] = "local"

StreamOK(c) ==
  /\ ~c.failed
  /\ c.stream = "Open" => c.watched = c.targets
  /\ c.targets # {} => IsStarted(c)
  /\ c.enabled /\ (c.token <=> c.stream = "Starting")
  /\ c.idle => c.stream = "Open" /\ c.targets = {}
  /\ c.timer => c.online = "Unknown" /\ c.failures = 0 /\ IsStarted(c)
  /\ c.online = "Online" => c.failures = 0
  /\ ~IsStarted(c) => c.online = "Unknown" /\ c.failures = 0

Sound(c) == c \in Client /\ ViewsOK(c) /\ StreamOK(c)

\* An event that is kept leaves no more than are kept.
LEMMA AppendBound ==
  ASSUME NEW c \in Client, NEW l \in Lookups, Len(c.events[l]) <= MaxEvents, NEW s, NEW e,
         s = c.events[l] \/ (Len(c.events[l]) < MaxEvents /\ s = Append(c.events[l], e))
  PROVE  Len(s) <= MaxEvents
<1>1. c.events[l] \in Seq({"cache", "server", "error"})
  BY DEF Client
<1>2. MaxEvents \in Nat
  BY LookupAssumption
<1>3. CASE s = c.events[l]
  BY <1>3
<1>4. CASE Len(c.events[l]) < MaxEvents /\ s = Append(c.events[l], e)
  <2> DEFINE n == Len(c.events[l])
  <2>1. n \in Nat /\ Len(s) = n + 1
    BY <1>1, <1>4
  <2>2. n < MaxEvents
    BY <1>4
  <2> HIDE DEF n
  <2> QED
    BY <2>1, <2>2, <1>2
<1> QED
  BY <1>3, <1>4

LEMMA PostedBound ==
  ASSUME NEW c \in Client, NEW d \in Client, NEW e, Posted(c, d, e),
         \A l \in Lookups : Len(c.events[l]) <= MaxEvents
  PROVE  \A l \in Lookups : Len(d.events[l]) <= MaxEvents
<1> SUFFICES ASSUME NEW l \in Lookups PROVE Len(d.events[l]) <= MaxEvents
  OBVIOUS
<1>1. d.events[l] = c.events[l] \/ (Len(c.events[l]) < MaxEvents /\ d.events[l] = Append(c.events[l], e))
  BY DEF Posted
<1> QED
  BY <1>1, AppendBound

\* A change of the stream that posts nothing but the news that the client is offline
LEMMA ViewsStayOK ==
  ASSUME NEW c \in Client, NEW d \in Client, ViewsOK(c), FailureToViews(c, d),
         d.targets = c.targets
  PROVE  ViewsOK(d)
<1>1. CASE ListenersKept(c, d) /\ (d.online = "Offline" => c.online = "Offline")
  BY <1>1 DEF ListenersKept, ViewsOK
<1>2. CASE d.online = "Offline" /\ OfflineToViews(c, d)
  <2>1. \A l \in Lookups : Len(d.events[l]) <= MaxEvents
    BY <1>2, PostedBound DEF OfflineToViews, ViewsOK
  <2>2. \A q \in Queries : d.view[q] # "none" <=> c.view[q] # "none"
    BY <1>2 DEF OfflineToViews
  <2>3. \A q \in Queries : d.listeners[q] \subseteq d.raised
    BY <1>2 DEF OfflineToViews, Listening
  <2> QED
    BY <1>2, <2>1, <2>2, <2>3 DEF OfflineToViews, ViewsOK
<1> QED
  BY <1>1, <1>2 DEF FailureToViews

LEMMA CloseKeepsSound ==
  ASSUME NEW c, c \in Client, ViewsOK(c), c.enabled, IsStarted(c), ~c.failed,
         c.online = "Online" => c.failures = 0 /\ ~c.timer
  PROVE  Sound(Close(c, FALSE)) /\ StreamClosed(c, Close(c, FALSE))
<1> DEFINE d == Close(c, FALSE)
<1>1. d \in Client /\ StreamClosed(c, d)
  BY CloseContract
<1> HIDE DEF d
<1>2. ViewsOK(d)
  BY <1>1, ViewsStayOK DEF StreamClosed
<1>3. StreamOK(d)
  BY <1>1 DEF StreamClosed, StreamOK, IsStarted
<1> QED
  BY <1>1, <1>2, <1>3 DEF Sound, d

LEMMA StopKeepsSound ==
  ASSUME NEW c, Sound(c), IsStarted(c), c.targets = {}, NEW d, d = Stop(c)
  PROVE  Sound(d) /\ StreamStopped(c, d)
<1>1. d \in Client /\ StreamStopped(c, d)
  BY StopContract DEF Sound
<1>2. FailureToViews(c, d) /\ d.targets = c.targets
  BY <1>1 DEF StreamStopped, FailureToViews
<1>3. ViewsOK(d)
  BY <1>1, <1>2, ViewsStayOK DEF Sound
<1>4. StreamOK(d)
  BY <1>1 DEF StreamStopped, StreamOK, IsStarted, Sound
<1> QED
  BY <1>1, <1>3, <1>4 DEF Sound

LEMMA RestartKeepsSound ==
  ASSUME NEW c, Sound(c), c.stream # "Open", NEW d, d = RestartNetwork(c)
  PROVE  Sound(d) /\ NetworkRestarted(c, d)
<1>1. d \in Client /\ NetworkRestarted(c, d)
  BY RestartContract DEF Sound, StreamOK
<1>2. FailureToViews(c, d) /\ d.targets = c.targets
  BY <1>1 DEF NetworkRestarted, FailureToViews
<1>3. ViewsOK(d)
  BY <1>1, <1>2, ViewsStayOK DEF Sound
<1>4. StreamOK(d)
  BY <1>1 DEF NetworkRestarted, StreamOK, IsStarted, Sound
<1> QED
  BY <1>1, <1>3, <1>4 DEF Sound

\* Only the call that is added hears of it, from the cache only when the client is offline.
Added(c, d, l, event) ==
  /\ d.listeners = [c.listeners EXCEPT ![QueryOf[l]] = @ \cup {l}] /\ d.online = c.online
  /\ \A k \in Lookups \ {l} : d.events[k] = c.events[k]
  /\ \/ d.events[l] = c.events[l] /\ d.raised = c.raised
     \/ /\ d.raised = c.raised \cup {l}
        /\ event = "server" \/ l \in c.raised \/ c.online = "Offline"
        /\ \/ d.events[l] = c.events[l]
           \/ Len(c.events[l]) < MaxEvents /\ d.events[l] = Append(c.events[l], event)

LEMMA ToldBound ==
  ASSUME NEW c \in Client, NEW d \in Client, NEW H, NEW e, Told(c, d, H, e),
         \A l \in Lookups : Len(c.events[l]) <= MaxEvents
  PROVE  \A l \in Lookups : Len(d.events[l]) <= MaxEvents
<1> SUFFICES ASSUME NEW l \in Lookups PROVE Len(d.events[l]) <= MaxEvents
  OBVIOUS
<1>1. d.events[l] = c.events[l] \/ (Len(c.events[l]) < MaxEvents /\ d.events[l] = Append(c.events[l], e))
  BY DEF Told
<1> QED
  BY <1>1, AppendBound

LEMMA ToldIsAdded ==
  ASSUME NEW c \in Client, NEW l \in Lookups, NEW a \in Client, NEW d \in Client,
         NEW H, NEW e,
         a.listeners = [c.listeners EXCEPT ![QueryOf[l]] = @ \cup {l}],
         a.events = c.events, a.raised = c.raised, a.online = c.online,
         Told(a, d, H, e), H = {} \/ H = {l},
         H = {l} => e = "server" \/ l \in c.raised \/ c.online = "Offline"
  PROVE  Added(c, d, l, e)
<1>1. /\ d.listeners = [c.listeners EXCEPT ![QueryOf[l]] = @ \cup {l}] /\ d.online = c.online
      /\ d.raised = c.raised \cup H
      /\ \A k \in Lookups : d.events[k] = IF k \in H /\ Len(c.events[k]) < MaxEvents
                                       THEN Append(c.events[k], e) ELSE c.events[k]
  BY DEF Told, TrackerKept
<1>2. \A k \in Lookups \ {l} : d.events[k] = c.events[k]
  BY <1>1
<1>3. CASE H = {}
  BY <1>1, <1>2, <1>3 DEF Added
<1>4. CASE H = {l}
  BY <1>1, <1>2, <1>4 DEF Added
<1> QED
  BY <1>3, <1>4

\* A listener added to a view that is there
ViewJoined(c, d, q, l) ==
  /\ c.view[q] # "none" /\ d.view = c.view /\ d.targets = c.targets /\ d.online = c.online
  /\ \A p \in Queries : d.listeners[p] = IF p = q THEN c.listeners[p] \cup {l} ELSE c.listeners[p]
  /\ c.raised \subseteq d.raised
  /\ l \in d.raised \/ (d.online # "Offline" /\ d.view[q] = "local")
  /\ \A k \in Lookups : Len(d.events[k]) <= MaxEvents

LEMMA AddedToViews ==
  ASSUME NEW c, NEW d, ViewsOK(c), NEW q \in Queries, NEW l, ViewJoined(c, d, q, l)
  PROVE  ViewsOK(d)
<1>1. \A p \in Queries : d.listeners[p] # {} <=> d.view[p] # "none"
  BY DEF ViewsOK, ViewJoined
<1>2. ASSUME NEW p \in Queries, NEW k \in d.listeners[p] \ d.raised
      PROVE  d.online # "Offline" /\ d.view[p] = "local"
  BY <1>2 DEF ViewsOK, ViewJoined
<1> QED
  BY <1>1, <1>2 DEF ViewsOK, ViewJoined

LEMMA AddKeepsSound ==
  ASSUME NEW c, Sound(c), NEW l \in Lookups, NEW d, d = AddQueryListener(c, l)
  PROVE  Sound(d) /\ \E e \in {"cache", "server"} : Added(c, d, l, e)
<1> DEFINE q == QueryOf[l]
           ls == [c.listeners EXCEPT ![q] = @ \cup {l}]
           a == [c EXCEPT !.listeners = ls]
<1>1. q \in Queries /\ c \in Client
  BY LookupAssumption DEF Queries, Sound
<1>2. ls \in [Queries -> SUBSET Lookups]
  BY <1>1 DEF Client
<1>3. /\ \A p \in Queries : ls[p] = IF p = q THEN c.listeners[p] \cup {l} ELSE c.listeners[p]
      /\ ls = [c.listeners EXCEPT ![QueryOf[l]] = @ \cup {l}]
  BY <1>1 DEF Client
<1>4. d = IF c.view[q] # "none" THEN OnViewSnapshot(a, {l}, c.view[q] = "local")
          ELSE Watch(OnViewSnapshot([a EXCEPT !.view[q] = "local"], {l}, TRUE), q)
  BY DEF AddQueryListener
<1> HIDE DEF ls, q
<1>5. /\ a \in Client /\ StreamKept(c, a) /\ TrackerKept(c, a) /\ a.failed = c.failed
      /\ a.view = c.view /\ a.listeners = ls /\ a.events = c.events /\ a.raised = c.raised
  BY <1>1, <1>2 DEF Client, StreamKept, TrackerKept
<1> HIDE DEF a
<1>6. {l} \in SUBSET Lookups
  OBVIOUS
<1>7. CASE c.view[q] = "synced"
  <2>1. d = OnViewSnapshot(a, {l}, FALSE)
    BY <1>4, <1>7
  <2>2. d \in Client /\ Told(a, d, {l}, "server")
    BY <1>5, <1>6, <2>1, ServerSnapshotContract
  <2>3. Added(c, d, l, "server")
    BY <1>1, <1>3, <1>5, <2>2, ToldIsAdded DEF TrackerKept
  <2>4. StreamOK(d)
    BY <1>5, <2>2 DEF Told, StreamKept, TrackerKept, StreamOK, Sound, IsStarted
  <2>5. \A k \in Lookups : Len(d.events[k]) <= MaxEvents
    BY <1>5, <2>2, ToldBound DEF Sound, ViewsOK
  <2>6. ViewsOK(d)
    <3>1. /\ d.view = c.view /\ d.listeners = ls /\ d.raised = c.raised \cup {l}
          /\ d.targets = c.targets /\ d.online = c.online
      BY <1>5, <2>2 DEF Told, StreamKept, TrackerKept
    <3> QED
      <4>1. /\ \A p \in Queries : d.listeners[p] = IF p = q THEN c.listeners[p] \cup {l} ELSE c.listeners[p]
            /\ c.raised \subseteq d.raised /\ l \in d.raised /\ c.view[q] # "none" /\ ViewsOK(c)
        BY <1>3, <1>7, <3>1 DEF Sound
      <4>2. ViewJoined(c, d, q, l)
        BY <2>5, <3>1, <4>1 DEF ViewJoined
      <4> QED
        BY <1>1, <4>1, <4>2, AddedToViews
  <2> QED
    BY <2>2, <2>3, <2>4, <2>6 DEF Sound
<1>8. CASE c.view[q] = "local"
  <2>1. d = OnViewSnapshot(a, {l}, TRUE)
    BY <1>4, <1>8
  <2>2. d \in Client /\ Told(a, d, CacheHearers(a, {l}), "cache")
    BY <1>5, <1>6, <2>1, CacheSnapshotContract
  <2>3. Added(c, d, l, "cache")
    <3>1. /\ CacheHearers(a, {l}) = {} \/ CacheHearers(a, {l}) = {l}
          /\ CacheHearers(a, {l}) = {l} => l \in c.raised \/ c.online = "Offline"
      BY <1>5 DEF CacheHearers, TrackerKept
    <3> QED
      BY <1>1, <1>3, <1>5, <2>2, <3>1, ToldIsAdded DEF TrackerKept
  <2>4. StreamOK(d)
    BY <1>5, <2>2 DEF Told, StreamKept, TrackerKept, StreamOK, Sound, IsStarted
  <2>5. \A k \in Lookups : Len(d.events[k]) <= MaxEvents
    BY <1>5, <2>2, ToldBound DEF Sound, ViewsOK
  <2>6. ViewsOK(d)
    <3>1. /\ d.view = c.view /\ d.listeners = ls /\ d.targets = c.targets /\ d.online = c.online
          /\ d.raised = c.raised \cup CacheHearers(a, {l})
      BY <1>5, <2>2 DEF Told, StreamKept, TrackerKept
    <3>2. l \in d.raised \/ d.online # "Offline"
      BY <3>1, <1>5 DEF CacheHearers, TrackerKept
    <3>3. c.raised \subseteq d.raised
      BY <3>1
    <3> QED
      <4>1. /\ \A p \in Queries : d.listeners[p] = IF p = q THEN c.listeners[p] \cup {l} ELSE c.listeners[p]
            /\ d.view[q] = "local" /\ c.view[q] # "none" /\ ViewsOK(c)
        BY <1>3, <1>8, <3>1 DEF Sound
      <4>2. ViewJoined(c, d, q, l)
        BY <2>5, <3>1, <3>2, <3>3, <4>1 DEF ViewJoined
      <4> QED
        BY <1>1, <4>1, <4>2, AddedToViews
  <2> QED
    BY <2>2, <2>3, <2>4, <2>6 DEF Sound
<1>9. CASE c.view[q] = "none"
  <2> DEFINE v == [a.view EXCEPT ![q] = "local"]
             b == [a EXCEPT !.view = v]
             t == OnViewSnapshot(b, {l}, TRUE)
  <2>1. d = Watch(t, q)
    BY <1>4, <1>9
  <2>2. /\ v \in [Queries -> {"none", "local", "synced"}]
        /\ \A p \in Queries : v[p] = IF p = q THEN "local" ELSE c.view[p]
    BY <1>1, <1>5 DEF Client
  <2> HIDE DEF v
  <2>3. /\ b \in Client /\ StreamKept(c, b) /\ TrackerKept(c, b) /\ b.failed = c.failed
        /\ b.view = v /\ b.listeners = ls /\ b.events = c.events /\ b.raised = c.raised
    BY <1>5, <2>2 DEF Client, StreamKept, TrackerKept
  <2> HIDE DEF b
  <2>4. t \in Client /\ Told(b, t, CacheHearers(b, {l}), "cache")
    BY <1>6, <2>3, CacheSnapshotContract
  <2> HIDE DEF t
  <2>5. Added(c, t, l, "cache")
    <3>1. /\ CacheHearers(b, {l}) = {} \/ CacheHearers(b, {l}) = {l}
          /\ CacheHearers(b, {l}) = {l} => l \in c.raised \/ c.online = "Offline"
      BY <2>3 DEF CacheHearers, TrackerKept
    <3> QED
      BY <1>1, <1>3, <2>3, <2>4, <3>1, ToldIsAdded DEF TrackerKept
  <2>6. /\ StreamKept(c, t) /\ TrackerKept(c, t) /\ t.failed = c.failed /\ t.view = v /\ t.listeners = ls
        /\ t.raised = c.raised \cup CacheHearers(b, {l})
    BY <2>3, <2>4 DEF Told, StreamKept, TrackerKept
  <2>7. d \in Client /\ StreamWatches(t, d, q)
    <3>1. t.enabled /\ (t.token <=> t.stream = "Starting") /\ (t.idle => t.stream = "Open")
      BY <2>6 DEF StreamKept, StreamOK, Sound
    <3>2. ~IsStarted(t) => t.failures = 0 /\ ~t.timer
      BY <2>6 DEF StreamKept, TrackerKept, StreamOK, Sound, IsStarted
    <3> QED
      BY <1>1, <2>1, <2>4, <3>1, <3>2, WatchContract
  <2>8. d.online = c.online
    BY <2>6, <2>7 DEF StreamWatches, StreamKept, TrackerKept, StreamOK, Sound, IsStarted
  <2>9. Added(c, d, l, "cache")
    BY <2>5, <2>7, <2>8 DEF Added, StreamWatches, ListenersKept
  <2>10. \A k \in Lookups : Len(d.events[k]) <= MaxEvents
    <3>1. \A k \in Lookups : Len(b.events[k]) <= MaxEvents
      BY <2>3 DEF Sound, ViewsOK
    <3>2. \A k \in Lookups : Len(t.events[k]) <= MaxEvents
      BY <2>3, <2>4, <3>1, ToldBound
    <3> QED
      BY <3>2, <2>7 DEF StreamWatches, ListenersKept
  <2>11. StreamOK(d)
    BY <2>6, <2>7 DEF StreamWatches, StreamKept, TrackerKept, StreamOK, Sound, IsStarted
  <2>12. ViewsOK(d)
    <3>1. d.view = v /\ d.listeners = ls /\ d.raised = c.raised \cup CacheHearers(b, {l})
      BY <2>6, <2>7 DEF StreamWatches, ListenersKept
    <3>2. d.targets = c.targets \cup {q}
      BY <2>6, <2>7 DEF StreamWatches, StreamKept
    <3>3. c.listeners[q] = {}
      BY <1>1, <1>9 DEF Sound, ViewsOK
    <3>4. l \in d.raised \/ d.online # "Offline"
      BY <3>1, <2>3, <2>8 DEF CacheHearers, TrackerKept
    <3>5. \A p \in Queries : d.listeners[p] # {} <=> d.view[p] # "none"
      <4>1. l \in ls[q] /\ v[q] # "none"
        <5>1. ls[q] = c.listeners[q] \cup {l} /\ v[q] = "local"
          BY <1>1, <1>3, <2>2
        <5> QED
          BY <5>1
      <4>2. \A p \in Queries \ {q} : ls[p] = c.listeners[p] /\ v[p] = c.view[p]
        BY <1>3, <2>2
      <4> QED
        BY <3>1, <4>1, <4>2 DEF Sound, ViewsOK
    <3>6. d.targets = {p \in Queries : d.view[p] # "none"}
      BY <1>1, <2>2, <3>1, <3>2 DEF Sound, ViewsOK
    <3>7. ASSUME NEW p \in Queries, NEW k \in d.listeners[p] \ d.raised
          PROVE  d.online # "Offline" /\ d.view[p] = "local"
      <4>1. CASE p = q
        <5>1. k = l /\ d.view[p] = "local"
          BY <1>3, <2>2, <3>1, <3>3, <4>1
        <5> QED
          BY <3>4, <5>1
      <4>2. CASE p # q
        <5>1. k \in c.listeners[p] \ c.raised /\ d.view[p] = c.view[p]
          BY <1>3, <2>2, <3>1, <4>2
        <5> QED
          BY <2>8, <5>1 DEF Sound, ViewsOK
      <4> QED
        BY <4>1, <4>2
    <3> QED
      BY <2>10, <3>5, <3>6, <3>7 DEF ViewsOK
  <2> QED
    BY <2>7, <2>9, <2>11, <2>12 DEF Sound
<1> QED
  BY <1>1, <1>7, <1>8, <1>9 DEF Client

\* Nobody hears of a listener that is removed.
Removed(c, d, l) ==
  /\ d.listeners = [c.listeners EXCEPT ![QueryOf[l]] = @ \ {l}]
  /\ d.raised = c.raised /\ d.events = c.events /\ d.online \in {c.online, "Unknown"}

LEMMA RemoveKeepsSound ==
  ASSUME NEW c, Sound(c), NEW l \in Lookups, NEW d, d = RemoveQueryListener(c, l)
  PROVE  Sound(d) /\ Removed(c, d, l)
<1> DEFINE q == QueryOf[l]
           ls == [c.listeners EXCEPT ![q] = @ \ {l}]
           a == [c EXCEPT !.listeners = ls]
<1>1. q \in Queries /\ c \in Client
  BY LookupAssumption DEF Queries, Sound
<1>2. ls \in [Queries -> SUBSET Lookups]
  BY <1>1 DEF Client
<1>3. /\ \A p \in Queries : ls[p] = IF p = q THEN c.listeners[p] \ {l} ELSE c.listeners[p]
      /\ ls = [c.listeners EXCEPT ![QueryOf[l]] = @ \ {l}]
  BY <1>1 DEF Client
<1>4. d = IF c.view[q] # "none" /\ a.listeners[q] = {}
          THEN [Unwatch(a, q) EXCEPT !.view[q] = "none"] ELSE a
  BY DEF RemoveQueryListener
<1> HIDE DEF ls, q
<1>5. /\ a \in Client /\ StreamKept(c, a) /\ TrackerKept(c, a) /\ a.failed = c.failed
      /\ a.view = c.view /\ a.listeners = ls /\ a.events = c.events /\ a.raised = c.raised
  BY <1>1, <1>2 DEF Client, StreamKept, TrackerKept
<1> HIDE DEF a
<1>6. CASE ~(c.view[q] # "none" /\ ls[q] = {})
  <2>1. d = a
    BY <1>4, <1>5, <1>6
  <2>2. \A p \in Queries : ls[p] \subseteq c.listeners[p] /\ (ls[p] = {} <=> c.listeners[p] = {})
    BY <1>1, <1>3, <1>6 DEF Sound, ViewsOK
  <2>3. ViewsOK(d)
    BY <1>5, <2>1, <2>2 DEF Sound, ViewsOK, StreamKept, TrackerKept
  <2>4. StreamOK(d)
    BY ZenonT(40), <1>5, <2>1 DEF StreamKept, TrackerKept, StreamOK, Sound, IsStarted
  <2> QED
    BY <1>3, <1>5, <2>1, <2>3, <2>4 DEF Sound, Removed, TrackerKept
<1>7. CASE c.view[q] # "none" /\ ls[q] = {}
  <2> DEFINE u == Unwatch(a, q)
             v == [u.view EXCEPT ![q] = "none"]
  <2>1. d = [u EXCEPT !.view = v]
    BY <1>4, <1>5, <1>7
  <2>2. q \in c.targets
    BY <1>1, <1>7 DEF Sound, ViewsOK
  <2>3. u \in Client /\ StreamUnwatches(a, u, q)
    BY <1>1, <1>5, <2>2, UnwatchContract DEF StreamKept
  <2> HIDE DEF u
  <2>4. u.view = c.view
    BY <1>5, <2>3 DEF StreamUnwatches, ListenersKept
  <2>5. /\ v \in [Queries -> {"none", "local", "synced"}]
        /\ \A p \in Queries : v[p] = IF p = q THEN "none" ELSE c.view[p]
    BY <1>1, <2>3, <2>4 DEF Client
  <2> HIDE DEF v
  <2>6. /\ d \in Client /\ StreamKept(u, d) /\ TrackerKept(u, d) /\ d.failed = u.failed
        /\ d.view = v /\ d.listeners = u.listeners /\ d.events = u.events /\ d.raised = u.raised
    BY ZenonT(40), <2>1, <2>3, <2>5 DEF Client, StreamKept, TrackerKept
  <2>7. /\ d.listeners = ls /\ d.events = c.events /\ d.raised = c.raised
        /\ d.targets = c.targets \ {q} /\ d.online \in {c.online, "Unknown"}
    BY <1>5, <2>3, <2>6 DEF StreamUnwatches, ListenersKept, StreamKept, TrackerKept
  <2>8. StreamOK(d)
    BY <1>5, <2>3, <2>6 DEF StreamUnwatches, StreamKept, TrackerKept, StreamOK, Sound, IsStarted
  <2>9. ViewsOK(d)
    <3>1. \A p \in Queries : d.listeners[p] # {} <=> d.view[p] # "none"
      BY <1>1, <1>3, <1>7, <2>5, <2>6, <2>7 DEF Sound, ViewsOK
    <3>2. d.targets = {p \in Queries : d.view[p] # "none"}
      BY <1>1, <2>5, <2>6, <2>7 DEF Sound, ViewsOK
    <3>3. ASSUME NEW p \in Queries, NEW k \in d.listeners[p] \ d.raised
          PROVE  d.online # "Offline" /\ d.view[p] = "local"
      <4>1. p # q /\ k \in c.listeners[p] \ c.raised
        BY <1>3, <1>7, <2>7, <3>3
      <4> QED
        BY <4>1, <2>5, <2>6, <2>7 DEF Sound, ViewsOK
    <3> QED
      BY <2>7, <3>1, <3>2, <3>3 DEF Sound, ViewsOK
  <2> QED
    BY <1>3, <2>6, <2>7, <2>8, <2>9 DEF Sound, Removed
<1> QED
  BY <1>6, <1>7

\* What the calls see of an event of the network or of a timer
ServedButState(c, d, event) ==
  /\ \A q \in Queries : d.listeners[q] \subseteq c.listeners[q]
  /\ c.raised \subseteq d.raised /\ d.raised \subseteq c.raised \cup Listening(c, Queries)
  /\ \A l \in Lookups :
       \/ d.events[l] = c.events[l]
       \/ /\ l \in Listening(c, Queries) /\ Len(c.events[l]) < MaxEvents
          /\ d.events[l] = Append(c.events[l], event)
          /\ l \in d.raised \/ (event = "error" /\ \E q \in Queries : l \in c.listeners[q] /\ d.listeners[q] = {})
          /\ event = "error" => \E q \in Queries : l \in c.listeners[q] /\ d.listeners[q] = {}

\* and it is from the cache only when the client is offline
Served(c, d, event) ==
  /\ ServedButState(c, d, event)
  /\ event = "cache" /\ d.raised # c.raised => d.online = "Offline"

LEMMA QuietIsServed ==
  ASSUME NEW c, NEW d, ListenersKept(c, d)
  PROVE  Served(c, d, "cache")
  BY DEF ListenersKept, Served, ServedButState

LEMMA FailureIsServed ==
  ASSUME NEW c, NEW d, FailureToViews(c, d)
  PROVE  Served(c, d, "cache")
<1>1. CASE ListenersKept(c, d)
  BY <1>1, QuietIsServed
<1>2. CASE d.online = "Offline" /\ OfflineToViews(c, d)
  BY <1>2 DEF OfflineToViews, Posted, Served, ServedButState
<1> QED
  BY <1>1, <1>2 DEF FailureToViews

LEMMA MessageKeepsSound ==
  ASSUME Sound(client), NEW S \in SUBSET Queries, NEW current \in BOOLEAN, Message(S, current)
  PROVE  \E e \in {"cache", "server"} : Sound(client') /\ Served(client, client', e)
<1> PICK c, d : c = client /\ d = client'
  OBVIOUS
<1> PICK o : o = UpdateState(c, "Online")
  OBVIOUS
<1> PICK state : state = IF current THEN "synced" ELSE "local"
  OBVIOUS
<1> PICK changed : changed = {q \in S : o.view[q] # state}
  OBVIOUS
<1>0. /\ Sound(c) /\ c.stream = "Open" /\ S \subseteq c.watched \cap c.targets
      /\ d = OnViewSnapshot([o EXCEPT !.view = [q \in Queries |-> IF q \in S THEN state ELSE @[q]]],
                            Listening(o, changed), ~current)
  BY DEF Message
<1> DEFINE v == [q \in Queries |-> IF q \in S THEN state ELSE o.view[q]]
           a == [o EXCEPT !.view = v]
<1>1. c \in Client /\ o \in Client /\ TrackerReset(c, o, "Online")
  BY <1>0, UpdateStateContract DEF Sound
<1>2. state \in {"synced", "local"}
  OBVIOUS
<1>3. /\ v \in [Queries -> {"none", "local", "synced"}]
      /\ \A q \in Queries : v[q] = IF q \in S THEN state ELSE c.view[q]
  BY <1>1, <1>2 DEF Client, TrackerReset, ListenersKept
<1>4. d = OnViewSnapshot(a, Listening(o, changed), ~current)
  BY <1>0
<1> HIDE DEF v
<1>5. /\ a \in Client /\ StreamKept(o, a) /\ TrackerKept(o, a) /\ a.failed = o.failed
      /\ a.view = v /\ a.listeners = o.listeners /\ a.events = o.events /\ a.raised = o.raised
  BY ZenonT(40), <1>1, <1>3 DEF Client, StreamKept, TrackerKept
<1> HIDE DEF a
<1>6. /\ StreamKept(c, a) /\ a.failed = c.failed /\ a.online = "Online" /\ a.failures = 0 /\ ~a.timer
      /\ a.view = v /\ a.listeners = c.listeners /\ a.events = c.events /\ a.raised = c.raised
  BY <1>1, <1>5 DEF TrackerReset, StreamKept, ListenersKept, TrackerKept
<1> DEFINE H == Listening(o, changed)
<1>7. changed = {q \in S : c.view[q] # state}
  BY <1>1 DEF TrackerReset, ListenersKept
<1>8. H \in SUBSET Lookups /\ H = Listening(c, changed) /\ H \subseteq Listening(c, Queries)
  <2>1. H = Listening(c, changed)
    BY <1>1 DEF Listening, TrackerReset, ListenersKept
  <2> QED
    BY <1>1, <1>7, <2>1, ListeningAreCalls
<1>9. d = OnViewSnapshot(a, H, ~current)
  BY <1>4
<1> HIDE DEF H
<1>10. \A q \in Queries : v[q] # "none" <=> c.view[q] # "none"
  BY <1>0, <1>2, <1>3 DEF Sound, ViewsOK
<1>11. ASSUME NEW K, NEW e \in {"cache", "server"}, d \in Client, Told(a, d, K, e), K \subseteq H,
              e = "cache" => K \subseteq c.raised,
              \A q \in Queries : \A l \in c.listeners[q] :
                l \notin c.raised \cup K => v[q] = "local"
       PROVE  Sound(d) /\ \E f \in {"cache", "server"} : Served(c, d, f)
  <2>1. /\ StreamKept(c, d) /\ d.failed = c.failed /\ d.online = "Online" /\ d.failures = 0 /\ ~d.timer
        /\ d.view = v /\ d.listeners = c.listeners /\ d.raised = c.raised \cup K
        /\ \A l \in Lookups : d.events[l] = IF l \in K /\ Len(c.events[l]) < MaxEvents
                                          THEN Append(c.events[l], e) ELSE c.events[l]
    <3>1. StreamKept(c, d)
      BY <1>6, <1>11 DEF Told, StreamKept
    <3>2. d.failed = c.failed /\ d.online = "Online" /\ d.failures = 0 /\ ~d.timer
      BY <1>6, <1>11 DEF Told, TrackerKept
    <3>3. d.view = v /\ d.listeners = c.listeners /\ d.raised = c.raised \cup K
      BY <1>6, <1>11 DEF Told
    <3>4. \A l \in Lookups : d.events[l] = IF l \in K /\ Len(c.events[l]) < MaxEvents
                                        THEN Append(c.events[l], e) ELSE c.events[l]
      BY <1>6, <1>11 DEF Told
    <3> QED
      BY <3>1, <3>2, <3>3, <3>4
  <2>2. StreamOK(d)
    BY <1>0, <2>1 DEF StreamKept, StreamOK, Sound, IsStarted
  <2>3. \A l \in Lookups : Len(d.events[l]) <= MaxEvents
    <3>1. \A l \in Lookups : Len(a.events[l]) <= MaxEvents
      BY <1>0, <1>6 DEF Sound, ViewsOK
    <3> QED
      BY <1>5, <1>11, <3>1, ToldBound
  <2>4. \A q \in Queries : \A l \in d.listeners[q] \ d.raised : d.online # "Offline" /\ d.view[q] = "local"
    BY <1>11, <2>1
  <2>5. ViewsOK(d)
    <3>1. d.targets = c.targets
      BY <2>1 DEF StreamKept
    <3>2. \A q \in Queries : d.listeners[q] # {} <=> d.view[q] # "none"
      BY <1>0, <1>10, <2>1 DEF ViewsOK, Sound
    <3>3. d.targets = {q \in Queries : d.view[q] # "none"}
      <4>1. d.targets = {q \in Queries : c.view[q] # "none"}
        BY <1>0, <3>1 DEF ViewsOK, Sound
      <4> QED
        BY <4>1, <1>10, <2>1
    <3> QED
      BY <2>3, <2>4, <3>2, <3>3 DEF ViewsOK
  <2>6. Served(c, d, e)
    BY <1>8, <1>11, <2>1 DEF Served, ServedButState
  <2> QED
    BY <1>11, <2>2, <2>5, <2>6 DEF Sound
<1>12. CASE current
  <2>1. d = OnViewSnapshot(a, H, FALSE)
    BY <1>9, <1>12
  <2>2. d \in Client /\ Told(a, d, H, "server")
    BY <1>5, <1>8, <2>1, ServerSnapshotContract
  <2>3. ASSUME NEW q \in Queries, NEW l \in c.listeners[q], l \notin c.raised \cup H
        PROVE  v[q] = "local"
    <3>1. c.view[q] = "local"
      BY <1>0, <2>3 DEF Sound, ViewsOK
    <3>2. q \notin changed
      BY <1>8, <2>3 DEF Listening
    <3> QED
      BY <1>3, <1>7, <1>12, <3>1, <3>2
  <2> QED
    BY <1>11, <2>2, <2>3
<1>13. CASE ~current
  <2>1. d = OnViewSnapshot(a, H, TRUE)
    BY <1>9, <1>13
  <2>2. d \in Client /\ Told(a, d, CacheHearers(a, H), "cache")
    BY <1>5, <1>8, <2>1, CacheSnapshotContract
  <2>3. CacheHearers(a, H) \subseteq H /\ CacheHearers(a, H) \subseteq c.raised
    BY <1>6 DEF CacheHearers
  <2>4. ASSUME NEW q \in Queries, NEW l \in c.listeners[q], l \notin c.raised
        PROVE  v[q] = "local"
    <3>1. c.view[q] = "local"
      BY <1>0, <2>4 DEF Sound, ViewsOK
    <3> QED
      BY <1>3, <1>13, <3>1
  <2> QED
    BY <1>11, <2>2, <2>3, <2>4
<1> QED
  BY <1>12, <1>13

LEMMA TargetErrorKeepsSound ==
  ASSUME NEW c, Sound(c), c.stream = "Open", NEW q \in Queries, q \in c.watched,
         NEW o, o = UpdateState(c, "Online"),
         NEW d, d = Post([o EXCEPT !.targets = @ \ {q}, !.watched = @ \ {q},
                                   !.view[q] = "none", !.listeners[q] = {}],
                         o.listeners[q], "error")
  PROVE  Sound(d) /\ Served(c, d, "error")
<1> DEFINE tg == o.targets \ {q}
           w == o.watched \ {q}
           v == [o.view EXCEPT ![q] = "none"]
           ls == [o.listeners EXCEPT ![q] = {}]
           a == [o EXCEPT !.targets = tg, !.watched = w, !.view = v, !.listeners = ls]
<1>1. c \in Client /\ o \in Client /\ TrackerReset(c, o, "Online")
  BY UpdateStateContract DEF Sound
<1>2. /\ tg \in SUBSET Queries /\ w \in SUBSET Queries
      /\ v \in [Queries -> {"none", "local", "synced"}]
      /\ ls \in [Queries -> SUBSET Lookups] /\ o.listeners[q] \in SUBSET Lookups
  BY <1>1 DEF Client
<1>3. /\ tg = c.targets \ {q} /\ w = c.watched \ {q} /\ o.listeners = c.listeners
      /\ \A p \in Queries : v[p] = IF p = q THEN "none" ELSE c.view[p]
      /\ \A p \in Queries : ls[p] = IF p = q THEN {} ELSE c.listeners[p]
  BY <1>1 DEF Client, TrackerReset, StreamKept, ListenersKept
<1>4. d = Post(a, o.listeners[q], "error")
  OBVIOUS
<1> HIDE DEF tg, w, v, ls
<1>5. /\ a \in Client /\ a.targets = tg /\ a.watched = w /\ a.view = v /\ a.listeners = ls
      /\ TrackerKept(o, a) /\ a.failed = o.failed /\ a.events = o.events /\ a.raised = o.raised
      /\ a.enabled = o.enabled /\ a.stream = o.stream /\ a.token = o.token /\ a.idle = o.idle
  BY ZenonT(40), <1>1, <1>2 DEF Client, TrackerKept
<1> HIDE DEF a
<1>6. d \in Client /\ PostedTo(a, d, o.listeners[q], "error")
  BY <1>2, <1>4, <1>5, PostContract
<1>7. /\ d.targets = tg /\ d.watched = w /\ d.view = v /\ d.listeners = ls /\ d.raised = c.raised
      /\ d.online = "Online" /\ d.failures = 0 /\ ~d.timer /\ d.failed = c.failed
      /\ d.enabled = c.enabled /\ d.stream = c.stream /\ d.token = c.token /\ d.idle = c.idle
  <2>1. /\ d.targets = a.targets /\ d.watched = a.watched /\ d.view = a.view /\ d.listeners = a.listeners
        /\ d.raised = a.raised /\ d.online = a.online /\ d.failures = a.failures /\ d.timer = a.timer
        /\ d.failed = a.failed /\ d.enabled = a.enabled /\ d.stream = a.stream /\ d.token = a.token /\ d.idle = a.idle
    BY ZenonT(40), <1>6 DEF PostedTo, StreamKept, TrackerKept, ListenersKept
  <2>2. /\ o.raised = c.raised /\ o.online = "Online" /\ o.failures = 0 /\ ~o.timer /\ o.failed = c.failed
        /\ o.enabled = c.enabled /\ o.stream = c.stream /\ o.token = c.token /\ o.idle = c.idle
    BY ZenonT(40), <1>1 DEF TrackerReset, StreamKept, ListenersKept
  <2> QED
    BY ZenonT(40), <1>5, <2>1, <2>2 DEF TrackerKept
<1>8. \A l \in Lookups : d.events[l] = IF l \in c.listeners[q] /\ Len(c.events[l]) < MaxEvents
                                    THEN Append(c.events[l], "error") ELSE c.events[l]
  BY <1>1, <1>3, <1>5, <1>6 DEF PostedTo, TrackerReset, ListenersKept
<1>9. StreamOK(d)
  BY ZenonT(40), <1>3, <1>7 DEF StreamOK, Sound, IsStarted
<1>10. Served(c, d, "error")
  <2>1. \A p \in Queries : d.listeners[p] \subseteq c.listeners[p]
    BY SMTT(40), <1>3, <1>7
  <2>2. q \in Queries /\ d.listeners[q] = {}
    BY SMTT(40), <1>3, <1>7
  <2>3. \A l \in Lookups : l \in c.listeners[q] => l \in Listening(c, Queries)
    BY DEF Listening
  <2> QED
    <3>1. ASSUME NEW l \in Lookups, d.events[l] # c.events[l]
          PROVE  /\ l \in c.listeners[q] /\ Len(c.events[l]) < MaxEvents
                 /\ d.events[l] = Append(c.events[l], "error")
      BY <1>8, <3>1
    <3>2. ASSUME NEW l \in Lookups, d.events[l] # c.events[l]
          PROVE  /\ l \in Listening(c, Queries) /\ Len(c.events[l]) < MaxEvents
                 /\ d.events[l] = Append(c.events[l], "error")
                 /\ \E p \in Queries : l \in c.listeners[p] /\ d.listeners[p] = {}
      BY <2>2, <2>3, <3>1, <3>2
    <3>3. c.raised \subseteq d.raised /\ d.raised \subseteq c.raised \cup Listening(c, Queries)
      BY <1>7
    <3> QED
      BY <2>1, <3>2, <3>3 DEF Served, ServedButState
<1>11. ViewsOK(d)
  <2>1. \A l \in Lookups : Len(d.events[l]) <= MaxEvents
    <3> SUFFICES ASSUME NEW l \in Lookups PROVE Len(d.events[l]) <= MaxEvents
      OBVIOUS
    <3>1. \/ d.events[l] = c.events[l]
          \/ Len(c.events[l]) < MaxEvents /\ d.events[l] = Append(c.events[l], "error")
      BY <1>8
    <3>2. Len(c.events[l]) <= MaxEvents
      BY DEF Sound, ViewsOK
    <3> QED
      BY <1>1, <3>1, <3>2, AppendBound
  <2>2. \A p \in Queries : d.listeners[p] # {} <=> d.view[p] # "none"
    BY SMTT(40), <1>3, <1>7 DEF Sound, ViewsOK
  <2>3. d.targets = {p \in Queries : d.view[p] # "none"}
    BY SMTT(40), <1>3, <1>7 DEF Sound, ViewsOK
  <2>4. ASSUME NEW p \in Queries, NEW k \in d.listeners[p] \ d.raised
        PROVE  d.online # "Offline" /\ d.view[p] = "local"
    <3>1. p # q /\ k \in c.listeners[p] \ c.raised
      BY <1>3, <1>7, <2>4
    <3> QED
      BY SMTT(40), <1>3, <1>7, <3>1 DEF Sound, ViewsOK
  <2> QED
    BY <2>1, <2>2, <2>3, <2>4 DEF ViewsOK
<1> QED
  BY <1>6, <1>9, <1>10, <1>11 DEF Sound

LEMMA TimeoutKeepsSound ==
  ASSUME NEW c, Sound(c), c.timer,
         NEW d, d = SetAndBroadcast(HardAssert([c EXCEPT !.timer = FALSE], c.online = "Unknown"), "Offline")
  PROVE  Sound(d) /\ Served(c, d, "cache")
<1> DEFINE a == [c EXCEPT !.timer = FALSE]
<1>1. c \in Client /\ c.online = "Unknown" /\ IsStarted(c)
  BY DEF Sound, StreamOK
<1>2. /\ a \in Client /\ StreamKept(c, a) /\ ListenersKept(c, a) /\ a.failed = c.failed
      /\ a.online = c.online /\ a.failures = c.failures
  BY <1>1 DEF Client, StreamKept, ListenersKept
<1>3. ~a.timer
  BY <1>1 DEF Client
<1>4. d = SetAndBroadcast(HardAssert(a, c.online = "Unknown"), "Offline")
  OBVIOUS
<1> HIDE DEF a
<1>5. HardAssert(a, c.online = "Unknown") = a
  BY <1>1, <1>2, AssertPasses
<1>6. d \in Client /\ WentOffline(a, d)
  BY <1>1, <1>2, <1>4, <1>5, OfflineContract
<1>7. FailureToViews(a, d)
  BY <1>6 DEF FailureToViews, WentOffline
<1>8. FailureToViews(c, d) /\ d.targets = c.targets
  BY <1>2, <1>6, <1>7, FailureAfterKept DEF WentOffline, StreamKept
<1>9. ViewsOK(d) /\ Served(c, d, "cache")
  BY <1>1, <1>6, <1>8, ViewsStayOK, FailureIsServed DEF Sound
<1>10. StreamOK(d)
  <2>1. d.online = "Offline" /\ ~d.timer /\ d.failed = c.failed /\ StreamKept(c, d)
    BY <1>2, <1>3, <1>6 DEF WentOffline, StreamKept
  <2>2. IsStarted(d)
    BY <1>1, <2>1 DEF StreamKept, IsStarted
  <2> QED
    BY <2>1, <2>2 DEF StreamKept, StreamOK, Sound
<1> QED
  BY <1>6, <1>9, <1>10 DEF Sound

LEMMA TokenKeepsSound ==
  ASSUME NEW c, Sound(c), c.token, NEW d, d = ResumeStart([c EXCEPT !.token = FALSE])
  PROVE  Sound(d) /\ ListenersKept(c, d)
<1> DEFINE a == [c EXCEPT !.token = FALSE]
<1>1. c \in Client /\ c.stream = "Starting"
  BY DEF Sound, StreamOK
<1>2. /\ a \in Client /\ TrackerKept(c, a) /\ ListenersKept(c, a) /\ a.failed = c.failed
      /\ a.enabled = c.enabled /\ a.stream = c.stream /\ a.idle = c.idle
      /\ a.targets = c.targets /\ ~a.token
  BY <1>1 DEF Client, TrackerKept, ListenersKept
<1>3. d = [HardAssert(a, a.stream = "Starting") EXCEPT !.stream = "Open", !.watched = a.targets]
  BY DEF ResumeStart
<1> HIDE DEF a
<1>4. HardAssert(a, a.stream = "Starting") = a
  BY <1>1, <1>2, AssertPasses
<1>5. d = [a EXCEPT !.stream = "Open", !.watched = a.targets]
  BY <1>3, <1>4
<1>6. /\ d \in Client /\ TrackerKept(a, d) /\ ListenersKept(a, d) /\ d.failed = a.failed
      /\ d.enabled = a.enabled /\ d.stream = "Open" /\ d.idle = a.idle
      /\ d.targets = a.targets /\ d.watched = a.targets /\ d.token = a.token
  BY ZenonT(40), <1>2, <1>5 DEF Client, TrackerKept, ListenersKept
<1>7. /\ TrackerKept(c, d) /\ ListenersKept(c, d) /\ d.failed = c.failed /\ d.enabled = c.enabled
      /\ d.targets = c.targets /\ d.watched = d.targets /\ ~d.token /\ (d.idle => c.idle)
  BY <1>2, <1>6 DEF TrackerKept, ListenersKept
<1>8. StreamOK(d)
  BY <1>1, <1>6, <1>7 DEF TrackerKept, StreamOK, Sound, IsStarted
<1>9. ViewsOK(d)
  BY <1>1, <1>6, <1>7, ViewsStayOK DEF FailureToViews, TrackerKept, Sound
<1> QED
  BY <1>6, <1>7, <1>8, <1>9 DEF Sound

\* A start that gets no token closes the stream again.
LEMMA TokenFailureKeepsSound ==
  ASSUME NEW c, Sound(c), c.token,
         NEW d, d = Close(HardAssert([c EXCEPT !.token = FALSE], c.stream = "Starting"), FALSE)
  PROVE  Sound(d) /\ FailureToViews(c, d)
<1> DEFINE a == [c EXCEPT !.token = FALSE]
<1>1. c \in Client /\ c.stream = "Starting"
  BY DEF Sound, StreamOK
<1>2. /\ a \in Client /\ TrackerKept(c, a) /\ ListenersKept(c, a) /\ a.failed = c.failed
      /\ a.enabled = c.enabled /\ a.stream = c.stream /\ a.targets = c.targets
  BY <1>1 DEF Client, TrackerKept, ListenersKept
<1>3. d = Close(HardAssert(a, c.stream = "Starting"), FALSE)
  OBVIOUS
<1> HIDE DEF a
<1>4. HardAssert(a, c.stream = "Starting") = a
  BY <1>1, <1>2, AssertPasses
<1>5. ViewsOK(a)
  BY <1>1, <1>2, ViewsStayOK DEF FailureToViews, TrackerKept, Sound
<1>6. /\ a.enabled /\ IsStarted(a) /\ ~a.failed
      /\ a.online = "Online" => a.failures = 0 /\ ~a.timer
  BY <1>1, <1>2 DEF TrackerKept, StreamOK, Sound, IsStarted
<1>7. Sound(d) /\ StreamClosed(a, d)
  BY ZenonT(40), <1>2, <1>3, <1>4, <1>5, <1>6, CloseKeepsSound
<1>8. FailureToViews(a, d)
  BY <1>7 DEF StreamClosed
<1> QED
  BY <1>2, <1>7, <1>8, FailureAfterKept DEF TrackerKept

LEMMA BackoffKeepsSound ==
  ASSUME NEW c, Sound(c), c.stream = "Backoff", NEW d, d = StreamStart([c EXCEPT !.stream = "Initial"])
  PROVE  Sound(d) /\ ListenersKept(c, d)
<1> DEFINE a == [c EXCEPT !.stream = "Initial"]
<1>1. c \in Client /\ ~c.idle
  BY DEF Sound, StreamOK
<1>2. a \in Client /\ a.stream = "Initial"
  BY <1>1 DEF Client
<1>3. HardAssert(a, a.stream = "Initial") = a
  BY <1>2 DEF HardAssert, Client
<1>4. d = [c EXCEPT !.stream = "Starting", !.token = TRUE]
  BY <1>1, <1>2, <1>3 DEF StreamStart, Client
<1>5. /\ d \in Client /\ TrackerKept(c, d) /\ ListenersKept(c, d) /\ d.failed = c.failed
      /\ d.enabled = c.enabled /\ d.stream = "Starting" /\ d.token /\ d.targets = c.targets
  BY <1>1, <1>4 DEF Client, TrackerKept, ListenersKept
<1>6. ~d.idle
  BY <1>1, <1>4 DEF Client
<1>7. StreamOK(d)
  BY <1>5, <1>6 DEF TrackerKept, StreamOK, Sound, IsStarted
<1>8. ViewsOK(d)
  BY <1>1, <1>5, ViewsStayOK DEF FailureToViews, TrackerKept, Sound
<1> QED
  BY <1>5, <1>7, <1>8 DEF Sound

LEMMA StaleKeepsSound ==
  ASSUME NEW c, Sound(c), NEW d, d = [c EXCEPT !.stale = FALSE]
  PROVE  Sound(d) /\ ListenersKept(c, d)
<1>1. c \in Client
  BY DEF Sound
<1>2. /\ d \in Client /\ TrackerKept(c, d) /\ ListenersKept(c, d) /\ d.failed = c.failed
      /\ d.enabled = c.enabled /\ d.stream = c.stream /\ d.token = c.token /\ d.idle = c.idle
      /\ d.targets = c.targets /\ d.watched = c.watched
  BY <1>1 DEF Client, TrackerKept, ListenersKept
<1>3. StreamOK(d)
  BY <1>2 DEF TrackerKept, StreamOK, Sound, IsStarted
<1>4. ViewsOK(d)
  BY <1>1, <1>2, ViewsStayOK DEF FailureToViews, TrackerKept, Sound
<1> QED
  BY <1>2, <1>3, <1>4 DEF Sound

LEMMA IdleKeepsSound ==
  ASSUME NEW c, Sound(c), c.idle, NEW d, d = Stop([c EXCEPT !.idle = FALSE])
  PROVE  Sound(d) /\ ListenersKept(c, d)
<1>1. c \in Client /\ c.stream = "Open" /\ c.targets = {}
  BY DEF Sound, StreamOK
<1> PICK a : a = [c EXCEPT !.idle = FALSE]
  OBVIOUS
<1>2. /\ a \in Client /\ TrackerKept(c, a) /\ ListenersKept(c, a) /\ a.failed = c.failed
      /\ a.enabled = c.enabled /\ a.stream = c.stream /\ a.token = c.token
      /\ a.targets = c.targets /\ a.watched = c.watched
  BY <1>1 DEF Client, TrackerKept, ListenersKept
<1>3. ~a.idle
  BY <1>1 DEF Client
<1>4. StreamOK(a)
  BY <1>2, <1>3 DEF TrackerKept, StreamOK, Sound, IsStarted
<1>5. ViewsOK(a)
  BY <1>1, <1>2, ViewsStayOK DEF FailureToViews, TrackerKept, Sound
<1>6. Sound(d) /\ StreamStopped(a, d)
  BY <1>1, <1>2, <1>4, <1>5, StopKeepsSound DEF Sound, IsStarted
<1> QED
  BY <1>2, <1>6 DEF StreamStopped, ListenersKept

-----------------------------------------------------------------------------
\* CallsAgree

Operation == [add : BOOLEAN, lookup : Lookups]

LEMMA QueuedAreCalls ==
  ASSUME NEW list \in Seq(Operation), NEW i \in DOMAIN list
  PROVE  list[i].lookup \in Lookups /\ list[i].add \in BOOLEAN
<1>1. list[i] \in Operation
  OBVIOUS
<1> QED
  BY <1>1 DEF Operation

LEMMA ListeningIsOwn ==
  ASSUME client \in Client, ListenersAreCalls, NEW l \in Lookups, l \in Listening(client, Queries)
  PROVE  l \in client.listeners[QueryOf[l]] /\ l \in called
  BY DEF ListenersAreCalls, Listening

LEMMA EventsAreSeqs ==
  ASSUME NEW c \in Client, NEW l \in Lookups
  PROVE  c.events[l] \in Seq({"cache", "server", "error"})
  BY DEF Client

LEMMA ServedKeepsEvents ==
  ASSUME client \in Client, client' \in Client, ListenersAreCalls,
         NEW l \in Lookups, EventsAgree(l), NEW e, ServedButState(client, client', e)
  PROVE  EventsAgree(l)'
<1> DEFINE own == QueryOf[l]
<1>1. own \in Queries
  BY LookupAssumption DEF Queries
<1>2. l \notin client'.raised => l \notin client.raised
  BY DEF ServedButState
<1>3. l \notin client.listeners[own] => l \notin client'.listeners[own]
  BY <1>1 DEF ServedButState
<1>4. CASE client'.events[l] = client.events[l]
  BY <1>2, <1>3, <1>4 DEF EventsAgree
<1>5. CASE client'.events[l] # client.events[l]
  <2> DEFINE ev == client.events[l]
  <2>1. /\ l \in Listening(client, Queries) /\ client'.events[l] = Append(ev, e)
        /\ l \in client'.raised \/ e = "error"
        /\ e = "error" => \E q \in Queries : l \in client.listeners[q] /\ client'.listeners[q] = {}
    BY <1>5 DEF ServedButState
  <2>2. l \in client.listeners[own]
    BY <2>1, ListeningIsOwn
  <2>3. e = "error" => l \notin client'.listeners[own]
    BY <2>1 DEF ListenersAreCalls
  <2>4. ev \in Seq({"cache", "server", "error"})
    BY EventsAreSeqs
  <2>5. \A i \in DOMAIN ev : ev[i] # "error" /\ l \in client.raised
    BY <2>2 DEF EventsAgree
  <2> HIDE DEF ev
  <2>6. SUFFICES ASSUME NEW i \in DOMAIN Append(ev, e)
                 PROVE  /\ l \notin client'.raised => Append(ev, e)[i] = "error"
                        /\ Append(ev, e)[i] = "error" =>
                             i = Len(Append(ev, e)) /\ l \notin client'.listeners[QueryOf[l]]
    BY <2>1 DEF EventsAgree
  <2>7. CASE i \in DOMAIN ev
    <3>1. Append(ev, e)[i] = ev[i]
      BY <2>4, <2>7
    <3> QED
      BY <3>1, <2>5, <2>7, <1>2
  <2>8. CASE i = Len(ev) + 1
    <3>1. Append(ev, e)[i] = e /\ Len(Append(ev, e)) = i
      BY <2>4, <2>8
    <3> QED
      BY <3>1, <2>1, <2>3
  <2> QED
    BY <2>4, <2>6, <2>7, <2>8
<1> QED
  BY <1>4, <1>5

LEMMA ServedKeepsFresh ==
  ASSUME client \in Client, ListenersAreCalls, NEW e, ServedButState(client, client', e),
         NEW l \in Lookups, l \notin client.listeners[QueryOf[l]]
  PROVE  /\ l \notin client'.listeners[QueryOf[l]] /\ client'.events[l] = client.events[l]
         /\ l \in client'.raised => l \in client.raised
<1>1. QueryOf[l] \in Queries
  BY LookupAssumption DEF Queries
<1>2. l \notin Listening(client, Queries)
  BY ListeningIsOwn
<1> QED
  BY <1>1, <1>2 DEF ServedButState

LEMMA ServedKeepsCalls ==
  ASSUME client \in Client, client' \in Client, CallsAgree, NEW e, ServedButState(client, client', e),
         queue \in Seq(Operation), UNCHANGED <<queue, called, muted, answers>>
  PROVE  CallsAgree'
<1>1. ListenersAreCalls'
  BY DEF CallsAgree, ListenersAreCalls, ServedButState
<1>2. ASSUME NEW l \in Lookups, Fresh(l) PROVE Fresh(l)'
  BY <1>2, ServedKeepsFresh DEF Fresh, CallsAgree
<1>3. QueueAgrees'
  <2>1. \A i \in DOMAIN queue : queue[i].lookup \in Lookups
    BY QueuedAreCalls
  <2> QED
    BY <1>2, <2>1 DEF QueueAgrees, CallsAgree
<1>4. ASSUME NEW l \in Lookups PROVE AnswersAgree(l)'
  <2>1. AnswersAgree(l)
    BY DEF CallsAgree
  <2> QED
    BY <1>2, <2>1, ServedKeepsFresh DEF AnswersAgree, CallsAgree
<1>5. ASSUME NEW l \in Lookups PROVE EventsAgree(l)'
  BY ServedKeepsEvents DEF CallsAgree
<1> QED
  BY <1>1, <1>3, <1>4, <1>5 DEF CallsAgree

LEMMA TailOf ==
  ASSUME NEW T, NEW list \in Seq(T), list # <<>>
  PROVE  /\ 1 \in DOMAIN list /\ Head(list) = list[1] /\ Head(list) \in T
         /\ Tail(list) \in Seq(T) /\ Len(list) \in Nat /\ Len(Tail(list)) = Len(list) - 1
         /\ DOMAIN Tail(list) = 1 .. Len(list) - 1 /\ (Len(list) = 1 => Tail(list) = <<>>)
         /\ \A i \in DOMAIN Tail(list) :
              i \in Nat /\ i + 1 \in DOMAIN list /\ i + 1 # 1 /\ Tail(list)[i] = list[i + 1]
<1>1. /\ 1 \in DOMAIN list /\ Head(list) = list[1] /\ Head(list) \in T
      /\ Tail(list) \in Seq(T) /\ Len(list) \in Nat /\ Len(Tail(list)) = Len(list) - 1
  OBVIOUS
<1>2. DOMAIN Tail(list) = 1 .. Len(list) - 1
  BY <1>1
<1>3. Len(list) = 1 => Tail(list) = <<>>
  <2>1. \A s \in Seq(T) : Len(s) = 0 => s = <<>>
    OBVIOUS
  <2>2. Len(list) = 1 => Len(Tail(list)) = 0
    BY <1>1
  <2> QED
    BY <1>1, <2>1, <2>2
<1>4. \A i \in DOMAIN Tail(list) :
        i \in Nat /\ i + 1 \in DOMAIN list /\ i + 1 # 1 /\ Tail(list)[i] = list[i + 1]
  OBVIOUS
<1> QED
  BY <1>1, <1>2, <1>3, <1>4

\* What the operations left on the queue need of a step that runs the first one
LEMMA TailKeepsQueueAgrees ==
  ASSUME queue \in Seq(Operation), queue # <<>>, queue' = Tail(queue), called' = called, QueueAgrees,
         \A k \in Lookups : k # Head(queue).lookup \/ ~Head(queue).add => (Fresh(k) => Fresh(k)')
  PROVE  QueueAgrees'
<1> PICK rest : rest = Tail(queue)
  OBVIOUS
<1>1. /\ 1 \in DOMAIN queue /\ Head(queue) = queue[1] /\ rest \in Seq(Operation)
      /\ \A i \in DOMAIN rest : i + 1 \in DOMAIN queue /\ i + 1 # 1 /\ rest[i] = queue[i + 1]
  BY TailOf
<1>2. \A i, j \in DOMAIN rest : i + 1 = j + 1 => i = j
  BY <1>1
<1>4. queue' = rest
  OBVIOUS
<1>3. ASSUME NEW i \in DOMAIN rest
      PROVE  /\ rest[i].lookup \in called'
             /\ rest[i].add => Fresh(rest[i].lookup)'
             /\ \A j \in DOMAIN rest : rest[i].add /\ rest[j].add /\ rest[i].lookup = rest[j].lookup => i = j
  <2>1. rest[i].lookup \in Lookups
    BY <1>1, QueuedAreCalls
  <2>2. rest[i].add => Fresh(rest[i].lookup)
    BY <1>1 DEF QueueAgrees
  <2>3. rest[i].add => rest[i].lookup # Head(queue).lookup \/ ~Head(queue).add
    BY <1>1 DEF QueueAgrees
  <2>4. rest[i].lookup \in called
    BY <1>1 DEF QueueAgrees
  <2>5. \A j \in DOMAIN rest : rest[i].add /\ rest[j].add /\ rest[i].lookup = rest[j].lookup => i = j
    BY <1>1, <1>2 DEF QueueAgrees
  <2>6. rest[i].add => Fresh(rest[i].lookup)'
    BY <2>1, <2>2, <2>3
  <2>7. rest[i].lookup \in called'
    BY <2>4
  <2> QED
    BY <2>5, <2>6, <2>7
<1> QED
  BY <1>3, <1>4 DEF QueueAgrees

LEMMA AddedKeepsCalls ==
  ASSUME client \in Client, client' \in Client, CallsAgree, queue \in Seq(Operation), queue # <<>>,
         queue' = Tail(queue), UNCHANGED <<called, muted, answers>>, Head(queue).add,
         NEW l, l = Head(queue).lookup, NEW e \in {"cache", "server"}, Added(client, client', l, e)
  PROVE  CallsAgree'
<1> DEFINE own == QueryOf[l]
<1>1. 1 \in DOMAIN queue /\ Head(queue) = queue[1]
  BY TailOf
<1>2. l \in Lookups /\ l \in called /\ Fresh(l)
  BY <1>1, QueuedAreCalls DEF CallsAgree, QueueAgrees
<1>3. own \in Queries
  BY <1>2, LookupAssumption DEF Queries
<1>4. /\ client'.listeners[own] = client.listeners[own] \cup {l}
      /\ \A q \in Queries \ {own} : client'.listeners[q] = client.listeners[q]
      /\ client'.raised \ {l} = client.raised \ {l}
      /\ \A k \in Lookups \ {l} : client'.events[k] = client.events[k]
  <2>1. /\ client'.listeners[own] = client.listeners[own] \cup {l}
        /\ \A q \in Queries \ {own} : client'.listeners[q] = client.listeners[q]
    <3>1. client.listeners \in [Queries -> SUBSET Lookups]
      BY DEF Client
    <3>2. client'.listeners = [client.listeners EXCEPT ![own] = @ \cup {l}]
      BY DEF Added
    <3> QED
      BY <1>3, <3>1, <3>2
  <2>2. client'.raised \ {l} = client.raised \ {l}
    BY DEF Added
  <2>3. \A k \in Lookups \ {l} : client'.events[k] = client.events[k]
    BY DEF Added
  <2> QED
    BY <2>1, <2>2, <2>3
<1>5. ASSUME NEW k \in Lookups, k # l
      PROVE  /\ k \in client'.listeners[QueryOf[k]] <=> k \in client.listeners[QueryOf[k]]
             /\ k \in client'.raised <=> k \in client.raised
             /\ client'.events[k] = client.events[k]
  <2>1. QueryOf[k] \in Queries
    BY LookupAssumption DEF Queries
  <2> QED
    BY SMTT(30), <1>4, <1>5, <2>1
<1>6. ListenersAreCalls'
  BY <1>2, <1>3, <1>4 DEF CallsAgree, ListenersAreCalls
<1>7. QueueAgrees'
  <2>1. \A k \in Lookups : k # l => (Fresh(k) => Fresh(k)')
    BY <1>5 DEF Fresh
  <2> QED
    BY <2>1, TailKeepsQueueAgrees DEF CallsAgree
<1>8. ASSUME NEW k \in Lookups, k # l PROVE AnswersAgree(k)' /\ EventsAgree(k)'
  <2>1. AnswersAgree(k) /\ EventsAgree(k)
    BY DEF CallsAgree
  <2>2. AnswersAgree(k)'
    BY <1>5, <1>8, <2>1 DEF AnswersAgree, Fresh
  <2>3. EventsAgree(k)'
    BY <1>5, <1>8, <2>1 DEF EventsAgree
  <2> QED
    BY <2>2, <2>3
<1>9. AnswersAgree(l)'
  BY <1>2 DEF CallsAgree, AnswersAgree, Fresh
<1>10. EventsAgree(l)'
  <2>1. \/ client'.events[l] = <<>>
        \/ l \in client'.raised /\ client'.events[l] = <<e>>
    BY SMTT(40), <1>2 DEF Added, Fresh
  <2> QED
    BY <2>1 DEF EventsAgree
<1> QED
  BY <1>6, <1>7, <1>8, <1>9, <1>10 DEF CallsAgree

LEMMA RemovedKeepsCalls ==
  ASSUME client \in Client, client' \in Client, CallsAgree, queue \in Seq(Operation), queue # <<>>,
         queue' = Tail(queue), UNCHANGED <<called, muted, answers>>, ~Head(queue).add,
         NEW l \in Lookups, Removed(client, client', l)
  PROVE  CallsAgree'
<1> DEFINE own == QueryOf[l]
<1>1. own \in Queries
  BY LookupAssumption DEF Queries
<1>2. \A q \in Queries : client'.listeners[q] \subseteq client.listeners[q]
  BY <1>1 DEF Removed, Client
<1>3. client'.raised = client.raised /\ client'.events = client.events
  BY DEF Removed
<1>4. \A k \in Lookups : k \notin client.listeners[QueryOf[k]] => k \notin client'.listeners[QueryOf[k]]
  <2>1. \A k \in Lookups : QueryOf[k] \in Queries
    BY LookupAssumption DEF Queries
  <2> QED
    BY <1>2, <2>1
<1>5. ListenersAreCalls'
  BY <1>2 DEF CallsAgree, ListenersAreCalls
<1>6. QueueAgrees'
  <2>1. \A k \in Lookups : Fresh(k) => Fresh(k)'
    BY <1>3, <1>4 DEF Fresh
  <2> QED
    BY <2>1, TailKeepsQueueAgrees DEF CallsAgree
<1>7. ASSUME NEW k \in Lookups PROVE AnswersAgree(k)' /\ EventsAgree(k)'
  <2>1. AnswersAgree(k) /\ EventsAgree(k)
    BY DEF CallsAgree
  <2>2. AnswersAgree(k)'
    BY <1>3, <1>4, <2>1 DEF AnswersAgree, Fresh
  <2>3. EventsAgree(k)'
    BY <1>3, <1>4, <2>1 DEF EventsAgree
  <2> QED
    BY <2>2, <2>3
<1> QED
  BY <1>5, <1>6, <1>7 DEF CallsAgree

LEMMA QueueGrows ==
  ASSUME NEW list \in Seq(Operation), NEW o \in Operation
  PROVE  /\ Append(list, o) \in Seq(Operation)
         /\ \A i \in DOMAIN Append(list, o) :
              \/ i \in DOMAIN list /\ Append(list, o)[i] = list[i]
              \/ i = Len(list) + 1 /\ Append(list, o)[i] = o
  OBVIOUS

LEMMA CallJoinsQueue ==
  ASSUME queue \in Seq(Operation), QueueAgrees, called \subseteq called', NEW l \in Lookups, l \in called',
         NEW add \in BOOLEAN, queue' = Append(queue, [add |-> add, lookup |-> l]),
         \A k \in Lookups : Fresh(k) /\ (k \in called \/ add) => Fresh(k)',
         add => l \notin called /\ Fresh(l)
  PROVE  QueueAgrees'
<1> DEFINE o == [add |-> add, lookup |-> l]
<1> PICK list : list = Append(queue, o)
  OBVIOUS
<1>1. o \in Operation /\ o.add = add /\ o.lookup = l
  BY DEF Operation
<1> HIDE DEF o
<1>2. \A i \in DOMAIN list : (i \in DOMAIN queue /\ list[i] = queue[i]) \/ (i = Len(queue) + 1 /\ list[i] = o)
  BY <1>1, QueueGrows
<1>3. queue' = list
  BY DEF o
<1>4. ASSUME NEW i \in DOMAIN list
      PROVE  list[i].lookup \in called' /\ (list[i].add => Fresh(list[i].lookup)')
  <2>1. CASE i \in DOMAIN queue /\ list[i] = queue[i]
    <3>1. list[i].lookup \in Lookups /\ list[i].lookup \in called
      BY <2>1, QueuedAreCalls DEF QueueAgrees
    <3>2. list[i].add => Fresh(list[i].lookup)
      BY <2>1 DEF QueueAgrees
    <3> QED
      BY <3>1, <3>2
  <2>2. CASE list[i] = o
    BY <2>2, <1>1
  <2> QED
    BY <1>2, <2>1, <2>2
<1>5. ASSUME NEW i \in DOMAIN list, NEW j \in DOMAIN list,
             list[i].add, list[j].add, list[i].lookup = list[j].lookup
      PROVE  i = j
  <2>1. CASE i \in DOMAIN queue /\ list[i] = queue[i]
    <3>1. CASE j \in DOMAIN queue /\ list[j] = queue[j]
      BY <1>5, <2>1, <3>1 DEF QueueAgrees
    <3>2. CASE j = Len(queue) + 1 /\ list[j] = o
      BY <1>1, <1>5, <2>1, <3>2 DEF QueueAgrees
    <3> QED
      BY <1>2, <3>1, <3>2
  <2>2. CASE i = Len(queue) + 1 /\ list[i] = o
    <3>1. CASE j \in DOMAIN queue /\ list[j] = queue[j]
      BY <1>1, <1>5, <2>2, <3>1 DEF QueueAgrees
    <3>2. CASE j = Len(queue) + 1
      BY <2>2, <3>2
    <3> QED
      BY <1>2, <3>1, <3>2
  <2> QED
    BY <1>2, <2>1, <2>2
<1> QED
  BY <1>3, <1>4, <1>5 DEF QueueAgrees

LEMMA AskKeepsCalls ==
  ASSUME client \in Client, CallsAgree, queue \in Seq(Operation), NEW l \in Lookups, GetDocuments(l)
  PROVE  CallsAgree' /\ queue' \in Seq(Operation)
<1>1. /\ client' = client /\ muted' = muted /\ answers' = answers /\ called' = called \cup {l}
      /\ l \notin called /\ queue' = Append(queue, [add |-> TRUE, lookup |-> l])
  BY DEF GetDocuments
<1>2. Fresh(l)
  BY <1>1 DEF CallsAgree, AnswersAgree
<1>3. \A k \in Lookups : Fresh(k) => Fresh(k)'
  BY <1>1 DEF Fresh
<1>4. QueueAgrees'
  BY <1>1, <1>2, <1>3, CallJoinsQueue DEF CallsAgree
<1>5. ListenersAreCalls'
  BY <1>1 DEF CallsAgree, ListenersAreCalls
<1>6. ASSUME NEW k \in Lookups PROVE AnswersAgree(k)' /\ EventsAgree(k)'
  <2>1. AnswersAgree(k) /\ EventsAgree(k)
    BY DEF CallsAgree
  <2> QED
    BY <1>1, <2>1 DEF AnswersAgree, EventsAgree, Fresh
<1>7. [add |-> TRUE, lookup |-> l] \in Operation
  BY DEF Operation
<1> QED
  BY <1>1, <1>4, <1>5, <1>6, <1>7, QueueGrows DEF CallsAgree

\* An event is taken off its list, and nothing else of the client changes.
LEMMA EventTaken ==
  ASSUME client \in Client, NEW l \in Lookups, client.events[l] # <<>>,
         client' = [client EXCEPT !.events[l] = Tail(@)]
  PROVE  /\ client' \in Client /\ StreamKept(client, client') /\ TrackerKept(client, client')
         /\ client'.failed = client.failed /\ client'.view = client.view
         /\ client'.listeners = client.listeners /\ client'.raised = client.raised
         /\ client'.events[l] = Tail(client.events[l])
         /\ \A k \in Lookups \ {l} : client'.events[k] = client.events[k]
<1> PICK ev : ev = [client.events EXCEPT ![l] = Tail(@)]
  OBVIOUS
<1>1. client.events \in [Lookups -> Seq({"cache", "server", "error"})]
  BY DEF Client
<1>2. Tail(client.events[l]) \in Seq({"cache", "server", "error"})
  BY <1>1
<1>3. ev \in [Lookups -> Seq({"cache", "server", "error"})] /\ ev[l] = Tail(client.events[l])
      /\ \A k \in Lookups \ {l} : ev[k] = client.events[k]
  BY <1>1, <1>2
<1>4. client' = [client EXCEPT !.events = ev]
  OBVIOUS
<1>5. client' \in Client /\ client'.events = ev
  BY <1>3, <1>4 DEF Client
<1>6. /\ StreamKept(client, client') /\ TrackerKept(client, client')
      /\ client'.failed = client.failed /\ client'.view = client.view
      /\ client'.listeners = client.listeners /\ client'.raised = client.raised
  BY <1>4 DEF Client, StreamKept, TrackerKept
<1> QED
  BY <1>3, <1>5, <1>6

LEMMA EventKeepsSound ==
  ASSUME Sound(client), NEW l \in Lookups, client.events[l] # <<>>,
         client' = [client EXCEPT !.events[l] = Tail(@)]
  PROVE  Sound(client')
<1>1. client \in Client
  BY DEF Sound
<1>2. /\ client' \in Client /\ StreamKept(client, client') /\ TrackerKept(client, client')
      /\ client'.failed = client.failed /\ client'.view = client.view
      /\ client'.listeners = client.listeners /\ client'.raised = client.raised
      /\ client'.events[l] = Tail(client.events[l])
      /\ \A k \in Lookups \ {l} : client'.events[k] = client.events[k]
  BY <1>1, EventTaken
<1>3. StreamOK(client')
  BY <1>2 DEF StreamKept, TrackerKept, StreamOK, Sound, IsStarted
<1>4. ASSUME NEW k \in Lookups PROVE Len(client'.events[k]) <= MaxEvents
  <2>1. Len(client.events[k]) <= MaxEvents /\ Len(client.events[l]) <= MaxEvents
    BY DEF Sound, ViewsOK
  <2>2. Len(Tail(client.events[l])) = Len(client.events[l]) - 1 /\ Len(client.events[l]) \in Nat
    BY <1>1, EventsAreSeqs, TailOf
  <2>3. Len(Tail(client.events[l])) <= MaxEvents
    BY <2>1, <2>2, LookupAssumption
  <2> QED
    BY <1>2, <2>1, <2>3
<1>5. ViewsOK(client')
  BY <1>2, <1>4 DEF StreamKept, TrackerKept, ViewsOK, Sound
<1> QED
  BY <1>2, <1>3, <1>5 DEF Sound

LEMMA EventKeepsCalls ==
  ASSUME client \in Client, CallsAgree, queue \in Seq(Operation),
         answers \in [Lookups -> Seq({"server", "cache", "error"})], NEW l \in Lookups, OnEvent(l)
  PROVE  CallsAgree' /\ queue' \in Seq(Operation) /\ l \in called
         /\ answers' \in [Lookups -> Seq({"server", "cache", "error"})]
<1> DEFINE event == Head(client.events[l])
<1>1. /\ client.events[l] # <<>> /\ client' = [client EXCEPT !.events[l] = Tail(@)] /\ called' = called
      /\ IF l \in muted THEN UNCHANGED <<queue, muted, answers>>
         ELSE /\ answers' = [answers EXCEPT ![l] = Append(@, event)]
              /\ IF event = "error" THEN UNCHANGED <<queue, muted>>
                 ELSE /\ muted' = muted \cup {l}
                      /\ queue' = Append(queue, [add |-> FALSE, lookup |-> l])
  BY DEF OnEvent
<1>2. /\ client'.listeners = client.listeners /\ client'.raised = client.raised
      /\ client'.events[l] = Tail(client.events[l])
      /\ \A k \in Lookups \ {l} : client'.events[k] = client.events[k]
  BY <1>1, EventTaken
<1>3. /\ 1 \in DOMAIN client.events[l] /\ event = client.events[l][1]
      /\ event \in {"cache", "server", "error"}
      /\ Len(client.events[l]) = 1 => Tail(client.events[l]) = <<>>
      /\ Len(Tail(client.events[l])) = Len(client.events[l]) - 1 /\ Len(client.events[l]) \in Nat
      /\ \A i \in DOMAIN Tail(client.events[l]) :
           i \in Nat /\ i + 1 \in DOMAIN client.events[l] /\ Tail(client.events[l])[i] = client.events[l][i + 1]
  BY <1>1, EventsAreSeqs, TailOf
<1>4. /\ AnswersAgree(l) /\ EventsAgree(l) /\ ~Fresh(l)
      /\ \A k \in Lookups : AnswersAgree(k) /\ EventsAgree(k)
  BY <1>1 DEF CallsAgree, Fresh
<1>5. l \in called /\ (l \notin muted => answers[l] = <<>>)
  BY <1>1, <1>4 DEF AnswersAgree
<1> HIDE DEF event
<1>6. \A k \in Lookups \ {l} : answers'[k] = answers[k]
  BY <1>1
<1>7. l \notin muted => answers'[l] = <<event>>
  BY <1>1, <1>5
<1>8. \A k \in Lookups : Fresh(k) => k # l
  BY <1>4
<1>9. \A k \in Lookups : Fresh(k) => Fresh(k)'
  BY <1>2, <1>6, <1>8 DEF Fresh
<1>10. QueueAgrees'
  <2>1. CASE queue' = queue
    <3>1. \A i \in DOMAIN queue : queue[i].lookup \in Lookups
      BY QueuedAreCalls
    <3> QED
      BY <1>1, <1>9, <2>1, <3>1 DEF QueueAgrees, CallsAgree
  <2>2. CASE queue' = Append(queue, [add |-> FALSE, lookup |-> l])
    BY <1>1, <1>5, <1>9, <2>2, CallJoinsQueue DEF CallsAgree
  <2> QED
    BY <1>1, <2>1, <2>2
<1>11. ListenersAreCalls'
  BY <1>1, <1>2 DEF CallsAgree, ListenersAreCalls
<1>12. ASSUME NEW k \in Lookups, k # l PROVE AnswersAgree(k)' /\ EventsAgree(k)'
  <2>1. AnswersAgree(k) /\ EventsAgree(k)
    BY <1>4
  <2>2. k \in muted' <=> k \in muted
    BY <1>1, <1>12
  <2>3. AnswersAgree(k)'
    BY <1>1, <1>2, <1>6, <1>12, <2>1, <2>2 DEF AnswersAgree, Fresh
  <2>4. EventsAgree(k)'
    BY <1>2, <1>12, <2>1 DEF EventsAgree
  <2> QED
    BY <2>3, <2>4
<1>13. EventsAgree(l)'
  <2>1. ASSUME NEW i \in DOMAIN Tail(client.events[l])
        PROVE  /\ l \notin client.raised => Tail(client.events[l])[i] = "error"
               /\ Tail(client.events[l])[i] = "error" =>
                    i = Len(Tail(client.events[l])) /\ l \notin client.listeners[QueryOf[l]]
    BY <1>3, <1>4 DEF EventsAgree
  <2> QED
    BY <1>2, <2>1 DEF EventsAgree
<1>14. AnswersAgree(l)'
  <2>1. CASE l \in muted
    BY <1>1, <1>4, <1>5, <2>1 DEF AnswersAgree
  <2>2. CASE l \notin muted /\ event = "error"
    <3>1. client'.events[l] = <<>> /\ l \notin client'.listeners[QueryOf[l]]
      BY ZenonT(40), <1>2, <1>3, <1>4, <2>2 DEF EventsAgree
    <3> QED
      BY <1>1, <1>5, <1>7, <2>2, <3>1 DEF AnswersAgree
  <2>3. CASE l \notin muted /\ event # "error"
    <3>1. l \in muted' /\ l \in called' /\ answers'[l] = <<event>>
      BY <1>1, <1>5, <1>7, <2>3
    <3> QED
      BY <3>1 DEF AnswersAgree
  <2> QED
    BY <2>1, <2>2, <2>3
<1>15. queue' \in Seq(Operation)
  <2>1. [add |-> FALSE, lookup |-> l] \in Operation
    BY DEF Operation
  <2> QED
    BY <1>1, <2>1, QueueGrows
<1>16. answers' \in [Lookups -> Seq({"server", "cache", "error"})]
  <2>1. <<event>> \in Seq({"server", "cache", "error"})
    BY <1>3
  <2>2. Append(answers[l], event) = <<event>> \/ l \in muted
    <3>1. Append(<<>>, event) = <<event>>
      OBVIOUS
    <3> QED
      BY <1>5, <3>1
  <2> QED
    BY <1>1, <2>1, <2>2
<1> QED
  BY <1>5, <1>10, <1>11, <1>12, <1>13, <1>14, <1>15, <1>16 DEF CallsAgree

-----------------------------------------------------------------------------
\* The inductive invariant

\* of a process that goes on
IInv == ~hungup /\ ClientOK /\ TrackerAgrees /\ CallsAgree

\* and of one that an assertion has ended
Over == hungup /\ ClientOK

Rest ==
  /\ queue \in Seq(Operation) /\ called \subseteq Lookups /\ muted \subseteq called
  /\ answers \in [Lookups -> Seq({"server", "cache", "error"})] /\ changes \in 0 .. MaxChanges
  /\ hungup = FALSE

LEMMA IInvParts == IInv <=> Sound(client) /\ Rest /\ CallsAgree
<1>1. IInv => Sound(client)
  BY DEF IInv, ClientOK, TypeOK, AssertionsHold, BooksAgree, StreamServesTargets, NoAnswerWithheld,
         TrackerAgrees, Sound, ViewsOK, StreamOK
<1>2. IInv => Rest /\ CallsAgree
  BY ZenonT(40) DEF IInv, ClientOK, TypeOK, Rest, Operation
<1>3. Sound(client) /\ Rest => TypeOK
  BY DEF Sound, ViewsOK, Rest, TypeOK, Operation
<1>4. Sound(client) /\ Rest => /\ AssertionsHold /\ BooksAgree /\ StreamServesTargets
                       /\ NoAnswerWithheld /\ TrackerAgrees
  BY DEF AssertionsHold, BooksAgree, StreamServesTargets, NoAnswerWithheld,
         TrackerAgrees, Sound, ViewsOK, StreamOK, Rest
<1>5. Rest => ~hungup
  BY DEF Rest
<1> QED
  BY <1>1, <1>2, <1>3, <1>4, <1>5 DEF IInv, ClientOK

LEMMA IInvNext ==
  ASSUME Sound(client'), Rest', CallsAgree'
  PROVE  IInv'
<1>1. TypeOK'
  BY DEF Sound, ViewsOK, Rest, TypeOK, Operation
<1>2. (AssertionsHold /\ BooksAgree /\ StreamServesTargets /\ NoAnswerWithheld /\ TrackerAgrees)'
  BY DEF AssertionsHold, BooksAgree, StreamServesTargets, NoAnswerWithheld,
         TrackerAgrees, Sound, ViewsOK, StreamOK, Rest
<1>3. ~hungup'
  BY DEF Rest
<1> QED
  BY <1>1, <1>2, <1>3 DEF IInv, ClientOK

LEMMA InitIInv == Init => IInv
<1> SUFFICES ASSUME Init PROVE IInv
  OBVIOUS
<1>1. /\ queue = <<>> /\ called = {} /\ muted = {} /\ answers = [l \in Lookups |-> <<>>] /\ changes = 0
      /\ hungup = FALSE
      /\ client = [enabled |-> TRUE, stream |-> "Initial", token |-> FALSE, stale |-> FALSE,
               idle |-> FALSE, targets |-> {}, watched |-> {}, online |-> "Unknown",
               failures |-> 0, timer |-> FALSE, view |-> [q \in Queries |-> "none"],
               listeners |-> [q \in Queries |-> {}], raised |-> {},
               events |-> [l \in Lookups |-> <<>>], failed |-> FALSE]
  BY DEF Init
<1>2. /\ client.enabled /\ client.stream = "Initial" /\ ~client.token /\ ~client.idle /\ ~client.timer
      /\ client.targets = {} /\ client.online = "Unknown" /\ client.failures = 0 /\ ~client.failed
      /\ client.raised = {} /\ \A q \in Queries : client.view[q] = "none" /\ client.listeners[q] = {}
      /\ \A l \in Lookups : client.events[l] = <<>> /\ answers[l] = <<>>
  BY <1>1
<1>3. client \in Client
  <2>1. [q \in Queries |-> "none"] \in [Queries -> {"none", "local", "synced"}]
    OBVIOUS
  <2>2. [q \in Queries |-> {}] \in [Queries -> SUBSET Lookups]
    OBVIOUS
  <2>3. [l \in Lookups |-> <<>>] \in [Lookups -> Seq({"cache", "server", "error"})]
    OBVIOUS
  <2>4. 0 \in 0 .. 2 /\ {} \in SUBSET Queries /\ {} \in SUBSET Lookups
    OBVIOUS
  <2> QED
    BY <1>1, <2>1, <2>2, <2>3, <2>4 DEF Client
<1>4. Sound(client)
  <2>1. ViewsOK(client)
    BY <1>2, LookupAssumption DEF ViewsOK
  <2>2. StreamOK(client)
    BY <1>2 DEF StreamOK, IsStarted
  <2> QED
    BY <1>3, <2>1, <2>2 DEF Sound
<1>5. Rest
  BY <1>1, LookupAssumption DEF Rest
<1>6. CallsAgree
  <2>1. \A l \in Lookups : QueryOf[l] \in Queries
    BY LookupAssumption DEF Queries
  <2>2. \A l \in Lookups : Fresh(l)
    BY <1>2, <2>1 DEF Fresh
  <2> QED
    BY <1>1, <1>2, <2>1, <2>2 DEF CallsAgree, ListenersAreCalls, QueueAgrees, AnswersAgree, EventsAgree
<1> QED
  BY <1>4, <1>5, <1>6, IInvParts

\* A step of the network or of a timer: the calls are as they were, or served.
LEMMA ServingStep ==
  ASSUME IInv, Sound(client'), NEW e, ServedButState(client, client', e),
         UNCHANGED <<queue, called, muted, answers, hungup>>, changes' \in 0 .. MaxChanges
  PROVE  IInv'
<1>1. Sound(client) /\ Rest /\ CallsAgree
  BY IInvParts
<1>2. CallsAgree'
  BY <1>1, ServedKeepsCalls DEF Sound, Rest
<1>3. Rest'
  BY <1>1 DEF Rest
<1> QED
  BY <1>2, <1>3, IInvNext

LEMMA RunStep ==
  ASSUME IInv, Run
  PROVE  IInv'
<1>1. Sound(client) /\ Rest /\ CallsAgree /\ queue \in Seq(Operation)
  BY IInvParts DEF Rest
<1>2. /\ queue # <<>> /\ queue' = Tail(queue) /\ UNCHANGED <<called, muted, answers, changes, hungup>>
      /\ client' = IF Head(queue).add THEN AddQueryListener(client, Head(queue).lookup)
                   ELSE RemoveQueryListener(client, Head(queue).lookup)
  BY DEF Run, Goes, userVars
<1>3. Head(queue).lookup \in Lookups /\ Tail(queue) \in Seq(Operation)
  BY <1>1, <1>2, TailOf, QueuedAreCalls
<1>4. Sound(client') /\ CallsAgree'
  <2>1. CASE Head(queue).add
    <3>1. client' = AddQueryListener(client, Head(queue).lookup)
      BY <1>2, <2>1
    <3>2. PICK e \in {"cache", "server"} : Sound(client') /\ Added(client, client', Head(queue).lookup, e)
      BY <1>1, <1>3, <3>1, AddKeepsSound
    <3> QED
      BY <1>1, <1>2, <2>1, <3>2, AddedKeepsCalls DEF Sound
  <2>2. CASE ~Head(queue).add
    <3>1. client' = RemoveQueryListener(client, Head(queue).lookup)
      BY <1>2, <2>2
    <3>2. Sound(client') /\ Removed(client, client', Head(queue).lookup)
      BY <1>1, <1>3, <3>1, RemoveKeepsSound
    <3> QED
      BY <1>1, <1>2, <1>3, <2>2, <3>2, RemovedKeepsCalls DEF Sound
  <2> QED
    BY <2>1, <2>2
<1>5. Rest'
  BY <1>1, <1>2, <1>3 DEF Rest
<1> QED
  BY <1>4, <1>5, IInvNext

LEMMA AppStep ==
  ASSUME IInv, NEW l \in Lookups, GetDocuments(l) \/ OnEvent(l)
  PROVE  IInv'
<1>1. Sound(client) /\ Rest /\ CallsAgree /\ client \in Client /\ queue \in Seq(Operation)
  BY IInvParts DEF Rest, Sound
<1>2. CASE GetDocuments(l)
  <2>1. CallsAgree' /\ queue' \in Seq(Operation)
    BY <1>1, <1>2, AskKeepsCalls
  <2> QED
    <3>1. Sound(client') /\ Rest'
      BY <1>1, <1>2, <2>1 DEF GetDocuments, Goes, Rest
    <3> QED
      BY <2>1, <3>1, IInvNext
<1>3. CASE OnEvent(l)
  <2>1. /\ CallsAgree' /\ queue' \in Seq(Operation) /\ l \in called
        /\ answers' \in [Lookups -> Seq({"server", "cache", "error"})]
    BY <1>1, <1>3, EventKeepsCalls DEF Rest
  <2>2. Sound(client')
    BY <1>1, <1>3, EventKeepsSound DEF OnEvent
  <2>3. muted' \subseteq called' /\ called' = called /\ changes' = changes /\ hungup' = hungup
    BY <1>1, <1>3, <2>1 DEF OnEvent, Goes, Rest
  <2> QED
    <3>1. Rest'
      BY <1>1, <2>1, <2>3 DEF Rest
    <3> QED
      BY <2>1, <2>2, <3>1, IInvNext
<1> QED
  BY <1>2, <1>3

\* Every other step serves the calls, with one kind of event.
Serves ==
  \E e \in {"cache", "server", "error"} :
    /\ Sound(client') /\ ServedButState(client, client', e)
    /\ UNCHANGED <<queue, called, muted, answers, hungup>>
    /\ changes' \in 0 .. MaxChanges
    /\ e = "cache" /\ client'.raised # client.raised => client'.online = "Offline" \/ changes' # changes

LEMMA TimersServe ==
  ASSUME IInv, Timers
  PROVE  Serves
<1>1. Sound(client) /\ Rest
  BY IInvParts
<1>2. UNCHANGED <<queue, called, muted, answers, changes, hungup>>
  BY DEF Timers, BackoffElapses, OnlineStateTimeout, IdleTimeout, Goes, userVars
<1>3. changes' \in 0 .. MaxChanges
  BY <1>1, <1>2 DEF Rest
<1>4. Sound(client') /\ Served(client, client', "cache")
  <2>1. CASE BackoffElapses
    BY <1>1, <2>1, BackoffKeepsSound, QuietIsServed DEF BackoffElapses
  <2>2. CASE OnlineStateTimeout
    BY <1>1, <2>2, TimeoutKeepsSound DEF OnlineStateTimeout
  <2>3. CASE IdleTimeout
    BY <1>1, <2>3, IdleKeepsSound, QuietIsServed DEF IdleTimeout
  <2> QED
    BY <2>1, <2>2, <2>3 DEF Timers
<1> QED
  BY <1>2, <1>3, <1>4 DEF Serves, Served

LEMMA TokensServe ==
  ASSUME IInv, TokenArrives \/ TokenFails \/ StaleTokenArrives
  PROVE  Serves
<1>1. Sound(client) /\ Rest
  BY IInvParts
<1>2. UNCHANGED <<queue, called, muted, answers, changes, hungup>>
  BY DEF TokenArrives, TokenFails, StaleTokenArrives, Goes, userVars
<1>3. changes' \in 0 .. MaxChanges
  BY <1>1, <1>2 DEF Rest
<1>4. Sound(client') /\ Served(client, client', "cache")
  <2>1. CASE TokenArrives
    BY <1>1, <2>1, TokenKeepsSound, QuietIsServed DEF TokenArrives
  <2>2. CASE TokenFails
    BY <1>1, <2>2, TokenFailureKeepsSound, FailureIsServed DEF TokenFails
  <2>3. CASE StaleTokenArrives
    <3>1. client' = [client EXCEPT !.stale = FALSE]
      BY <2>3 DEF StaleTokenArrives
    <3>2. Sound(client') /\ ListenersKept(client, client')
      BY <1>1, <3>1, StaleKeepsSound
    <3> QED
      BY <3>2, QuietIsServed
  <2> QED
    BY <2>1, <2>2, <2>3
<1> QED
  BY <1>2, <1>3, <1>4 DEF Serves, Served

LEMMA NetworkServes ==
  ASSUME IInv, StreamFails \/ NetworkAvailable \/ (StreamCloses /\ client.targets = {})
  PROVE  Serves
<1>1. Sound(client) /\ Rest /\ client \in Client /\ ViewsOK(client) /\ StreamOK(client)
  BY IInvParts DEF Sound
<1>2. UNCHANGED <<queue, called, muted, answers, hungup>>
  BY <1>1 DEF StreamFails, NetworkAvailable, StreamCloses, Goes, userVars, Rest
<1>3. ASSUME client.stream = "Open"
      PROVE  Sound(Close(client, FALSE)) /\ StreamClosed(client, Close(client, FALSE))
  <2>1. /\ client.enabled /\ IsStarted(client) /\ ~client.failed
        /\ client.online = "Online" => client.failures = 0 /\ ~client.timer
    BY <1>1, <1>3 DEF StreamOK, IsStarted
  <2> QED
    BY <1>1, <2>1, CloseKeepsSound
<1>4. CASE StreamFails
  <2>1. client.stream = "Open" /\ client' = Close(client, FALSE) /\ changes' = changes
    BY <1>4 DEF StreamFails
  <2>2. Sound(client') /\ FailureToViews(client, client')
    BY <1>3, <2>1 DEF StreamClosed
  <2>3. Served(client, client', "cache") /\ changes' \in 0 .. MaxChanges
    BY <1>1, <2>1, <2>2, FailureIsServed DEF Rest
  <2> QED
    BY <1>2, <2>2, <2>3 DEF Serves, Served
<1>5. CASE NetworkAvailable
  <2>1. changes' \in 0 .. MaxChanges /\ changes' # changes
    BY <1>1, <1>5, LookupAssumption DEF NetworkAvailable, Rest
  <2> PICK a : a = IF client.stream = "Open" THEN Close(client, FALSE) ELSE client
    OBVIOUS
  <2>2. client' = RestartNetwork(a)
    BY <1>5 DEF NetworkAvailable
  <2>3. Sound(a) /\ FailureToViews(client, a) /\ a.stream # "Open"
    BY <1>1, <1>3 DEF StreamClosed, FailureToViews, ListenersKept
  <2>4. Sound(client') /\ NetworkRestarted(a, client')
    BY <2>2, <2>3, RestartKeepsSound
  <2>5. ListenersKept(a, client')
    BY <2>4 DEF NetworkRestarted
  <2>6. ServedButState(client, client', "cache")
    <3>1. ServedButState(client, a, "cache")
      BY <2>3, FailureIsServed DEF Served
    <3> QED
      <4>1. /\ client'.listeners = a.listeners /\ client'.raised = a.raised
            /\ client'.events = a.events
        BY <2>5 DEF ListenersKept
      <4>2. ASSUME NEW l \in Lookups, client'.events[l] # client.events[l]
            PROVE  /\ l \in Listening(client, Queries) /\ Len(client.events[l]) < MaxEvents
                   /\ client'.events[l] = Append(client.events[l], "cache") /\ l \in client'.raised
        <5>1. a.events[l] # client.events[l]
          BY <4>1, <4>2
        <5>2. /\ l \in Listening(client, Queries) /\ Len(client.events[l]) < MaxEvents
              /\ a.events[l] = Append(client.events[l], "cache") /\ l \in a.raised
          BY <3>1, <5>1 DEF ServedButState
        <5> QED
          BY <4>1, <5>2
      <4>3. /\ \A q \in Queries : client'.listeners[q] \subseteq client.listeners[q]
            /\ client.raised \subseteq client'.raised
            /\ client'.raised \subseteq client.raised \cup Listening(client, Queries)
        BY <3>1, <4>1 DEF ServedButState
      <4> QED
        BY <4>2, <4>3 DEF ServedButState
  <2> QED
    BY <1>2, <2>1, <2>4, <2>6 DEF Serves
<1>6. CASE StreamCloses /\ client.targets = {}
  <2>1. IsStarted(client) /\ Close(client, TRUE) = Stop(client) /\ changes' = changes
    BY <1>6 DEF StreamCloses, IsStarted, Stop
  <2>2. Sound(Stop(client)) /\ StreamStopped(client, Stop(client))
    BY <1>1, <1>6, <2>1, StopKeepsSound
  <2>3. ~Stop(client).failed
    BY <2>2 DEF Sound, StreamOK
  <2>4. client' = Stop(client)
    BY <1>6, <2>1, <2>3 DEF StreamCloses
  <2>5. ListenersKept(client, client')
    BY <2>2, <2>4 DEF StreamStopped
  <2>6. Served(client, client', "cache") /\ changes' \in 0 .. MaxChanges
    BY <1>1, <2>1, <2>5, QuietIsServed DEF Rest
  <2> QED
    BY <1>2, <2>2, <2>4, <2>6 DEF Serves, Served
<1> QED
  BY <1>4, <1>5, <1>6

\* The one step after which no other follows: a listened stream is closed with OK,
\* and nothing of the client changes but that it is over.
HungUp ==
  /\ client.targets # {} /\ client' = [client EXCEPT !.failed = TRUE] /\ hungup' = TRUE
  /\ UNCHANGED <<queue, called, muted, answers, changes>>

LEMMA NeededCloseFails ==
  ASSUME IInv, client.stream = "Open", client.targets # {}
  PROVE  Close(client, TRUE).failed
<1> DEFINE st == client.stale \/ client.token
           e == [client EXCEPT !.idle = FALSE, !.watched = {}, !.stale = st, !.token = FALSE,
                               !.stream = "Initial"]
<1>1. client \in Client /\ StreamOK(client)
  BY IInvParts DEF Sound
<1>2. HardAssert(client, IsStarted(client)) = client
  <2>1. IsStarted(client)
    BY DEF IsStarted
  <2> QED
    BY <1>1, <2>1, AssertPasses
<1>3. Close(client, TRUE) = OnWatchStreamClose(e, TRUE)
  BY <1>2 DEF Close
<1>4. st \in BOOLEAN
  BY <1>1 DEF Client
<1> HIDE DEF st
<1>5. /\ e \in Client /\ e.enabled = client.enabled /\ e.targets = client.targets /\ e.stream = "Initial"
      /\ TrackerKept(client, e)
  BY <1>1, <1>4 DEF Client, TrackerKept
<1> HIDE DEF e
<1>6. ShouldStartWatchStream(e)
  BY <1>1, <1>5 DEF ShouldStartWatchStream, IsStarted, StreamOK
<1> DEFINE f == [e EXCEPT !.failed = TRUE]
<1>7. HardAssert(e, TRUE => ~ShouldStartWatchStream(e)) = f
  BY <1>5, <1>6 DEF HardAssert, Client
<1>8. /\ f \in Client /\ f.failed /\ TrackerKept(e, f) /\ f.enabled = e.enabled
      /\ f.targets = e.targets /\ f.stream = e.stream
  BY <1>5 DEF Client, TrackerKept
<1> HIDE DEF f
<1> DEFINE a == HandleWatchStreamFailure(f)
<1>9. f.online = "Online" => f.failures = 0 /\ ~f.timer
  BY <1>1, <1>5, <1>8 DEF TrackerKept, StreamOK
<1>10. a \in Client /\ StreamBroke(f, a)
  BY <1>8, <1>9, FailureContract
<1>11. OnWatchStreamClose(e, TRUE) = StartWatchStream(a)
  BY <1>6, <1>7 DEF OnWatchStreamClose
<1> HIDE DEF a
<1>12. ShouldStartWatchStream(a) /\ ~a.timer /\ a.failed
  BY <1>6, <1>8, <1>10 DEF StreamBroke, StreamKept, ShouldStartWatchStream, IsStarted
<1>13. StartWatchStream(a).failed = a.failed
  BY <1>10, <1>12, StartContract DEF StreamStarted
<1> QED
  BY <1>3, <1>11, <1>12, <1>13

LEMMA NeededCloseHangsUp ==
  ASSUME IInv, StreamCloses, client.targets # {}
  PROVE  HungUp
<1>1. Close(client, TRUE).failed
  BY NeededCloseFails DEF StreamCloses
<1> QED
  BY <1>1 DEF StreamCloses, HungUp, userVars

\* What the process leaves behind is in order.
LEMMA HungUpIsOver ==
  ASSUME IInv, HungUp
  PROVE  Over'
<1>1. client \in Client /\ ClientOK
  BY IInvParts DEF Sound, IInv
<1>2. /\ client' \in Client /\ client'.failed /\ StreamKept(client, client')
      /\ TrackerKept(client, client') /\ ListenersKept(client, client')
  BY <1>1 DEF HungUp, Client, StreamKept, TrackerKept, ListenersKept
<1>3. UNCHANGED <<queue, called, muted, answers, changes>> /\ hungup' = TRUE
  BY DEF HungUp
<1>4. TypeOK'
  BY <1>1, <1>2, <1>3 DEF ClientOK, TypeOK, ListenersKept
<1>5. BooksAgree' /\ StreamServesTargets'
  BY <1>1, <1>2 DEF ClientOK, BooksAgree, StreamServesTargets, IsStarted, StreamKept, ListenersKept
<1>6. NoAnswerWithheld'
  BY <1>1, <1>2 DEF ClientOK, NoAnswerWithheld, TrackerKept, ListenersKept
<1>7. AssertionsHold'
  BY <1>2, <1>3 DEF AssertionsHold
<1> QED
  BY <1>3, <1>4, <1>5, <1>6, <1>7 DEF Over, ClientOK

LEMMA MessagesServe ==
  ASSUME IInv,
         (\E S \in SUBSET Queries, current \in BOOLEAN : Message(S, current)) \/ \E q \in Queries : TargetError(q)
  PROVE  Serves
<1>1. Sound(client) /\ Rest
  BY IInvParts
<1>2. UNCHANGED <<queue, called, muted, answers, changes, hungup>>
  BY DEF Message, TargetError, Goes, userVars
<1>3. changes' \in 0 .. MaxChanges
  BY <1>1, <1>2 DEF Rest
<1>4. \E e \in {"cache", "server", "error"} : Sound(client') /\ Served(client, client', e)
  <2>1. ASSUME NEW S \in SUBSET Queries, NEW current \in BOOLEAN, Message(S, current)
        PROVE  \E e \in {"cache", "server"} : Sound(client') /\ Served(client, client', e)
    BY <1>1, <2>1, MessageKeepsSound
  <2>2. ASSUME NEW q \in Queries, TargetError(q)
        PROVE  Sound(client') /\ Served(client, client', "error")
    <3> PICK o : o = UpdateState(client, "Online")
      OBVIOUS
    <3>1. /\ client.stream = "Open" /\ q \in client.watched
          /\ client' = Post([o EXCEPT !.targets = @ \ {q}, !.watched = @ \ {q},
                                   !.view[q] = "none", !.listeners[q] = {}], o.listeners[q], "error")
      BY <2>2 DEF TargetError
    <3> QED
      BY <1>1, <3>1, TargetErrorKeepsSound
  <2> QED
    BY <2>1, <2>2
<1> QED
  BY <1>2, <1>3, <1>4 DEF Serves, Served

\* A step runs the next operation, is the app's, serves the calls, or is the last.
LEMMA NextKinds ==
  ASSUME IInv, Next
  PROVE  Run \/ Serves \/ HungUp \/ \E l \in Lookups : GetDocuments(l) \/ OnEvent(l)
  BY TimersServe, TokensServe, NetworkServes, MessagesServe, NeededCloseHangsUp DEF Next

LEMMA NextIInv == IInv /\ [Next]_vars => IInv' \/ Over'
<1> SUFFICES ASSUME IInv, [Next]_vars PROVE IInv' \/ Over'
  OBVIOUS
<1>1. CASE UNCHANGED vars
  <2>1. Sound(client) /\ Rest /\ CallsAgree
    BY IInvParts
  <2>2. UNCHANGED <<client, queue, called, muted, answers, changes, hungup>>
    BY <1>1 DEF vars, userVars
  <2>3. CallsAgree'
    BY <2>1, <2>2 DEF CallsAgree, ListenersAreCalls, QueueAgrees, AnswersAgree, EventsAgree, Fresh
  <2> QED
    BY <2>1, <2>2, <2>3, IInvNext DEF Rest
<1>2. CASE Run
  BY <1>2, RunStep
<1>3. CASE Serves
  BY <1>3, ServingStep DEF Serves
<1>4. CASE \E l \in Lookups : GetDocuments(l) \/ OnEvent(l)
  BY <1>4, AppStep
<1>5. CASE HungUp
  BY <1>5, HungUpIsOver
<1> QED
  BY <1>1, <1>2, <1>3, <1>4, <1>5, NextKinds

\* A process that is over takes no step.
LEMMA NothingFollows == Over /\ [Next]_vars => UNCHANGED vars
<1>1. Over => client.failed
  BY DEF Over, ClientOK, AssertionsHold
<1>2. client.failed => ~Next
  BY DEF Next, Timers, GetDocuments, OnEvent, Run, TokenArrives, TokenFails, StaleTokenArrives,
         BackoffElapses, OnlineStateTimeout, IdleTimeout, StreamFails, StreamCloses,
         NetworkAvailable, Message, TargetError, Goes
<1> QED
  BY <1>1, <1>2

LEMMA OverStays == Over /\ [Next]_vars => Over'
<1> SUFFICES ASSUME Over, [Next]_vars PROVE Over'
  OBVIOUS
<1>1. UNCHANGED <<client, queue, called, muted, answers, changes, hungup>>
  BY NothingFollows DEF vars, userVars
<1> QED
  BY <1>1 DEF Over, ClientOK, TypeOK, AssertionsHold, BooksAgree, StreamServesTargets,
              NoAnswerWithheld, IsStarted

LEMMA IInvAlways == Spec => [](IInv \/ Over)
  BY InitIInv, NextIInv, OverStays, PTL DEF Spec

(* Every state is well-formed, a HARD_ASSERT fails exactly when the server  *)
(* ends the watch call with OK while a query is listened to, the books of   *)
(* the three classes agree, a query listened to has its stream on its way,  *)
(* and a call that waits has no answer that could be given.                 *)
THEOREM ClientAlwaysOK == Spec => []ClientOK
<1>1. IInv \/ Over => ClientOK
  BY DEF IInv, Over
<1> QED
  BY <1>1, IInvAlways, PTL

-----------------------------------------------------------------------------
\* What a call is answered with

\* A listener that was not raised and still listens has no event.
LEMMA NothingHeard ==
  ASSUME client \in Client, NEW l \in Lookups, EventsAgree(l), l \notin client.raised,
         l \in client.listeners[QueryOf[l]]
  PROVE  client.events[l] = <<>>
<1>1. client.events[l] \in Seq({"cache", "server", "error"})
  BY EventsAreSeqs
<1>2. \A i \in DOMAIN client.events[l] : FALSE
  BY DEF EventsAgree
<1>3. client.events[l] # <<>> => 1 \in DOMAIN client.events[l]
  BY <1>1, TailOf
<1> QED
  BY <1>2, <1>3

LEMMA NewlyRaisedIsOffline ==
  ASSUME IInv, Next, NEW l \in Lookups, l \notin client.raised, l \in client'.raised,
         client'.events[l] = <<"cache">>
  PROVE  client'.online = "Offline" \/ changes' # changes
<1>1. Sound(client) /\ Rest /\ CallsAgree /\ client \in Client /\ queue \in Seq(Operation)
  BY IInvParts DEF Rest, Sound
<1>2. CASE Run
  <2>1. /\ queue # <<>>
        /\ client' = IF Head(queue).add THEN AddQueryListener(client, Head(queue).lookup)
                     ELSE RemoveQueryListener(client, Head(queue).lookup)
    BY <1>2 DEF Run
  <2>2. Head(queue).lookup \in Lookups /\ 1 \in DOMAIN queue /\ Head(queue) = queue[1]
    BY <1>1, <2>1, TailOf, QueuedAreCalls
  <2>3. CASE Head(queue).add
    <3>1. PICK k \in Lookups : k = Head(queue).lookup
      BY <2>2
    <3>2. client' = AddQueryListener(client, k)
      BY <2>1, <2>3, <3>1
    <3>3. PICK e \in {"cache", "server"} : Added(client, client', k, e)
      BY <1>1, <3>2, AddKeepsSound
    <3>4. l = k /\ l \notin client.raised
      BY <3>3 DEF Added
    <3>5. client.events[l] = <<>>
      BY <2>2, <2>3, <3>1, <3>4, <1>1 DEF CallsAgree, QueueAgrees, Fresh
    <3>6. e # "server"
      <4>1. Append(<<>>, "server") = <<"server">> /\ <<"server">> # <<"cache">> /\ <<>> # <<"cache">>
        OBVIOUS
      <4> QED
        BY <3>3, <3>4, <3>5, <4>1 DEF Added
    <3> QED
      BY <3>3, <3>4, <3>6 DEF Added
  <2>4. CASE ~Head(queue).add
    <3>1. client' = RemoveQueryListener(client, Head(queue).lookup)
      BY <2>1, <2>4
    <3>2. client'.raised = client.raised
      BY ZenonT(40), <1>1, <2>2, <3>1, RemoveKeepsSound DEF Removed
    <3> QED
      BY <3>2
  <2> QED
    BY <2>3, <2>4
<1>3. CASE \E k \in Lookups : GetDocuments(k) \/ OnEvent(k)
  <2>1. client'.raised = client.raised
    BY <1>1, <1>3, EventTaken DEF GetDocuments, OnEvent
  <2> QED
    BY <2>1
<1>4. CASE Serves
  <2>1. PICK e \in {"cache", "server", "error"} :
          /\ ServedButState(client, client', e)
          /\ e = "cache" /\ client'.raised # client.raised => client'.online = "Offline" \/ changes' # changes
    BY <1>4 DEF Serves
  <2>2. CASE e = "cache"
    BY <2>1, <2>2
  <2>3. CASE e # "cache"
    <3>1. l \in Listening(client, Queries)
      BY <2>1 DEF ServedButState
    <3>2. client.events[l] = <<>>
      BY <1>1, <3>1, ListeningIsOwn, NothingHeard DEF CallsAgree
    <3>3. client'.events[l] = <<>> \/ client'.events[l] = Append(<<>>, e)
      BY <2>1, <3>2 DEF ServedButState
    <3>4. Append(<<>>, e) = <<e>> /\ <<e>> # <<"cache">> /\ <<>> # <<"cache">>
      BY <2>3
    <3> QED
      BY <3>3, <3>4
  <2> QED
    BY <2>2, <2>3
<1>5. CASE HungUp
  <2>1. client'.raised = client.raised
    BY <1>1, <1>5 DEF HungUp, Client
  <2> QED
    BY <2>1
<1> QED
  BY <1>2, <1>3, <1>4, <1>5, NextKinds

(* A call's first answer comes from the cache only when the client is      *)
(* offline, or when a new network cut the open stream it was waiting on.   *)
THEOREM CacheOnlyWhenOffline == Spec => CacheOnlyOffline
<1>1. ASSUME IInv, Next PROVE \A l \in Lookups :
       l \notin client.raised /\ l \in client'.raised /\ client'.events[l] = <<"cache">> =>
         client'.online = "Offline" \/ changes' # changes
  BY <1>1, NewlyRaisedIsOffline
<1>2. (IInv \/ Over) /\ [Next]_vars => [\A l \in Lookups :
       l \notin client.raised /\ l \in client'.raised /\ client'.events[l] = <<"cache">> =>
         client'.online = "Offline" \/ changes' # changes]_vars
  BY <1>1, NothingFollows
<1> QED
  BY <1>2, IInvAlways, PTL DEF Spec, CacheOnlyOffline

-----------------------------------------------------------------------------
\* The client implements the promise of getDocuments.

promiseVars == <<called, Decided, answers>>

LEMMA HeadOfAppend ==
  ASSUME NEW T, NEW s \in Seq(T), NEW e
  PROVE  /\ Append(s, e) # <<>> /\ (s = <<>> => Head(Append(s, e)) = e)
         /\ s # <<>> => Head(Append(s, e)) = Head(s)
<1>1. Append(s, e) # <<>>
  <2>1. Len(Append(s, e)) = Len(s) + 1 /\ Len(s) \in Nat
    OBVIOUS
  <2>2. Len(<<>>) = 0
    OBVIOUS
  <2> QED
    BY <2>1, <2>2
<1>2. s = <<>> => Head(Append(s, e)) = e
  OBVIOUS
<1>3. s # <<>> => Head(Append(s, e)) = Head(s)
  OBVIOUS
<1> QED
  BY <1>1, <1>2, <1>3

LEMMA DecidedIs ==
  /\ Decided = [l \in Lookups |-> Decided[l]]
  /\ \A l \in Lookups : Decided[l] = IF answers[l] # <<>> THEN Head(answers[l])
                     ELSE IF client.events[l] # <<>> THEN Head(client.events[l]) ELSE "none"
  BY DEF Decided

LEMMA DecidedNext ==
  /\ Decided' = [l \in Lookups |-> Decided'[l]]
  /\ \A l \in Lookups : Decided'[l] = IF answers'[l] # <<>> THEN Head(answers'[l])
                     ELSE IF client'.events[l] # <<>> THEN Head(client'.events[l]) ELSE "none"
  BY DEF Decided

\* One kind of event decides for the calls that had none.
LEMMA EventsDecide ==
  ASSUME client \in Client, answers' = answers, called' = called, NEW e \in {"cache", "server", "error"},
         \A l \in Lookups :
           \/ client'.events[l] = client.events[l]
           \/ l \in called /\ client'.events[l] = Append(client.events[l], e)
  PROVE  [Promise!Next]_promiseVars
<1> PICK S : S = {l \in Lookups : /\ answers[l] = <<>> /\ client.events[l] = <<>>
                                 /\ client'.events[l] # <<>>}
  OBVIOUS
<1>1. ASSUME NEW l \in Lookups, l \in S
      PROVE  l \in called /\ Decided[l] = "none" /\ Decided'[l] = e
  <2>1. /\ answers[l] = <<>> /\ client.events[l] = <<>> /\ client'.events[l] # <<>>
    BY <1>1
  <2>2. l \in called /\ client'.events[l] = Append(<<>>, e)
    BY <2>1
  <2>3. Head(client'.events[l]) = e
    BY <2>2
  <2> QED
    BY <2>1, <2>2, <2>3, DecidedIs, DecidedNext
<1>2. ASSUME NEW l \in Lookups, l \notin S
      PROVE  Decided'[l] = Decided[l]
  <2>1. CASE answers[l] # <<>> \/ client'.events[l] = client.events[l]
    BY <2>1, DecidedIs, DecidedNext
  <2>2. CASE answers[l] = <<>> /\ client'.events[l] # client.events[l]
    <3>1. client.events[l] \in Seq({"cache", "server", "error"})
      BY EventsAreSeqs
    <3>2. client'.events[l] = Append(client.events[l], e)
      BY <2>2
    <3>3. client'.events[l] # <<>>
      BY <3>1, <3>2, HeadOfAppend
    <3>4. client.events[l] # <<>>
      BY <1>2, <2>2, <3>3
    <3>5. Head(client'.events[l]) = Head(client.events[l])
      BY <3>1, <3>2, <3>4, HeadOfAppend
    <3> QED
      BY <2>2, <3>3, <3>4, <3>5, DecidedIs, DecidedNext
  <2> QED
    BY <2>1, <2>2
<1>3. CASE S = {}
  <2>1. Decided' = Decided
    BY <1>2, <1>3, DecidedIs, DecidedNext
  <2> QED
    BY <2>1 DEF promiseVars
<1>4. CASE S # {}
  <2>1. S \in SUBSET Lookups /\ S \subseteq {l \in called : Decided[l] = "none"}
    BY <1>1
  <2>2. Decided' = [l \in Lookups |-> IF l \in S THEN e ELSE Decided[l]]
    BY <1>1, <1>2, DecidedNext
  <2>3. Promise!Decide(S, e)
    BY <1>4, <2>1, <2>2 DEF Promise!Decide
  <2> QED
    BY <2>1, <2>3 DEF Promise!Next
<1> QED
  BY <1>3, <1>4

LEMMA AnswerCompletes ==
  ASSUME IInv, NEW l \in Lookups, OnEvent(l)
  PROVE  [Promise!Next]_promiseVars
<1>1. Sound(client) /\ Rest /\ CallsAgree /\ client \in Client
  BY IInvParts DEF Sound
<1>2. AnswersAgree(l)
  BY <1>1 DEF CallsAgree
<1> PICK event : event = Head(client.events[l])
  OBVIOUS
<1>3. /\ client.events[l] # <<>> /\ called' = called
      /\ client' = [client EXCEPT !.events[l] = Tail(@)]
      /\ l \in muted => answers' = answers
      /\ l \notin muted => answers' = [answers EXCEPT ![l] = Append(@, event)]
  BY DEF OnEvent
<1>4. \A k \in Lookups \ {l} : client'.events[k] = client.events[k]
  BY <1>1, <1>3, EventTaken
<1>5. CASE l \in muted
  <2>1. answers' = answers /\ answers[l] # <<>>
    BY <1>2, <1>3, <1>5 DEF AnswersAgree
  <2>2. \A k \in Lookups : Decided'[k] = Decided[k]
    BY <1>4, <2>1, DecidedIs, DecidedNext
  <2>3. Decided' = Decided
    BY <2>2, DecidedIs, DecidedNext
  <2> QED
    BY <1>3, <2>1, <2>3 DEF promiseVars
<1>6. CASE l \notin muted
  <2>1. answers[l] = <<>>
    BY <1>2, <1>3, <1>6 DEF AnswersAgree
  <2>2. answers \in [Lookups -> Seq({"server", "cache", "error"})] /\ event \in {"cache", "server", "error"}
    BY <1>1, <1>3, EventsAreSeqs, TailOf DEF Rest
  <2>3. answers' = [answers EXCEPT ![l] = <<event>>]
    <3>1. Append(<<>>, event) = <<event>>
      OBVIOUS
    <3> QED
      BY <1>3, <1>6, <2>1, <3>1
  <2>4. answers'[l] = <<event>> /\ \A k \in Lookups \ {l} : answers'[k] = answers[k]
    BY <2>2, <2>3
  <2>5. Decided[l] = event /\ event # "none"
    BY <1>3, <2>1, <2>2, DecidedIs
  <2>6. Decided'[l] = event
    <3>1. <<event>> # <<>> /\ Head(<<event>>) = event
      OBVIOUS
    <3> QED
      BY <2>4, <3>1, DecidedNext
  <2>7. \A k \in Lookups : Decided'[k] = Decided[k]
    BY <1>4, <2>4, <2>5, <2>6, DecidedIs, DecidedNext
  <2>8. Decided' = Decided
    BY <2>7, DecidedIs, DecidedNext
  <2>9. Promise!Complete(l)
    BY <1>3, <2>1, <2>3, <2>5, <2>8 DEF Promise!Complete
  <2> QED
    BY <2>9 DEF Promise!Next
<1> QED
  BY <1>5, <1>6

LEMMA StepKeepsPromise ==
  ASSUME IInv, [Next]_vars
  PROVE  [Promise!Next]_promiseVars
<1>1. Sound(client) /\ Rest /\ CallsAgree /\ client \in Client /\ queue \in Seq(Operation)
  BY IInvParts DEF Rest, Sound
<1>2. CASE UNCHANGED vars
  BY <1>2 DEF vars, userVars, promiseVars, Decided
<1>3. CASE Run
  <2>1. /\ queue # <<>> /\ called' = called /\ answers' = answers
        /\ client' = IF Head(queue).add THEN AddQueryListener(client, Head(queue).lookup)
                     ELSE RemoveQueryListener(client, Head(queue).lookup)
    BY <1>3 DEF Run, userVars
  <2>2. Head(queue).lookup \in Lookups /\ 1 \in DOMAIN queue /\ Head(queue) = queue[1]
    BY <1>1, <2>1, TailOf, QueuedAreCalls
  <2>3. PICK k \in Lookups : k = Head(queue).lookup
    BY <2>2
  <2>4. k \in called
    BY <1>1, <2>2, <2>3 DEF CallsAgree, QueueAgrees
  <2>5. \E e \in {"cache", "server", "error"} : \A l \in Lookups :
           \/ client'.events[l] = client.events[l]
           \/ l \in called /\ client'.events[l] = Append(client.events[l], e)
    <3>1. CASE Head(queue).add
      <4>1. PICK e \in {"cache", "server"} : Added(client, client', k, e)
        BY <1>1, <2>1, <2>3, <3>1, AddKeepsSound
      <4> QED
        BY <2>4, <4>1 DEF Added
    <3>2. CASE ~Head(queue).add
      <4>1. Removed(client, client', k)
        BY <1>1, <2>1, <2>3, <3>2, RemoveKeepsSound
      <4> QED
        BY <4>1 DEF Removed
    <3> QED
      BY <3>1, <3>2
  <2> QED
    BY <1>1, <2>1, <2>5, EventsDecide
<1>4. CASE Serves
  <2>1. PICK e \in {"cache", "server", "error"} : ServedButState(client, client', e)
    BY <1>4 DEF Serves
  <2>2. answers' = answers /\ called' = called
    BY <1>4 DEF Serves
  <2>3. ASSUME NEW l \in Lookups, client'.events[l] # client.events[l]
        PROVE  l \in called /\ client'.events[l] = Append(client.events[l], e)
    BY <1>1, <2>1, <2>3, ListeningIsOwn DEF ServedButState, CallsAgree
  <2> QED
    BY <1>1, <2>2, <2>3, EventsDecide
<1>5. ASSUME NEW l \in Lookups, GetDocuments(l) PROVE [Promise!Next]_promiseVars
  <2>1. Promise!Ask(l)
    BY <1>5 DEF GetDocuments, Promise!Ask, Decided
  <2> QED
    BY <2>1 DEF Promise!Next
<1>6. ASSUME NEW l \in Lookups, OnEvent(l) PROVE [Promise!Next]_promiseVars
  BY <1>6, AnswerCompletes
<1>7. CASE HungUp
  <2>1. client'.events = client.events /\ UNCHANGED <<called, answers>>
    BY <1>1, <1>7 DEF HungUp, Client
  <2> QED
    BY <2>1 DEF promiseVars, Decided
<1> QED
  BY <1>2, <1>3, <1>4, <1>5, <1>6, <1>7, NextKinds

(* The client implements the promise of getDocuments: each call is answered *)
(* at most once, and with the answer first decided for it, whatever happens *)
(* to the stream, the timers and the queues in between.                     *)
THEOREM ImplementsPromise == Spec => KeepsPromise
<1>1. Init => Promise!Init
  BY DEF Init, Promise!Init, Decided
<1>2. (IInv \/ Over) /\ [Next]_vars => [Promise!Next]_promiseVars
  <2>1. UNCHANGED vars => UNCHANGED promiseVars
    BY DEF vars, userVars, promiseVars, Decided
  <2> QED
    BY <2>1, StepKeepsPromise, NothingFollows
<1> QED
  BY <1>1, <1>2, IInvAlways, PTL DEF Spec, KeepsPromise, Promise!Spec, promiseVars

-----------------------------------------------------------------------------
\* Limbo resolutions

\* The engine's books: what every operation of the queue keeps of them
Sane ==
  {c \in Engine :
    /\ IsFiniteSet(c.watched) /\ IsFiniteSet(c.active)
    /\ Cardinality(c.active) <= MaxConcurrent
    /\ c.heard \subseteq c.watched
    /\ c.watched \cap Ids = {r[2] : r \in c.resolutions}
    /\ c.active \subseteq c.resolutions
    /\ \A r, s \in c.resolutions : r[2] = s[2] => r = s}

Waits(c, key) == \E i \in DOMAIN c.enqueued : c.enqueued[i] = key
Tracked(c, key) == IsActive(c, key) \/ Waits(c, key)

\* Nothing waits while a place is free.
Full(c) == c.enqueued = <<>> \/ Cardinality(c.active) >= MaxConcurrent

\* What the queue's operations leave of the views
ViewsKept(c, d) ==
  /\ d.cache = c.cache /\ d.news = c.news /\ d.current = c.current
  /\ d.synced = c.synced /\ d.limbo = c.limbo /\ Viewed(d) = Viewed(c)

\* An operation that takes nothing back: what is tracked stays so.
Onwards(c, d) ==
  /\ ViewsKept(c, d) /\ d.refs = c.refs
  /\ \A key \in Docs : Tracked(c, key) => Tracked(d, key)

\* An id is always free: of one more number than there are targets, one is none of them.
LEMMA NextIdIsFree ==
  ASSUME NEW c \in Sane
  PROVE  NextId(c) \in Ids /\ NextId(c) \notin c.watched
<1> DEFINE n == Cardinality(c.watched)
           P(i) == i \in 1 .. n + 1 /\ i \notin c.watched
<1>1. n \in Nat /\ IsFiniteSet(c.watched)
  BY FS_CardinalityType DEF Sane
<1>2. \E i : P(i)
  <2>1. SUFFICES ASSUME 1 .. n + 1 \in SUBSET c.watched PROVE FALSE
    OBVIOUS
  <2>2. Cardinality(1 .. n + 1) <= n
    BY <1>1, <2>1, FS_Subset
  <2>3. Cardinality(1 .. n + 1) = n + 1
    BY <1>1, FS_Interval
  <2> QED
    BY <1>1, <2>2, <2>3
<1>3. P(NextId(c))
  <2>1. P(CHOOSE i : P(i))
    BY <1>2
  <2>2. NextId(c) = CHOOSE i : P(i)
    BY DEF NextId
  <2> QED
    BY <2>1, <2>2
<1> QED
  BY <1>1, <1>3 DEF Ids

\* A pump with nothing waiting, or no free place, does nothing.
LEMMA PumpIdle ==
  ASSUME NEW c, Full(c)
  PROVE  Pump(c) = c
  BY DEF Pump, Full

\* The engine with other targets and resolutions
WithWork(c, V, H, W, Q, A, R) ==
  [c EXCEPT !.watched = V, !.heard = H, !.awaited = W, !.enqueued = Q, !.active = A, !.resolutions = R]

\* Its type
LEMMA OtherWork ==
  ASSUME NEW c \in Engine, NEW V \in SUBSET Targets, NEW H \in SUBSET Targets, NEW W \in SUBSET Ids,
         NEW Q \in Seq(Docs), NEW A \in SUBSET (Docs \X Ids), NEW R \in SUBSET (Docs \X Ids)
  PROVE  WithWork(c, V, H, W, Q, A, R) \in Engine
BY DEF WithWork, Engine

\* One turn of the loop gives the first place that is free to the first that waits.
LEMMA PumpContract ==
  ASSUME NEW c \in Sane, ~ Full(c), NEW d, d = Pump(c)
  PROVE  /\ d \in Sane /\ Onwards(c, d)
         /\ Len(c.enqueued) > 0 /\ Len(d.enqueued) = Len(c.enqueued) - 1
<1> DEFINE key == Head(c.enqueued)
           id == NextId(c)
<1>0. /\ c \in Engine /\ IsFiniteSet(c.watched) /\ IsFiniteSet(c.active)
      /\ Cardinality(c.active) \in Nat /\ Cardinality(c.active) < MaxConcurrent
      /\ c.enqueued # <<>> /\ c.enqueued \in Seq(Docs)
  BY FS_CardinalityType, LimboAssumption DEF Sane, Engine, Full
<1>1. id \in Ids /\ id \notin c.watched /\ id \notin Views
  BY NextIdIsFree, LimboAssumption
<1>2. /\ key \in Docs /\ Tail(c.enqueued) \in Seq(Docs) /\ Len(c.enqueued) > 0
      /\ Len(Tail(c.enqueued)) = Len(c.enqueued) - 1
  BY <1>0
<1>3. d = [c EXCEPT !.enqueued = Tail(c.enqueued),
                    !.resolutions = c.resolutions \cup {<<key, id>>},
                    !.active = IF IsActive(c, key) THEN c.active ELSE c.active \cup {<<key, id>>},
                    !.watched = c.watched \cup {id},
                    !.heard = c.heard \ {id},
                    !.awaited = c.awaited \cup {id}]
  <2>1. ~ (c.enqueued = <<>> \/ Cardinality(c.active) >= MaxConcurrent)
    BY DEF Full
  <2> QED
    BY <2>1 DEF Pump
<1> HIDE DEF key, id
<1>4. /\ d.cache = c.cache /\ d.watched = c.watched \cup {id} /\ d.heard = c.heard \ {id}
      /\ d.news = c.news /\ d.awaited = c.awaited \cup {id} /\ d.current = c.current
      /\ d.synced = c.synced /\ d.limbo = c.limbo /\ d.refs = c.refs
      /\ d.enqueued = Tail(c.enqueued)
      /\ d.active = IF IsActive(c, key) THEN c.active ELSE c.active \cup {<<key, id>>}
      /\ d.resolutions = c.resolutions \cup {<<key, id>>}
  BY <1>0, <1>3 DEF Engine
<1>5. d \in Engine
  <2> DEFINE V == c.watched \cup {id}
             H == c.heard \ {id}
             W == c.awaited \cup {id}
             Q == Tail(c.enqueued)
             A == IF IsActive(c, key) THEN c.active ELSE c.active \cup {<<key, id>>}
             R == c.resolutions \cup {<<key, id>>}
  <2>1. /\ V \in SUBSET Targets /\ H \in SUBSET Targets /\ W \in SUBSET Ids /\ Q \in Seq(Docs)
        /\ A \in SUBSET (Docs \X Ids) /\ R \in SUBSET (Docs \X Ids)
    BY <1>0, <1>1, <1>2 DEF Engine, Targets
  <2>2. d = WithWork(c, V, H, W, Q, A, R)
    BY <1>3 DEF WithWork
  <2>3. c \in Engine
    BY <1>0
  <2> HIDE DEF V, H, W, Q, A, R
  <2> QED
    BY <2>1, <2>2, <2>3, OtherWork
<1>6. IsFiniteSet(d.watched) /\ IsFiniteSet(d.active) /\ Cardinality(d.active) <= MaxConcurrent
  <2>1. IsFiniteSet(d.watched)
    <3>1. IsFiniteSet(c.watched \cup {id})
      BY <1>0, FS_AddElement
    <3> QED
      BY <1>4, <3>1
  <2>2. IsFiniteSet(c.active \cup {<<key, id>>}) /\ Cardinality(c.active \cup {<<key, id>>}) <= Cardinality(c.active) + 1
    <3> DEFINE a == c.active \cup {<<key, id>>}
    <3>1. IsFiniteSet(a) /\ (Cardinality(a) = Cardinality(c.active) \/ Cardinality(a) = Cardinality(c.active) + 1)
      BY <1>0, FS_AddElement
    <3> QED
      BY <1>0, <3>1
  <2>3. Cardinality(c.active \cup {<<key, id>>}) \in Nat
    BY <2>2, FS_CardinalityType
  <2> QED
    BY <1>0, <1>4, <2>1, <2>2, <2>3, LimboAssumption
<1>7. d.heard \subseteq d.watched /\ d.active \subseteq d.resolutions
  BY <1>4 DEF Sane
<1>8. d.watched \cap Ids = {r[2] : r \in d.resolutions}
  <2>1. c.watched \cap Ids = {r[2] : r \in c.resolutions}
    BY DEF Sane
  <2>2. d.watched \cap Ids = (c.watched \cap Ids) \cup {id}
    BY <1>1, <1>4
  <2>3. {r[2] : r \in d.resolutions} = {r[2] : r \in c.resolutions} \cup {id}
    <3>1. <<key, id>>[2] = id /\ <<key, id>> \in d.resolutions
      BY <1>4
    <3>2. \A r \in d.resolutions : r \in c.resolutions \/ r = <<key, id>>
      BY <1>4
    <3>3. c.resolutions \subseteq d.resolutions
      BY <1>4
    <3> QED
      BY <3>1, <3>2, <3>3
  <2> QED
    BY <2>1, <2>2, <2>3
<1>9. \A r, s \in d.resolutions : r[2] = s[2] => r = s
  <2>1. \A r \in c.resolutions : r[2] \in c.watched
    BY DEF Sane
  <2>2. \A r, s \in c.resolutions : r[2] = s[2] => r = s
    BY DEF Sane
  <2> QED
    BY <1>1, <1>4, <2>1, <2>2
<1>10. d \in Sane
  BY <1>5, <1>6, <1>7, <1>8, <1>9 DEF Sane
<1>11. ViewsKept(c, d)
  BY <1>1, <1>4 DEF ViewsKept, Viewed
<1>12. ASSUME NEW k \in Docs, Tracked(c, k) PROVE Tracked(d, k)
  <2>1. CASE IsActive(c, k)
    BY <1>4, <2>1 DEF Tracked, IsActive
  <2>2. CASE k = key
    <3>1. IsActive(d, key)
      <4>1. CASE IsActive(c, key)
        BY <1>4, <4>1 DEF IsActive
      <4>2. CASE ~ IsActive(c, key)
        <5>1. <<key, id>> \in d.active /\ <<key, id>>[1] = key
          BY <1>4, <4>2
        <5> QED
          BY <5>1 DEF IsActive
      <4> QED
        BY <4>1, <4>2
    <3> QED
      BY <2>2, <3>1 DEF Tracked
  <2>3. CASE Waits(c, k) /\ k # key
    <3>1. PICK i \in DOMAIN c.enqueued : c.enqueued[i] = k
      BY <2>3 DEF Waits
    <3>2. i \in 2 .. Len(c.enqueued)
      BY <1>0, <2>3, <3>1 DEF key
    <3>3. i - 1 \in DOMAIN Tail(c.enqueued) /\ Tail(c.enqueued)[i - 1] = c.enqueued[i]
      BY <1>0, <1>2, <3>2
    <3> QED
      BY <1>4, <3>1, <3>3 DEF Tracked, Waits
  <2> QED
    BY <1>12, <2>1, <2>2, <2>3 DEF Tracked
<1> QED
  BY <1>2, <1>4, <1>10, <1>11, <1>12 DEF Onwards

\* Pumping keeps the books.
LEMMA PumpKeepsSane ==
  ASSUME NEW c \in Sane
  PROVE  Pump(c) \in Sane
BY PumpIdle, PumpContract

\* The loop, turn by turn
LEMMA PumpTurns ==
  ASSUME NEW c \in Sane
  PROVE  \E h : /\ h[0] = c /\ h[Len(c.enqueued)] = PumpEnqueuedLimboResolutions(c)
               /\ \A i \in 1 .. Len(c.enqueued) : h[i] = Pump(h[i - 1])
<1> DEFINE n == Len(c.enqueued)
           step == [i \in 1 .. n |-> [d \in Sane |-> Pump(d)]]
           Table(g) == [s \in SUBSET (1 .. n) |-> IF s = {} THEN c ELSE Pump(g[s \ {Highest(s)}])]
           it == CHOOSE g : g = Table(g)
           h == [i \in 0 .. n |-> it[1 .. i]]
<1>1. n \in Nat /\ DOMAIN c.enqueued = 1 .. n
  BY DEF Sane, Engine
<1>2. \E g : g = Table(g)
  <2>1. \A i \in 1 .. n : step[i] \in [Sane -> Sane]
    BY PumpKeepsSane
  <2> HIDE DEF step
  <2>2. PICK g \in [SUBSET (1 .. n) -> Sane] : g = FoldTable(step, c, g, 1 .. n)
    BY <1>1, <2>1, FoldExists
  <2>3. ASSUME NEW s \in SUBSET (1 .. n), s # {}
        PROVE  step[Highest(s)][g[s \ {Highest(s)}]] = Pump(g[s \ {Highest(s)}])
    <3>1. Highest(s) \in 1 .. n
      BY <1>1, <2>3, HighestIs
    <3>2. g[s \ {Highest(s)}] \in Sane
      OBVIOUS
    <3> QED
      BY <3>1, <3>2 DEF step
  <2>4. FoldTable(step, c, g, 1 .. n) = Table(g)
    BY <2>3 DEF FoldTable
  <2> QED
    BY <2>2, <2>4
<1>3. it = Table(it)
  <2> HIDE DEF Table
  <2> QED
    BY <1>2
<1>4. PumpEnqueuedLimboResolutions(c) = it[1 .. n]
  BY <1>1 DEF PumpEnqueuedLimboResolutions, FoldLeft, MapThenFoldSet, Max, Highest
<1> HIDE DEF it
<1>5. ASSUME NEW i \in 1 .. n PROVE it[1 .. i] = Pump(it[1 .. (i - 1)])
  <2>1. Highest(1 .. i) = i /\ (1 .. i) \ {i} = 1 .. (i - 1) /\ 1 .. i # {}
    BY <1>1, HighestOfInterval
  <2>2. 1 .. i \in SUBSET (1 .. n)
    BY <1>1
  <2>3. Table(it)[1 .. i] = Pump(it[(1 .. i) \ {Highest(1 .. i)}])
    BY <2>1, <2>2
  <2> QED
    BY <1>3, <2>1, <2>3
<1>6. it[1 .. 0] = c
  <2>1. Table(it)[1 .. 0] = c
    OBVIOUS
  <2> QED
    BY <1>3, <2>1
<1>7. h[0] = c /\ h[n] = it[1 .. n] /\ \A i \in 1 .. n : h[i] = Pump(h[i - 1])
  BY <1>1, <1>5, <1>6
<1> HIDE DEF h, n
<1> QED
  BY <1>4, <1>7 DEF n

LEMMA OnwardsReflexive ==
  ASSUME NEW c
  PROVE  Onwards(c, c)
BY DEF Onwards, ViewsKept

LEMMA OnwardsTransitive ==
  ASSUME NEW c, NEW d, NEW e, Onwards(c, d), Onwards(d, e)
  PROVE  Onwards(c, e)
BY DEF Onwards, ViewsKept

\* The loop ends with the queue empty or every place taken.
LEMMA PumpEnqueuedContract ==
  ASSUME NEW c \in Sane, NEW d, d = PumpEnqueuedLimboResolutions(c)
  PROVE  d \in Sane /\ Full(d) /\ Onwards(c, d)
<1> DEFINE n == Len(c.enqueued)
<1>1. n \in Nat
  BY DEF Sane, Engine
<1>2. PICK h : /\ h[0] = c /\ h[n] = d
               /\ \A i \in 1 .. n : h[i] = Pump(h[i - 1])
  BY PumpTurns
<1> DEFINE P == {i \in 0 .. n :
                   /\ h[i] \in Sane /\ Onwards(c, h[i])
                   /\ (Full(h[i]) \/ Len(h[i].enqueued) = n - i)}
<1>3. 0 \in P
  BY <1>1, <1>2, OnwardsReflexive
<1>4. ASSUME NEW i \in 1 .. n, i - 1 \in P PROVE i \in P
  <2>0. h[i] = Pump(h[i - 1])
    BY <1>2
  <2>1. h[i] = Pump(h[i - 1]) /\ h[i - 1] \in Sane /\ Onwards(c, h[i - 1])
    BY <1>4, <2>0
  <2>2. CASE Full(h[i - 1])
    <3>1. h[i] = h[i - 1]
      BY <2>1, <2>2, PumpIdle
    <3> QED
      BY <2>1, <2>2, <3>1
  <2>3. CASE ~ Full(h[i - 1])
    <3>1. /\ h[i] \in Sane /\ Onwards(h[i - 1], h[i])
          /\ Len(h[i].enqueued) = Len(h[i - 1].enqueued) - 1
      BY <2>1, <2>3, PumpContract
    <3>2. Onwards(c, h[i])
      BY <2>1, <3>1, OnwardsTransitive
    <3>3. Len(h[i - 1].enqueued) = n - (i - 1)
      BY <1>4, <2>3
    <3>4. Len(h[i].enqueued) = n - i
      BY <1>1, <3>1, <3>3
    <3> QED
      BY <3>1, <3>2, <3>4
  <2> QED
    BY <2>2, <2>3
<1>5. \A i \in 0 .. n : i \in P
  <2> HIDE DEF P
  <2> QED
    BY <1>1, <1>3, <1>4, UpTo
<1>6. n \in P
  BY <1>1, <1>5
<1>7. d \in Sane /\ Onwards(c, d) /\ (Full(d) \/ Len(d.enqueued) = 0)
  <2>1. h[n] \in Sane /\ Onwards(c, h[n]) /\ (Full(h[n]) \/ Len(h[n].enqueued) = n - n)
    BY <1>6
  <2> QED
    BY <1>1, <1>2, <2>1
<1>8. Len(d.enqueued) = 0 => Full(d)
  BY <1>7 DEF Full, Sane, Engine
<1> QED
  BY <1>7, <1>8

\* A document that gets in limbo is asked for or waits.
LEMMA TrackLimboChangeContract ==
  ASSUME NEW c \in Sane, Full(c), NEW key \in Docs, NEW d, d = TrackLimboChange(c, key)
  PROVE  d \in Sane /\ Full(d) /\ Onwards(c, d) /\ Tracked(d, key)
<1>1. CASE IsActive(c, key)
  BY <1>1, OnwardsReflexive DEF TrackLimboChange, Tracked
<1>2. CASE ~ IsActive(c, key)
  <2> DEFINE w == [c EXCEPT !.enqueued = Append(c.enqueued, key)]
  <2>1. d = PumpEnqueuedLimboResolutions(w)
    BY <1>2 DEF TrackLimboChange
  <2>2. c \in Engine /\ c.enqueued \in Seq(Docs)
    BY DEF Sane, Engine
  <2>3. Append(c.enqueued, key) \in Seq(Docs)
    BY <2>2
  <2>4. /\ w \in Engine /\ w.enqueued = Append(c.enqueued, key)
        /\ w.cache = c.cache /\ w.watched = c.watched /\ w.heard = c.heard
        /\ w.news = c.news /\ w.awaited = c.awaited /\ w.current = c.current
        /\ w.synced = c.synced /\ w.limbo = c.limbo /\ w.refs = c.refs
        /\ w.active = c.active /\ w.resolutions = c.resolutions
    BY <2>2, <2>3 DEF Engine
  <2> HIDE DEF w
  <2>5. w \in Sane
    BY <2>4 DEF Sane
  <2>6. Tracked(w, key)
    <3>1. Len(c.enqueued) + 1 \in DOMAIN w.enqueued /\ w.enqueued[Len(c.enqueued) + 1] = key
      BY <2>2, <2>4
    <3> QED
      BY <3>1 DEF Tracked, Waits
  <2>7. Onwards(c, w)
    <3>1. \A i \in DOMAIN c.enqueued : i \in DOMAIN w.enqueued /\ w.enqueued[i] = c.enqueued[i]
      BY <2>2, <2>4
    <3> QED
      BY <2>4, <3>1 DEF Onwards, ViewsKept, Viewed, Tracked, IsActive, Waits
  <2>8. d \in Sane /\ Full(d) /\ Onwards(w, d)
    BY <2>1, <2>5, PumpEnqueuedContract
  <2>9. Tracked(d, key)
    BY <2>6, <2>8 DEF Onwards
  <2> QED
    BY <2>7, <2>8, <2>9, OnwardsTransitive
<1> QED
  BY <1>1, <1>2

\* A resolution that is over leaves its place to the next; no other document loses its own.
OnwardsBut(c, d, key) ==
  /\ ViewsKept(c, d) /\ d.refs = c.refs
  /\ \A k \in Docs \ {key} : Tracked(c, k) => Tracked(d, k)

\* The place of a resolution that is over goes to what waits; of the documents, only key is let go.
LEMMA RemoveLimboTargetContract ==
  ASSUME NEW c \in Sane, Full(c), NEW key \in Docs, NEW d, d = RemoveLimboTarget(c, key)
  PROVE  d \in Sane /\ Full(d) /\ OnwardsBut(c, d, key)
<1> DEFINE mine == {a \in c.active : a[1] = key}
           ids == {a[2] : a \in mine}
<1>1. CASE mine = {}
  <2>1. d = c
    BY <1>1 DEF RemoveLimboTarget
  <2> QED
    BY <2>1 DEF OnwardsBut, ViewsKept
<1>2. CASE mine # {}
  <2> DEFINE w == [c EXCEPT !.active = c.active \ mine,
                            !.resolutions = {r \in c.resolutions : r[2] \notin ids},
                            !.watched = c.watched \ ids,
                            !.heard = c.heard \ ids,
                            !.awaited = c.awaited \ ids]
  <2>1. d = PumpEnqueuedLimboResolutions(w)
    BY <1>2 DEF RemoveLimboTarget
  <2>2. /\ c \in Engine /\ IsFiniteSet(c.watched) /\ IsFiniteSet(c.active)
        /\ Cardinality(c.active) <= MaxConcurrent /\ c.heard \subseteq c.watched
        /\ c.watched \cap Ids = {r[2] : r \in c.resolutions}
        /\ c.active \subseteq c.resolutions
        /\ \A r, s \in c.resolutions : r[2] = s[2] => r = s
    BY DEF Sane
  <2>3. ids \subseteq Ids
    BY <2>2 DEF Engine
  <2>4. {r \in c.resolutions : r[2] \notin ids} \in SUBSET (Docs \X Ids)
    BY <2>2 DEF Engine
  <2>5. \A r \in c.active \ mine : r[2] \notin ids
    BY <2>2
  <2>6. /\ w.active = c.active \ mine /\ w.resolutions = {r \in c.resolutions : r[2] \notin ids}
        /\ w.watched = c.watched \ ids /\ w.heard = c.heard \ ids
        /\ w.cache = c.cache /\ w.news = c.news /\ w.current = c.current
        /\ w.synced = c.synced /\ w.limbo = c.limbo /\ w.refs = c.refs
        /\ w.enqueued = c.enqueued
    BY <2>2 DEF Engine
  <2>7. w \in Engine
    <3>1. /\ c.active \ mine \in SUBSET (Docs \X Ids) /\ c.watched \ ids \in SUBSET Targets
          /\ c.heard \ ids \in SUBSET Targets /\ c.awaited \ ids \in SUBSET Ids
      BY <2>2 DEF Engine
    <3> HIDE DEF mine, ids
    <3> QED
      BY <2>2, <2>4, <3>1 DEF Engine
  <2>8. \A a \in c.active : a[1] # key => a \in w.active
    BY <2>6
  <2> HIDE DEF w
  <2>9. IsFiniteSet(w.watched) /\ IsFiniteSet(w.active) /\ Cardinality(w.active) <= MaxConcurrent
    <3>1. w.watched \in SUBSET c.watched /\ w.active \in SUBSET c.active
      BY <2>6
    <3>2. IsFiniteSet(w.watched) /\ IsFiniteSet(w.active) /\ Cardinality(w.active) <= Cardinality(c.active)
      BY <2>2, <3>1, FS_Subset
    <3>3. Cardinality(w.active) \in Nat /\ Cardinality(c.active) \in Nat
      BY <2>2, <3>2, FS_CardinalityType
    <3> QED
      BY <2>2, <3>2, <3>3, LimboAssumption
  <2>10. w.watched \cap Ids = {r[2] : r \in w.resolutions}
    <3> HIDE DEF ids, mine
    <3> QED
      BY <2>2, <2>6
  <2>11. w \in Sane
    <3>1. w.active \subseteq w.resolutions
      BY <2>2, <2>5, <2>6
    <3>2. w.heard \subseteq w.watched
      BY <2>2, <2>6
    <3>3. \A r, s \in w.resolutions : r[2] = s[2] => r = s
      BY <2>2, <2>6
    <3> QED
      BY <2>7, <2>9, <2>10, <3>1, <3>2, <3>3 DEF Sane
  <2>12. OnwardsBut(c, w, key)
    <3>1. Viewed(w) = Viewed(c)
      BY <2>3, <2>6, LimboAssumption DEF Viewed
    <3>2. ViewsKept(c, w)
      BY <2>6, <3>1 DEF ViewsKept
    <3>3. ASSUME NEW k \in Docs \ {key}, Tracked(c, k) PROVE Tracked(w, k)
      BY <2>6, <2>8, <3>3 DEF Tracked, IsActive, Waits
    <3> QED
      BY <2>6, <3>2, <3>3 DEF OnwardsBut
  <2>13. d \in Sane /\ Full(d) /\ Onwards(w, d)
    BY <2>1, <2>11, PumpEnqueuedContract
  <2> QED
    BY <2>12, <2>13 DEF Onwards, OnwardsBut, ViewsKept
<1> QED
  BY <1>1, <1>2

-----------------------------------------------------------------------------
\* Between two operations of the queue: what is referred to is asked for or
\* waits, but for the documents of D.
Settled == {c \in Sane : Full(c)}
Good(D) == {c \in Settled : \A r \in c.refs : r[1] \in D \/ Tracked(c, r[1])}

\* What is no longer referred to need not be asked for.
LEMMA RemoveUnreferencedContract ==
  ASSUME NEW c \in Settled, NEW key \in Docs, NEW d, d = RemoveUnreferenced(c, key)
  PROVE  /\ d \in Settled /\ ViewsKept(c, d) /\ d.refs = c.refs
         /\ \A D : c \in Good(D) => d \in Good(D)
<1>0. c \in Sane /\ Full(c) /\ c.refs \subseteq Docs \X Views
  BY DEF Settled, Sane, Engine
<1>1. CASE IsReferenced(c, key)
  <2>1. d = c
    BY <1>1 DEF RemoveUnreferenced
  <2> QED
    BY <2>1 DEF ViewsKept
<1>2. CASE ~ IsReferenced(c, key)
  <2>1. d \in Sane /\ Full(d) /\ OnwardsBut(c, d, key)
    BY <1>0, <1>2, RemoveLimboTargetContract DEF RemoveUnreferenced
  <2>2. ASSUME NEW r \in c.refs PROVE r[1] \in Docs \ {key}
    <3>1. r[1] \in Docs /\ r[2] \in Views /\ r = <<r[1], r[2]>>
      BY <1>0
    <3>2. r[1] # key
      BY <1>2, <3>1 DEF IsReferenced
    <3> QED
      BY <3>1, <3>2
  <2> QED
    BY <2>1, <2>2 DEF OnwardsBut, Good, Settled
<1> QED
  BY <1>1, <1>2

\* The engine with other references
LEMMA OtherRefs ==
  ASSUME NEW c \in Settled, NEW R \in SUBSET (Docs \X Views), NEW d, d = [c EXCEPT !.refs = R]
  PROVE  /\ d \in Settled /\ ViewsKept(c, d) /\ d.refs = R
         /\ \A key : Tracked(d, key) <=> Tracked(c, key)
<1>1. c \in Engine
  BY DEF Settled, Sane
<1>2. /\ d \in Engine /\ d.enqueued = c.enqueued
      /\ d.cache = c.cache /\ d.watched = c.watched /\ d.heard = c.heard
      /\ d.news = c.news /\ d.awaited = c.awaited /\ d.current = c.current
      /\ d.synced = c.synced /\ d.limbo = c.limbo /\ d.refs = R
      /\ d.active = c.active /\ d.resolutions = c.resolutions
  BY <1>1 DEF Engine
<1> QED
  BY <1>2 DEF Settled, Sane, Full, ViewsKept, Viewed, Tracked, IsActive, Waits

\* A document that left a view's limbo: one reference less, every other is served as before.
LEMMA LimboRemovedContract ==
  ASSUME NEW c \in Settled, NEW key \in Docs, NEW q \in Views, NEW d, d = LimboRemoved(c, key, q)
  PROVE  /\ d \in Settled /\ ViewsKept(c, d) /\ d.refs = c.refs \ {<<key, q>>}
         /\ \A D : c \in Good(D) => d \in Good(D)
<1> DEFINE w == [c EXCEPT !.refs = c.refs \ {<<key, q>>}]
<1>1. d = RemoveUnreferenced(w, key)
  BY DEF LimboRemoved
<1>2. c.refs \ {<<key, q>>} \in SUBSET (Docs \X Views)
  BY DEF Settled, Sane, Engine
<1>3. /\ w \in Settled /\ ViewsKept(c, w) /\ w.refs = c.refs \ {<<key, q>>}
      /\ \A k : Tracked(w, k) <=> Tracked(c, k)
  BY <1>2, OtherRefs
<1> HIDE DEF w
<1>4. ASSUME NEW D, c \in Good(D) PROVE w \in Good(D)
  BY <1>3, <1>4 DEF Good
<1>5. /\ d \in Settled /\ ViewsKept(w, d) /\ d.refs = w.refs
      /\ \A D : w \in Good(D) => d \in Good(D)
  BY <1>1, <1>3, RemoveUnreferencedContract
<1> QED
  BY <1>3, <1>4, <1>5 DEF ViewsKept

\* A document that came into a view's limbo: one reference more, which is served.
LEMMA LimboAddedContract ==
  ASSUME NEW c \in Settled, NEW key \in Docs, NEW q \in Views, NEW d, d = LimboAdded(c, key, q)
  PROVE  /\ d \in Settled /\ ViewsKept(c, d) /\ d.refs = c.refs \cup {<<key, q>>}
         /\ \A D : c \in Good(D) => d \in Good(D)
<1> DEFINE w == [c EXCEPT !.refs = c.refs \cup {<<key, q>>}]
<1>1. d = TrackLimboChange(w, key)
  BY DEF LimboAdded
<1>2. c.refs \cup {<<key, q>>} \in SUBSET (Docs \X Views) /\ c.refs \subseteq Docs \X Views
  BY DEF Settled, Sane, Engine
<1>3. /\ w \in Settled /\ ViewsKept(c, w) /\ w.refs = c.refs \cup {<<key, q>>}
      /\ \A k : Tracked(w, k) <=> Tracked(c, k)
  BY <1>2, OtherRefs
<1> HIDE DEF w
<1>4. d \in Sane /\ Full(d) /\ Onwards(w, d) /\ Tracked(d, key)
  BY <1>1, <1>3, TrackLimboChangeContract DEF Settled
<1>5. d \in Settled /\ ViewsKept(c, d) /\ d.refs = c.refs \cup {<<key, q>>}
  BY <1>3, <1>4 DEF Onwards, ViewsKept, Settled
<1>6. ASSUME NEW D, c \in Good(D) PROVE d \in Good(D)
  <2>1. ASSUME NEW r \in d.refs PROVE r[1] \in D \/ Tracked(d, r[1])
    <3>1. CASE r \in c.refs
      <4>1. r[1] \in Docs /\ (r[1] \in D \/ Tracked(c, r[1]))
        BY <1>2, <1>6, <3>1 DEF Good
      <4> QED
        BY <1>3, <1>4, <4>1 DEF Onwards
    <3>2. CASE r = <<key, q>>
      BY <1>4, <3>2
    <3> QED
      BY <1>5, <2>1, <3>1, <3>2
  <2> QED
    BY <1>5, <2>1 DEF Good
<1> QED
  BY <1>5, <1>6

-----------------------------------------------------------------------------
\* The loops over the documents of a change
RemovedAll(c, f, q) == FoldLeft(LAMBDA d, key : LimboRemoved(d, key, q), c, f)
AddedAll(c, f, q) == FoldLeft(LAMBDA d, key : LimboAdded(d, key, q), c, f)
UnreferencedAll(c, f) == FoldLeft(RemoveUnreferenced, c, f)

\* The documents that left limbo, one by one
LEMMA RemovedTurns ==
  ASSUME NEW c \in Settled, NEW f \in Seq(Docs), NEW q \in Views
  PROVE  \E h : /\ h[0] = c /\ h[Len(f)] = RemovedAll(c, f, q)
               /\ \A i \in 1 .. Len(f) : h[i] = LimboRemoved(h[i - 1], f[i], q)
<1> DEFINE n == Len(f)
           step == [i \in 1 .. n |-> [d \in Settled |-> LimboRemoved(d, f[i], q)]]
           Table(g) == [s \in SUBSET (1 .. n) |->
                          IF s = {} THEN c ELSE LimboRemoved(g[s \ {Highest(s)}], f[Highest(s)], q)]
           it == CHOOSE g : g = Table(g)
           h == [i \in 0 .. n |-> it[1 .. i]]
<1>1. n \in Nat /\ DOMAIN f = 1 .. n /\ \A i \in 1 .. n : f[i] \in Docs
  OBVIOUS
<1>2. \E g : g = Table(g)
  <2>1. \A i \in 1 .. n : step[i] \in [Settled -> Settled]
    BY <1>1, LimboRemovedContract
  <2> HIDE DEF step
  <2>2. PICK g \in [SUBSET (1 .. n) -> Settled] : g = FoldTable(step, c, g, 1 .. n)
    BY <1>1, <2>1, FoldExists
  <2>3. ASSUME NEW s \in SUBSET (1 .. n), s # {}
        PROVE  step[Highest(s)][g[s \ {Highest(s)}]] = LimboRemoved(g[s \ {Highest(s)}], f[Highest(s)], q)
    <3>1. Highest(s) \in 1 .. n
      BY <1>1, <2>3, HighestIs
    <3>2. g[s \ {Highest(s)}] \in Settled
      OBVIOUS
    <3> QED
      BY <3>1, <3>2 DEF step
  <2>4. FoldTable(step, c, g, 1 .. n) = Table(g)
    BY <2>3 DEF FoldTable
  <2> QED
    BY <2>2, <2>4
<1>3. it = Table(it)
  <2> HIDE DEF Table
  <2> QED
    BY <1>2
<1>4. RemovedAll(c, f, q) = it[1 .. n]
  BY <1>1 DEF RemovedAll, FoldLeft, MapThenFoldSet, Max, Highest
<1> HIDE DEF it
<1>5. ASSUME NEW i \in 1 .. n PROVE it[1 .. i] = LimboRemoved(it[1 .. (i - 1)], f[i], q)
  <2>1. Highest(1 .. i) = i /\ (1 .. i) \ {i} = 1 .. (i - 1) /\ 1 .. i # {}
    BY <1>1, HighestOfInterval
  <2>2. 1 .. i \in SUBSET (1 .. n)
    BY <1>1
  <2>3. Table(it)[1 .. i] = LimboRemoved(it[(1 .. i) \ {Highest(1 .. i)}], f[Highest(1 .. i)], q)
    BY <2>1, <2>2
  <2> QED
    BY <1>3, <2>1, <2>3
<1>6. it[1 .. 0] = c
  <2>1. Table(it)[1 .. 0] = c
    OBVIOUS
  <2> QED
    BY <1>3, <2>1
<1>7. h[0] = c /\ h[n] = it[1 .. n] /\ \A i \in 1 .. n : h[i] = LimboRemoved(h[i - 1], f[i], q)
  BY <1>1, <1>5, <1>6
<1> HIDE DEF h, n
<1> QED
  BY <1>4, <1>7 DEF n

\* The documents that got in limbo, one by one
LEMMA AddedTurns ==
  ASSUME NEW c \in Settled, NEW f \in Seq(Docs), NEW q \in Views
  PROVE  \E h : /\ h[0] = c /\ h[Len(f)] = AddedAll(c, f, q)
               /\ \A i \in 1 .. Len(f) : h[i] = LimboAdded(h[i - 1], f[i], q)
<1> DEFINE n == Len(f)
           step == [i \in 1 .. n |-> [d \in Settled |-> LimboAdded(d, f[i], q)]]
           Table(g) == [s \in SUBSET (1 .. n) |->
                          IF s = {} THEN c ELSE LimboAdded(g[s \ {Highest(s)}], f[Highest(s)], q)]
           it == CHOOSE g : g = Table(g)
           h == [i \in 0 .. n |-> it[1 .. i]]
<1>1. n \in Nat /\ DOMAIN f = 1 .. n /\ \A i \in 1 .. n : f[i] \in Docs
  OBVIOUS
<1>2. \E g : g = Table(g)
  <2>1. \A i \in 1 .. n : step[i] \in [Settled -> Settled]
    BY <1>1, LimboAddedContract
  <2> HIDE DEF step
  <2>2. PICK g \in [SUBSET (1 .. n) -> Settled] : g = FoldTable(step, c, g, 1 .. n)
    BY <1>1, <2>1, FoldExists
  <2>3. ASSUME NEW s \in SUBSET (1 .. n), s # {}
        PROVE  step[Highest(s)][g[s \ {Highest(s)}]] = LimboAdded(g[s \ {Highest(s)}], f[Highest(s)], q)
    <3>1. Highest(s) \in 1 .. n
      BY <1>1, <2>3, HighestIs
    <3>2. g[s \ {Highest(s)}] \in Settled
      OBVIOUS
    <3> QED
      BY <3>1, <3>2 DEF step
  <2>4. FoldTable(step, c, g, 1 .. n) = Table(g)
    BY <2>3 DEF FoldTable
  <2> QED
    BY <2>2, <2>4
<1>3. it = Table(it)
  <2> HIDE DEF Table
  <2> QED
    BY <1>2
<1>4. AddedAll(c, f, q) = it[1 .. n]
  BY <1>1 DEF AddedAll, FoldLeft, MapThenFoldSet, Max, Highest
<1> HIDE DEF it
<1>5. ASSUME NEW i \in 1 .. n PROVE it[1 .. i] = LimboAdded(it[1 .. (i - 1)], f[i], q)
  <2>1. Highest(1 .. i) = i /\ (1 .. i) \ {i} = 1 .. (i - 1) /\ 1 .. i # {}
    BY <1>1, HighestOfInterval
  <2>2. 1 .. i \in SUBSET (1 .. n)
    BY <1>1
  <2>3. Table(it)[1 .. i] = LimboAdded(it[(1 .. i) \ {Highest(1 .. i)}], f[Highest(1 .. i)], q)
    BY <2>1, <2>2
  <2> QED
    BY <1>3, <2>1, <2>3
<1>6. it[1 .. 0] = c
  <2>1. Table(it)[1 .. 0] = c
    OBVIOUS
  <2> QED
    BY <1>3, <2>1
<1>7. h[0] = c /\ h[n] = it[1 .. n] /\ \A i \in 1 .. n : h[i] = LimboAdded(h[i - 1], f[i], q)
  BY <1>1, <1>5, <1>6
<1> HIDE DEF h, n
<1> QED
  BY <1>4, <1>7 DEF n

\* The documents of a query that is no longer listened to, one by one
LEMMA UnreferencedTurns ==
  ASSUME NEW c \in Settled, NEW f \in Seq(Docs)
  PROVE  \E h : /\ h[0] = c /\ h[Len(f)] = UnreferencedAll(c, f)
               /\ \A i \in 1 .. Len(f) : h[i] = RemoveUnreferenced(h[i - 1], f[i])
<1> DEFINE n == Len(f)
           step == [i \in 1 .. n |-> [d \in Settled |-> RemoveUnreferenced(d, f[i])]]
           Table(g) == [s \in SUBSET (1 .. n) |->
                          IF s = {} THEN c ELSE RemoveUnreferenced(g[s \ {Highest(s)}], f[Highest(s)])]
           it == CHOOSE g : g = Table(g)
           h == [i \in 0 .. n |-> it[1 .. i]]
<1>1. n \in Nat /\ DOMAIN f = 1 .. n /\ \A i \in 1 .. n : f[i] \in Docs
  OBVIOUS
<1>2. \E g : g = Table(g)
  <2>1. \A i \in 1 .. n : step[i] \in [Settled -> Settled]
    BY <1>1, RemoveUnreferencedContract
  <2> HIDE DEF step
  <2>2. PICK g \in [SUBSET (1 .. n) -> Settled] : g = FoldTable(step, c, g, 1 .. n)
    BY <1>1, <2>1, FoldExists
  <2>3. ASSUME NEW s \in SUBSET (1 .. n), s # {}
        PROVE  step[Highest(s)][g[s \ {Highest(s)}]] = RemoveUnreferenced(g[s \ {Highest(s)}], f[Highest(s)])
    <3>1. Highest(s) \in 1 .. n
      BY <1>1, <2>3, HighestIs
    <3>2. g[s \ {Highest(s)}] \in Settled
      OBVIOUS
    <3> QED
      BY <3>1, <3>2 DEF step
  <2>4. FoldTable(step, c, g, 1 .. n) = Table(g)
    BY <2>3 DEF FoldTable
  <2> QED
    BY <2>2, <2>4
<1>3. it = Table(it)
  <2> HIDE DEF Table
  <2> QED
    BY <1>2
<1>4. UnreferencedAll(c, f) = it[1 .. n]
  BY <1>1 DEF UnreferencedAll, FoldLeft, MapThenFoldSet, Max, Highest
<1> HIDE DEF it
<1>5. ASSUME NEW i \in 1 .. n PROVE it[1 .. i] = RemoveUnreferenced(it[1 .. (i - 1)], f[i])
  <2>1. Highest(1 .. i) = i /\ (1 .. i) \ {i} = 1 .. (i - 1) /\ 1 .. i # {}
    BY <1>1, HighestOfInterval
  <2>2. 1 .. i \in SUBSET (1 .. n)
    BY <1>1
  <2>3. Table(it)[1 .. i] = RemoveUnreferenced(it[(1 .. i) \ {Highest(1 .. i)}], f[Highest(1 .. i)])
    BY <2>1, <2>2
  <2> QED
    BY <1>3, <2>1, <2>3
<1>6. it[1 .. 0] = c
  <2>1. Table(it)[1 .. 0] = c
    OBVIOUS
  <2> QED
    BY <1>3, <2>1
<1>7. h[0] = c /\ h[n] = it[1 .. n] /\ \A i \in 1 .. n : h[i] = RemoveUnreferenced(h[i - 1], f[i])
  BY <1>1, <1>5, <1>6
<1> HIDE DEF h, n
<1> QED
  BY <1>4, <1>7 DEF n

-----------------------------------------------------------------------------

\* References to all that left limbo are gone.
LEMMA RemovedAllContract ==
  ASSUME NEW D, NEW c \in Good(D), NEW f \in Seq(Docs), NEW q \in Views, NEW d, d = RemovedAll(c, f, q)
  PROVE  d \in Good(D) /\ ViewsKept(c, d) /\ d.refs = c.refs \ {<<f[j], q>> : j \in 1 .. Len(f)}
<1> DEFINE n == Len(f)
<1>1. n \in Nat /\ c \in Settled /\ \A i \in 1 .. n : f[i] \in Docs
  BY DEF Good
<1>2. PICK h : /\ h[0] = c /\ h[n] = d
               /\ \A i \in 1 .. n : h[i] = LimboRemoved(h[i - 1], f[i], q)
  BY <1>1, RemovedTurns
<1> DEFINE P == {i \in 0 .. n : h[i] \in Good(D) /\ ViewsKept(c, h[i]) /\ h[i].refs = c.refs \ {<<f[j], q>> : j \in 1 .. i}}
<1>3. 0 \in P
  BY <1>1, <1>2 DEF ViewsKept
<1>4. ASSUME NEW i \in 1 .. n, i - 1 \in P PROVE i \in P
  <2>0. h[i] = LimboRemoved(h[i - 1], f[i], q) /\ f[i] \in Docs
    BY <1>1, <1>2
  <2>1. h[i - 1] \in Good(D) /\ ViewsKept(c, h[i - 1]) /\ h[i - 1].refs = c.refs \ {<<f[j], q>> : j \in 1 .. (i - 1)}
    BY <1>4
  <2>2. h[i - 1] \in Settled
    BY <2>1 DEF Good
  <2>3. h[i] \in Good(D) /\ ViewsKept(h[i - 1], h[i]) /\ h[i].refs = h[i - 1].refs \ {<<f[i], q>>}
    BY <2>0, <2>1, <2>2, LimboRemovedContract
  <2>4. ViewsKept(c, h[i])
    BY <2>1, <2>3 DEF ViewsKept
  <2>5. 1 .. i = (1 .. (i - 1)) \cup {i}
    BY <1>1
  <2>6. h[i].refs = c.refs \ {<<f[j], q>> : j \in 1 .. i}
    BY <2>1, <2>3, <2>5
  <2> QED
    BY <2>3, <2>4, <2>6
<1>5. \A i \in 0 .. n : i \in P
  <2> HIDE DEF P
  <2> QED
    BY <1>1, <1>3, <1>4, UpTo
<1>6. n \in P
  BY <1>1, <1>5
<1> QED
  BY <1>2, <1>6

\* All that got in limbo is referred to.
LEMMA AddedAllContract ==
  ASSUME NEW D, NEW c \in Good(D), NEW f \in Seq(Docs), NEW q \in Views, NEW d, d = AddedAll(c, f, q)
  PROVE  d \in Good(D) /\ ViewsKept(c, d) /\ d.refs = c.refs \cup {<<f[j], q>> : j \in 1 .. Len(f)}
<1> DEFINE n == Len(f)
<1>1. n \in Nat /\ c \in Settled /\ \A i \in 1 .. n : f[i] \in Docs
  BY DEF Good
<1>2. PICK h : /\ h[0] = c /\ h[n] = d
               /\ \A i \in 1 .. n : h[i] = LimboAdded(h[i - 1], f[i], q)
  BY <1>1, AddedTurns
<1> DEFINE P == {i \in 0 .. n : h[i] \in Good(D) /\ ViewsKept(c, h[i]) /\ h[i].refs = c.refs \cup {<<f[j], q>> : j \in 1 .. i}}
<1>3. 0 \in P
  BY <1>1, <1>2 DEF ViewsKept
<1>4. ASSUME NEW i \in 1 .. n, i - 1 \in P PROVE i \in P
  <2>0. h[i] = LimboAdded(h[i - 1], f[i], q) /\ f[i] \in Docs
    BY <1>1, <1>2
  <2>1. h[i - 1] \in Good(D) /\ ViewsKept(c, h[i - 1]) /\ h[i - 1].refs = c.refs \cup {<<f[j], q>> : j \in 1 .. (i - 1)}
    BY <1>4
  <2>2. h[i - 1] \in Settled
    BY <2>1 DEF Good
  <2>3. h[i] \in Good(D) /\ ViewsKept(h[i - 1], h[i]) /\ h[i].refs = h[i - 1].refs \cup {<<f[i], q>>}
    BY <2>0, <2>1, <2>2, LimboAddedContract
  <2>4. ViewsKept(c, h[i])
    BY <2>1, <2>3 DEF ViewsKept
  <2>5. 1 .. i = (1 .. (i - 1)) \cup {i}
    BY <1>1
  <2>6. h[i].refs = c.refs \cup {<<f[j], q>> : j \in 1 .. i}
    BY <2>1, <2>3, <2>5
  <2> QED
    BY <2>3, <2>4, <2>6
<1>5. \A i \in 0 .. n : i \in P
  <2> HIDE DEF P
  <2> QED
    BY <1>1, <1>3, <1>4, UpTo
<1>6. n \in P
  BY <1>1, <1>5
<1> QED
  BY <1>2, <1>6

\* Resolutions that nothing refers to end without harm to the others.
LEMMA UnreferencedAllContract ==
  ASSUME NEW D, NEW c \in Good(D), NEW f \in Seq(Docs), NEW d, d = UnreferencedAll(c, f)
  PROVE  d \in Good(D) /\ ViewsKept(c, d) /\ d.refs = c.refs
<1> DEFINE n == Len(f)
<1>1. n \in Nat /\ c \in Settled /\ \A i \in 1 .. n : f[i] \in Docs
  BY DEF Good
<1>2. PICK h : /\ h[0] = c /\ h[n] = d
               /\ \A i \in 1 .. n : h[i] = RemoveUnreferenced(h[i - 1], f[i])
  BY <1>1, UnreferencedTurns
<1> DEFINE P == {i \in 0 .. n : h[i] \in Good(D) /\ ViewsKept(c, h[i]) /\ h[i].refs = c.refs}
<1>3. 0 \in P
  BY <1>1, <1>2 DEF ViewsKept
<1>4. ASSUME NEW i \in 1 .. n, i - 1 \in P PROVE i \in P
  <2>0. h[i] = RemoveUnreferenced(h[i - 1], f[i]) /\ f[i] \in Docs
    BY <1>1, <1>2
  <2>1. h[i - 1] \in Good(D) /\ ViewsKept(c, h[i - 1]) /\ h[i - 1].refs = c.refs
    BY <1>4
  <2>2. h[i - 1] \in Settled
    BY <2>1 DEF Good
  <2>3. h[i] \in Good(D) /\ ViewsKept(h[i - 1], h[i]) /\ h[i].refs = h[i - 1].refs
    BY <2>0, <2>1, <2>2, RemoveUnreferencedContract
  <2>4. ViewsKept(c, h[i])
    BY <2>1, <2>3 DEF ViewsKept
  <2>5. 1 .. i = (1 .. (i - 1)) \cup {i}
    BY <1>1
  <2>6. h[i].refs = c.refs
    BY <2>1, <2>3, <2>5
  <2> QED
    BY <2>3, <2>4, <2>6
<1>5. \A i \in 0 .. n : i \in P
  <2> HIDE DEF P
  <2> QED
    BY <1>1, <1>3, <1>4, UpTo
<1>6. n \in P
  BY <1>1, <1>5
<1> QED
  BY <1>2, <1>6

\* SetToSeq lists a finite set.
LEMMA SetToSeqLists ==
  ASSUME NEW S, S \subseteq Docs
  PROVE  SetToSeq(S) \in Seq(Docs) /\ {SetToSeq(S)[i] : i \in 1 .. Len(SetToSeq(S))} = S
<1> DEFINE n == Cardinality(S)
           f == SetToSeq(S)
<1>1. IsFiniteSet(S) /\ n \in Nat
  BY LimboAssumption, FS_Subset, FS_CardinalityType
<1>2. PICK g : ExistsBijection(1 .. n, S) /\ g \in Bijection(1 .. n, S)
  BY <1>1, FS_CardinalityType DEF ExistsBijection
<1>3. g \in [1 .. n -> S] /\ IsInjective(g)
  BY <1>2 DEF Bijection, Injection, IsInjective
<1>4. f \in [1 .. n -> S] /\ IsInjective(f)
  BY <1>3 DEF SetToSeq
<1> HIDE DEF f
<1>5. \A i, j \in 1 .. n : f[i] = f[j] => i = j
  BY <1>4 DEF IsInjective
<1>6. Enlists(f, S) /\ f \in Seq(S) /\ Len(f) = n
  BY <1>1, <1>4, <1>5, InjectionLists
<1>7. {f[i] : i \in 1 .. Len(f)} = S
  BY <1>4, <1>6 DEF Enlists
<1>8. f \in Seq(Docs)
  BY <1>6
<1> QED
  BY <1>7, <1>8 DEF f

\* References of a query after a change of what it has in limbo
RefsAfter(R, q, removed, added) == (R \ (removed \X {q})) \cup (added \X {q})

\* After a view's changes the references are those of its limbo documents, in whatever order the changes come.
LEMMA UpdateTrackedContract ==
  ASSUME NEW D, NEW c \in Good(D), NEW q \in Views, NEW removed \in SUBSET Docs, NEW added \in SUBSET Docs,
         NEW d, d = UpdateTrackedLimboDocuments(c, q, removed, added)
  PROVE  d \in Good(D) /\ ViewsKept(c, d) /\ d.refs = RefsAfter(c.refs, q, removed, added)
<1> DEFINE w == RemovedAll(c, SetToSeq(removed), q)
<1>1. d = AddedAll(w, SetToSeq(added), q)
  BY DEF UpdateTrackedLimboDocuments, RemovedAll, AddedAll
<1>2. /\ SetToSeq(removed) \in Seq(Docs)
      /\ {SetToSeq(removed)[i] : i \in 1 .. Len(SetToSeq(removed))} = removed
      /\ SetToSeq(added) \in Seq(Docs)
      /\ {SetToSeq(added)[i] : i \in 1 .. Len(SetToSeq(added))} = added
  BY SetToSeqLists
<1>3. /\ w \in Good(D) /\ ViewsKept(c, w)
      /\ w.refs = c.refs \ {<<SetToSeq(removed)[j], q>> : j \in 1 .. Len(SetToSeq(removed))}
  BY <1>2, RemovedAllContract
<1> HIDE DEF w
<1>4. /\ d \in Good(D) /\ ViewsKept(w, d)
      /\ d.refs = w.refs \cup {<<SetToSeq(added)[j], q>> : j \in 1 .. Len(SetToSeq(added))}
  <2> DEFINE f == SetToSeq(added)
  <2>1. f \in Seq(Docs) /\ d = AddedAll(w, f, q) /\ w \in Good(D)
    BY <1>1, <1>2, <1>3
  <2> HIDE DEF f
  <2>2. d \in Good(D) /\ ViewsKept(w, d) /\ d.refs = w.refs \cup {<<f[j], q>> : j \in 1 .. Len(f)}
    BY <2>1, AddedAllContract
  <2> QED
    BY <2>2 DEF f
<1>5. ASSUME NEW f, NEW S, {f[i] : i \in 1 .. Len(f)} = S
      PROVE  {<<f[j], q>> : j \in 1 .. Len(f)} = S \X {q}
  BY <1>5
<1>6. /\ {<<SetToSeq(removed)[j], q>> : j \in 1 .. Len(SetToSeq(removed))} = removed \X {q}
      /\ {<<SetToSeq(added)[j], q>> : j \in 1 .. Len(SetToSeq(added))} = added \X {q}
  BY <1>2, <1>5
<1> QED
  BY <1>3, <1>4, <1>6 DEF ViewsKept, RefsAfter

\* What a query that is no longer listened to had in limbo
LEMMA RemoveAndCleanupTargetContract ==
  ASSUME NEW D, NEW c \in Good(D), NEW q \in Views, NEW d, d = RemoveAndCleanupTarget(c, q)
  PROVE  d \in Good(D) /\ ViewsKept(c, d) /\ d.refs = {r \in c.refs : r[2] # q}
<1> DEFINE keys == {key \in Docs : <<key, q>> \in c.refs}
           R == {r \in c.refs : r[2] # q}
           w == [c EXCEPT !.refs = R]
           f == SetToSeq(keys)
<1>1. d = UnreferencedAll(w, f)
  BY DEF RemoveAndCleanupTarget, UnreferencedAll
<1>2. c \in Settled /\ R \in SUBSET (Docs \X Views)
  BY DEF Good, Settled, Sane, Engine
<1>3. /\ w \in Settled /\ ViewsKept(c, w) /\ w.refs = R
      /\ \A key : Tracked(w, key) <=> Tracked(c, key)
  <2> HIDE DEF R
  <2> QED
    BY <1>2, OtherRefs
<1>4. f \in Seq(Docs)
  BY SetToSeqLists
<1> HIDE DEF w, f
<1>5. w \in Good(D)
  BY <1>3 DEF Good
<1>6. d \in Good(D) /\ ViewsKept(w, d) /\ d.refs = w.refs
  BY <1>1, <1>4, <1>5, UnreferencedAllContract
<1> QED
  BY <1>3, <1>6 DEF ViewsKept

-----------------------------------------------------------------------------
\* RefsAreLimbo of any engine
RefsOf(c) == c.refs = {r \in Docs \X Views : r[1] \in c.limbo[r[2]]}
Agreed(D) == {c \in Good(D) : RefsOf(c)}

\* The engine with other contents of its views
WithViews(c, S, L, U, K, N) ==
  [c EXCEPT !.synced = S, !.limbo = L, !.current = U, !.cache = K, !.news = N]

\* The engine's books do not depend on what its views hold.
LEMMA OtherViews ==
  ASSUME NEW D, NEW c \in Good(D), NEW S \in [Views -> SUBSET Docs], NEW L \in [Views -> SUBSET Docs],
         NEW U \in SUBSET Views, NEW K \in SUBSET Docs, NEW N \in [Views -> SUBSET Docs],
         NEW d, d = WithViews(c, S, L, U, K, N)
  PROVE  /\ d \in Good(D) /\ d.synced = S /\ d.limbo = L /\ d.current = U /\ d.cache = K /\ d.news = N
         /\ d.refs = c.refs /\ d.watched = c.watched /\ Viewed(d) = Viewed(c)
<1>1. c \in Engine
  BY DEF Good, Settled, Sane
<1>2. /\ d \in Engine /\ d.enqueued = c.enqueued /\ d.refs = c.refs
      /\ d.watched = c.watched /\ d.heard = c.heard /\ d.awaited = c.awaited
      /\ d.active = c.active /\ d.resolutions = c.resolutions
      /\ d.synced = S /\ d.limbo = L /\ d.current = U /\ d.cache = K /\ d.news = N
  BY <1>1 DEF Engine, WithViews
<1>3. d \in Settled
  BY <1>2 DEF Good, Settled, Sane, Full
<1>4. \A key : Tracked(d, key) <=> Tracked(c, key)
  BY <1>2 DEF Tracked, IsActive, Waits
<1>5. d \in Good(D)
  BY <1>2, <1>3, <1>4 DEF Good
<1> QED
  BY <1>2, <1>5 DEF Viewed

\* A view that is current tells what is in limbo, and the references follow.
LEMMA UpdateLimboContract ==
  ASSUME NEW D, NEW c \in Agreed(D), NEW q \in Views, NEW d, d = UpdateLimboDocuments(c, q)
  PROVE  /\ d \in Agreed(D) /\ Viewed(d) = Viewed(c)
         /\ d.cache = c.cache /\ d.news = c.news /\ d.current = c.current /\ d.synced = c.synced
         /\ d.limbo = IF q \in c.current THEN [c.limbo EXCEPT ![q] = Results(c, q) \ c.synced[q]] ELSE c.limbo
<1>0. /\ c \in Good(D) /\ RefsOf(c) /\ c.limbo \in [Views -> SUBSET Docs]
      /\ c.synced \in [Views -> SUBSET Docs] /\ c.cache \in SUBSET Docs /\ c.refs \subseteq Docs \X Views
      /\ c.current \in SUBSET Views /\ c.news \in [Views -> SUBSET Docs] /\ c \in Engine
  BY DEF Agreed, Good, Settled, Sane, Engine
<1>1. CASE q \notin c.current
  BY <1>1 DEF UpdateLimboDocuments
<1>2. CASE q \in c.current
  <2> DEFINE old == c.limbo[q]
             new == Results(c, q) \ c.synced[q]
             L == [c.limbo EXCEPT ![q] = new]
             w == [c EXCEPT !.limbo = L]
  <2>1. d = UpdateTrackedLimboDocuments(w, q, old \ new, new \ old)
    BY <1>2 DEF UpdateLimboDocuments
  <2>2. old \in SUBSET Docs /\ new \in SUBSET Docs /\ L \in [Views -> SUBSET Docs]
    BY <1>0 DEF Results
  <2>3. \A p \in Views : L[p] = IF p = q THEN new ELSE c.limbo[p]
    BY <1>0
  <2> HIDE DEF old, new, L
  <2>4. w = WithViews(c, c.synced, L, c.current, c.cache, c.news)
    BY <1>0 DEF Engine, WithViews
  <2>5. /\ w \in Good(D) /\ w.synced = c.synced /\ w.limbo = L /\ w.current = c.current
        /\ w.cache = c.cache /\ w.news = c.news /\ w.refs = c.refs /\ Viewed(w) = Viewed(c)
    <3> HIDE DEF w
    <3> QED
      BY <1>0, <2>2, <2>4, OtherViews
  <2> HIDE DEF w
  <2>6. /\ d \in Good(D) /\ ViewsKept(w, d)
        /\ d.refs = (w.refs \ ((old \ new) \X {q})) \cup ((new \ old) \X {q})
    <3> DEFINE out == old \ new
               entered == new \ old
    <3>1. out \in SUBSET Docs /\ entered \in SUBSET Docs
      BY <2>2
    <3>2. w \in Good(D) /\ d = UpdateTrackedLimboDocuments(w, q, out, entered)
      BY <2>1, <2>5
    <3> HIDE DEF out, entered
    <3>3. d \in Good(D) /\ ViewsKept(w, d) /\ d.refs = RefsAfter(w.refs, q, out, entered)
      BY <3>1, <3>2, UpdateTrackedContract
    <3> QED
      BY <3>3 DEF out, entered, RefsAfter
  <2>7. RefsOf(d)
    <3>1. d.limbo = L /\ d.refs \subseteq Docs \X Views
      BY <2>5, <2>6 DEF ViewsKept, Good, Settled, Sane, Engine
    <3>2. ASSUME NEW key \in Docs, NEW p \in Views
          PROVE  <<key, p>> \in d.refs <=> key \in L[p]
      <4>1. <<key, p>> \in c.refs <=> key \in c.limbo[p]
        BY <1>0 DEF RefsOf
      <4>2. CASE p = q
        <5>1. <<key, q>> \in c.refs <=> key \in old
          BY <4>1, <4>2 DEF old
        <5>2. <<key, q>> \in (old \ new) \X {q} <=> key \in old \ new
          OBVIOUS
        <5>3. <<key, q>> \in (new \ old) \X {q} <=> key \in new \ old
          OBVIOUS
        <5> QED
          BY <2>3, <2>5, <2>6, <4>2, <5>1, <5>2, <5>3
      <4>3. CASE p # q
        <5>1. <<key, p>> \notin (old \ new) \X {q} /\ <<key, p>> \notin (new \ old) \X {q}
          BY <4>3
        <5> QED
          BY <2>3, <2>5, <2>6, <4>1, <4>3, <5>1
      <4> QED
        BY <4>2, <4>3
    <3> QED
      BY <3>1, <3>2 DEF RefsOf
  <2> QED
    BY <1>2, <2>5, <2>6, <2>7 DEF Agreed, ViewsKept, L, new
<1> QED
  BY <1>0, <1>1, <1>2 DEF Agreed

-----------------------------------------------------------------------------
\* What an event tells the views of Q: what they are afterwards, and what the others still are
IsEvent(e) ==
  \A q \in DOMAIN e.change : e.change[q] \in [added : SUBSET Docs, removed : SUBSET Docs, current : BOOLEAN]

NewSynced(c, e, q) ==
  IF q \notin DOMAIN e.change THEN c.synced[q]
  ELSE (c.synced[q] \cup e.change[q].added) \ e.change[q].removed
NewCurrent(c, e, q) == IF q \notin DOMAIN e.change THEN q \in c.current ELSE e.change[q].current
NewLimbo(c, e, q) ==
  IF NewCurrent(c, e, q) THEN (c.cache \cap Matching[q]) \ NewSynced(c, e, q) ELSE c.limbo[q]

Turned(c, d, e, Q) ==
  /\ d.cache = c.cache /\ d.news = c.news /\ Viewed(d) = Viewed(c)
  /\ \A q \in Q : /\ d.synced[q] = NewSynced(c, e, q)
                  /\ q \in d.current <=> NewCurrent(c, e, q)
                  /\ d.limbo[q] = NewLimbo(c, e, q)
  /\ \A q \in Views \ Q : /\ d.synced[q] = c.synced[q]
                          /\ q \in d.current <=> q \in c.current
                          /\ d.limbo[q] = c.limbo[q]

\* What a view's target change writes.
LEMMA ApplyTargetChangeContract ==
  ASSUME NEW D, NEW c \in Agreed(D), NEW q \in Views, NEW e, IsEvent(e),
         NEW d, d = ApplyTargetChange(c, q, e)
  PROVE  /\ d \in Agreed(D) /\ Viewed(d) = Viewed(c)
         /\ d.cache = c.cache /\ d.news = c.news /\ d.limbo = c.limbo
         /\ d.synced[q] = NewSynced(c, e, q) /\ (q \in d.current <=> NewCurrent(c, e, q))
         /\ \A p \in Views \ {q} : d.synced[p] = c.synced[p] /\ (p \in d.current <=> p \in c.current)
<1>0. /\ c \in Good(D) /\ RefsOf(c) /\ c.limbo \in [Views -> SUBSET Docs]
      /\ c.synced \in [Views -> SUBSET Docs] /\ c.cache \in SUBSET Docs
      /\ c.current \in SUBSET Views /\ c.news \in [Views -> SUBSET Docs] /\ c \in Engine
  BY DEF Agreed, Good, Settled, Sane, Engine
<1>1. CASE q \notin DOMAIN e.change
  BY <1>0, <1>1 DEF ApplyTargetChange, NewSynced, NewCurrent
<1>2. CASE q \in DOMAIN e.change
  <2> DEFINE new == (c.synced[q] \cup e.change[q].added) \ e.change[q].removed
             S == [c.synced EXCEPT ![q] = new]
             U == IF e.change[q].current THEN c.current \cup {q} ELSE c.current \ {q}
  <2>1. e.change[q] \in [added : SUBSET Docs, removed : SUBSET Docs, current : BOOLEAN]
    BY <1>2 DEF IsEvent
  <2>2. S \in [Views -> SUBSET Docs] /\ U \in SUBSET Views
    BY <1>0, <2>1
  <2>3. d = [c EXCEPT !.synced = S, !.current = U]
    BY <1>2 DEF ApplyTargetChange
  <2>4. S[q] = new /\ \A p \in Views \ {q} : S[p] = c.synced[p]
    BY <1>0
  <2>5. (q \in U <=> e.change[q].current) /\ \A p \in Views \ {q} : p \in U <=> p \in c.current
    BY <2>1
  <2> HIDE DEF S, U
  <2>6. d = WithViews(c, S, c.limbo, U, c.cache, c.news)
    BY <1>0, <2>3 DEF Engine, WithViews
  <2>7. /\ d \in Good(D) /\ d.synced = S /\ d.limbo = c.limbo /\ d.current = U
        /\ d.cache = c.cache /\ d.news = c.news /\ d.refs = c.refs /\ Viewed(d) = Viewed(c)
    BY <1>0, <2>2, <2>6, OtherViews
  <2>8. RefsOf(d)
    BY <1>0, <2>7 DEF RefsOf
  <2> QED
    BY <1>2, <2>4, <2>5, <2>7, <2>8 DEF Agreed, NewSynced, NewCurrent
<1> QED
  BY <1>1, <1>2

\* One view's turn
ViewTurn(c, q, e) == UpdateLimboDocuments(ApplyTargetChange(c, q, e), q)

\* A view's turn in an event: its target change, then its limbo documents.
LEMMA ViewTurnContract ==
  ASSUME NEW D, NEW c \in Agreed(D), NEW q \in Views, NEW e, IsEvent(e),
         NEW d, d = ViewTurn(c, q, e)
  PROVE  d \in Agreed(D) /\ Turned(c, d, e, {q})
<1> DEFINE w == ApplyTargetChange(c, q, e)
<1>1. /\ w \in Agreed(D) /\ Viewed(w) = Viewed(c)
      /\ w.cache = c.cache /\ w.news = c.news /\ w.limbo = c.limbo
      /\ w.synced[q] = NewSynced(c, e, q) /\ (q \in w.current <=> NewCurrent(c, e, q))
      /\ \A p \in Views \ {q} : w.synced[p] = c.synced[p] /\ (p \in w.current <=> p \in c.current)
  BY ApplyTargetChangeContract
<1>2. d = UpdateLimboDocuments(w, q)
  BY DEF ViewTurn
<1> HIDE DEF w
<1>3. /\ d \in Agreed(D) /\ Viewed(d) = Viewed(w)
      /\ d.cache = w.cache /\ d.news = w.news /\ d.current = w.current /\ d.synced = w.synced
      /\ d.limbo = IF q \in w.current THEN [w.limbo EXCEPT ![q] = Results(w, q) \ w.synced[q]] ELSE w.limbo
  BY <1>1, <1>2, UpdateLimboContract
<1>4. w.limbo \in [Views -> SUBSET Docs]
  BY <1>1 DEF Agreed, Good, Settled, Sane, Engine
<1>5. d.limbo[q] = NewLimbo(c, e, q) /\ \A p \in Views \ {q} : d.limbo[p] = c.limbo[p]
  BY <1>1, <1>3, <1>4 DEF NewLimbo, Results
<1> QED
  BY <1>1, <1>3, <1>5 DEF Turned

\* The views' turns
TurnsOf(c, f, e) == FoldLeft(LAMBDA d, q : ViewTurn(d, q, e), c, f)

\* The views, one by one
LEMMA ViewTurns ==
  ASSUME NEW D, NEW c \in Agreed(D), NEW f \in Seq(Views), NEW e, IsEvent(e)
  PROVE  \E h : /\ h[0] = c /\ h[Len(f)] = TurnsOf(c, f, e)
               /\ \A i \in 1 .. Len(f) : h[i] = ViewTurn(h[i - 1], f[i], e)
<1> DEFINE n == Len(f)
           step == [i \in 1 .. n |-> [d \in Agreed(D) |-> ViewTurn(d, f[i], e)]]
           Table(g) == [s \in SUBSET (1 .. n) |->
                          IF s = {} THEN c ELSE ViewTurn(g[s \ {Highest(s)}], f[Highest(s)], e)]
           it == CHOOSE g : g = Table(g)
           h == [i \in 0 .. n |-> it[1 .. i]]
<1>1. n \in Nat /\ DOMAIN f = 1 .. n /\ \A i \in 1 .. n : f[i] \in Views
  OBVIOUS
<1>2. \E g : g = Table(g)
  <2>1. \A i \in 1 .. n : step[i] \in [Agreed(D) -> Agreed(D)]
    BY <1>1, ViewTurnContract
  <2> HIDE DEF step
  <2>2. PICK g \in [SUBSET (1 .. n) -> Agreed(D)] : g = FoldTable(step, c, g, 1 .. n)
    BY <1>1, <2>1, FoldExists
  <2>3. ASSUME NEW s \in SUBSET (1 .. n), s # {}
        PROVE  step[Highest(s)][g[s \ {Highest(s)}]] = ViewTurn(g[s \ {Highest(s)}], f[Highest(s)], e)
    <3>1. Highest(s) \in 1 .. n
      BY <1>1, <2>3, HighestIs
    <3>2. g[s \ {Highest(s)}] \in Agreed(D)
      OBVIOUS
    <3> QED
      BY <3>1, <3>2 DEF step
  <2>4. FoldTable(step, c, g, 1 .. n) = Table(g)
    BY <2>3 DEF FoldTable
  <2> QED
    BY <2>2, <2>4
<1>3. it = Table(it)
  <2> HIDE DEF Table
  <2> QED
    BY <1>2
<1>4. TurnsOf(c, f, e) = it[1 .. n]
  BY <1>1 DEF TurnsOf, FoldLeft, MapThenFoldSet, Max, Highest
<1> HIDE DEF it
<1>5. ASSUME NEW i \in 1 .. n PROVE it[1 .. i] = ViewTurn(it[1 .. (i - 1)], f[i], e)
  <2>1. Highest(1 .. i) = i /\ (1 .. i) \ {i} = 1 .. (i - 1) /\ 1 .. i # {}
    BY <1>1, HighestOfInterval
  <2>2. 1 .. i \in SUBSET (1 .. n)
    BY <1>1
  <2>3. Table(it)[1 .. i] = ViewTurn(it[(1 .. i) \ {Highest(1 .. i)}], f[Highest(1 .. i)], e)
    BY <2>1, <2>2
  <2> QED
    BY <1>3, <2>1, <2>3
<1>6. it[1 .. 0] = c
  <2>1. Table(it)[1 .. 0] = c
    OBVIOUS
  <2> QED
    BY <1>3, <2>1
<1>7. h[0] = c /\ h[n] = it[1 .. n] /\ \A i \in 1 .. n : h[i] = ViewTurn(h[i - 1], f[i], e)
  BY <1>1, <1>5, <1>6
<1> HIDE DEF h, n
<1> QED
  BY <1>4, <1>7 DEF n

\* One more turn after those of Q: each view is as its own turn left it.
LEMMA TurnedOnce ==
  ASSUME NEW c, NEW d, NEW x, NEW e, NEW Q \in SUBSET Views, NEW q \in Views \ Q,
         Turned(c, d, e, Q), Turned(d, x, e, {q})
  PROVE  Turned(c, x, e, Q \cup {q})
<1>1. /\ NewSynced(d, e, q) = NewSynced(c, e, q)
      /\ NewCurrent(d, e, q) <=> NewCurrent(c, e, q)
      /\ NewLimbo(d, e, q) = NewLimbo(c, e, q)
  BY DEF Turned, NewSynced, NewCurrent, NewLimbo
<1>2. x.cache = c.cache /\ x.news = c.news /\ Viewed(x) = Viewed(c)
  BY DEF Turned
<1>3. /\ x.synced[q] = NewSynced(c, e, q) /\ (q \in x.current <=> NewCurrent(c, e, q))
      /\ x.limbo[q] = NewLimbo(c, e, q)
  BY <1>1 DEF Turned
<1>4. ASSUME NEW p \in Q
      PROVE  /\ x.synced[p] = NewSynced(c, e, p) /\ (p \in x.current <=> NewCurrent(c, e, p))
             /\ x.limbo[p] = NewLimbo(c, e, p)
  <2>1. p \in Views \ {q}
    OBVIOUS
  <2>2. x.synced[p] = d.synced[p] /\ (p \in x.current <=> p \in d.current) /\ x.limbo[p] = d.limbo[p]
    BY <2>1 DEF Turned
  <2> QED
    BY <2>2 DEF Turned
<1>5. ASSUME NEW p \in Views \ (Q \cup {q})
      PROVE  x.synced[p] = c.synced[p] /\ (p \in x.current <=> p \in c.current) /\ x.limbo[p] = c.limbo[p]
  BY DEF Turned
<1> QED
  BY <1>2, <1>3, <1>4, <1>5 DEF Turned

\* What the views and the cache are after an event
Applied(c, d, e) ==
  /\ d.cache = (c.cache \cup e.exists) \ e.gone
  /\ d.news = c.news /\ Viewed(d) = Viewed(c)
  /\ \A q \in Viewed(c) :
       /\ d.synced[q] = NewSynced(c, e, q)
       /\ q \in d.current <=> NewCurrent(c, e, q)
       /\ NewCurrent(c, e, q) => d.limbo[q] = (d.cache \cap Matching[q]) \ d.synced[q]
  /\ \A q \in Views \ Viewed(c) :
       /\ d.synced[q] = c.synced[q]
       /\ q \in d.current <=> q \in c.current
       /\ d.limbo[q] = c.limbo[q]

\* In whatever order the views take their turns, each takes one.
LEMMA ApplyRemoteEventContract ==
  ASSUME NEW D, NEW c \in Agreed(D), NEW order \in SetToSeqs(Viewed(c)),
         NEW e, IsEvent(e), e.exists \in SUBSET Docs,
         NEW d, d = ApplyRemoteEvent(c, e, order)
  PROVE  d \in Agreed(D) /\ Applied(c, d, e)
<1> DEFINE K == (c.cache \cup e.exists) \ e.gone
           w == [c EXCEPT !.cache = K]
           n == Cardinality(Viewed(c))
<1>0. /\ c \in Good(D) /\ RefsOf(c) /\ c.limbo \in [Views -> SUBSET Docs]
      /\ c.synced \in [Views -> SUBSET Docs] /\ c.cache \in SUBSET Docs
      /\ c.current \in SUBSET Views /\ c.news \in [Views -> SUBSET Docs] /\ c \in Engine
      /\ IsFiniteSet(c.watched)
  BY DEF Agreed, Good, Settled, Sane, Engine
<1>1. d = TurnsOf(w, order, e)
  BY DEF ApplyRemoteEvent, TurnsOf, ViewTurn
<1>2. K \in SUBSET Docs
  BY <1>0
<1> HIDE DEF K
<1>3. /\ w \in Agreed(D) /\ w.cache = K /\ w.news = c.news /\ w.current = c.current
      /\ w.synced = c.synced /\ w.limbo = c.limbo /\ Viewed(w) = Viewed(c)
  <2>1. w = WithViews(c, c.synced, c.limbo, c.current, K, c.news)
    BY <1>0 DEF Engine, WithViews
  <2> HIDE DEF w
  <2>2. /\ w \in Good(D) /\ w.synced = c.synced /\ w.limbo = c.limbo /\ w.current = c.current /\ w.cache = K
        /\ w.news = c.news /\ w.refs = c.refs /\ Viewed(w) = Viewed(c)
    BY <1>0, <1>2, <2>1, OtherViews
  <2> QED
    BY <1>0, <2>2 DEF Agreed, RefsOf
<1> HIDE DEF w
<1>4. IsFiniteSet(Viewed(c)) /\ n \in Nat /\ Viewed(c) \subseteq Views
  <2>1. Viewed(c) \in SUBSET c.watched
    BY DEF Viewed
  <2> QED
    BY <1>0, <2>1, FS_Subset, FS_CardinalityType DEF Viewed
<1>5. Enlists(order, Viewed(c)) /\ order \in Seq(Viewed(c)) /\ Len(order) = n
  <2>1. order \in [1 .. n -> Viewed(c)] /\ \A i, j \in 1 .. n : order[i] = order[j] => i = j
    BY DEF SetToSeqs
  <2> QED
    BY <1>4, <2>1, InjectionLists
<1>6. order \in Seq(Views)
  BY <1>4, <1>5
<1>7. PICK h : /\ h[0] = w /\ h[n] = d
               /\ \A i \in 1 .. n : h[i] = ViewTurn(h[i - 1], order[i], e)
  BY <1>1, <1>3, <1>5, <1>6, ViewTurns
<1> DEFINE Done(i) == {order[j] : j \in 1 .. i}
           P == {i \in 0 .. n : h[i] \in Agreed(D) /\ Turned(w, h[i], e, Done(i))}
<1>8. 0 \in P
  <2>1. Done(0) = {}
    OBVIOUS
  <2> HIDE DEF Done
  <2>2. Turned(w, w, e, {})
    BY DEF Turned
  <2> QED
    BY <1>3, <1>4, <1>7, <2>1, <2>2
<1>9. ASSUME NEW i \in 1 .. n, i - 1 \in P PROVE i \in P
  <2>1. h[i - 1] \in Agreed(D) /\ Turned(w, h[i - 1], e, Done(i - 1))
    BY <1>9
  <2>2. h[i] = ViewTurn(h[i - 1], order[i], e)
    BY <1>7
  <2>3. order[i] \in Views \ Done(i - 1) /\ Done(i - 1) \in SUBSET Views
    <3>1. DOMAIN order = 1 .. n /\ \A j \in 1 .. n : order[j] \in Views
      BY <1>4, <1>5 DEF Enlists
    <3>2. \A j \in 1 .. (i - 1) : j \in 1 .. n /\ j # i
      BY <1>4
    <3>3. \A j \in 1 .. (i - 1) : order[j] # order[i]
      BY <1>5, <3>1, <3>2 DEF Enlists
    <3> QED
      BY <3>1, <3>2, <3>3
  <2>4. Done(i) = Done(i - 1) \cup {order[i]}
    <3>1. 1 .. i = (1 .. (i - 1)) \cup {i}
      BY <1>4
    <3> QED
      BY <3>1
  <2> HIDE DEF Done
  <2>5. h[i] \in Agreed(D) /\ Turned(h[i - 1], h[i], e, {order[i]})
    BY <2>1, <2>2, <2>3, ViewTurnContract
  <2>6. Turned(w, h[i], e, Done(i))
    BY <2>1, <2>3, <2>4, <2>5, TurnedOnce
  <2> QED
    BY <1>4, <2>5, <2>6
<1>10. n \in P
  <2> HIDE DEF P
  <2>1. \A i \in 0 .. n : i \in P
    BY <1>4, <1>8, <1>9, UpTo
  <2> QED
    BY <1>4, <2>1
<1>11. Done(n) = Viewed(c)
  <2>1. DOMAIN order = 1 .. n
    BY <1>4, <1>5 DEF Enlists
  <2> QED
    BY <1>5, <2>1 DEF Enlists
<1>12. d \in Agreed(D) /\ Turned(w, d, e, Viewed(c))
  <2>1. h[n] \in Agreed(D) /\ Turned(w, h[n], e, Done(n))
    BY <1>10
  <2> HIDE DEF Done
  <2> QED
    BY <1>7, <1>11, <2>1
<1>13. ASSUME NEW q \in Viewed(c)
       PROVE  /\ NewSynced(w, e, q) = NewSynced(c, e, q) /\ (NewCurrent(w, e, q) <=> NewCurrent(c, e, q))
              /\ NewCurrent(c, e, q) => NewLimbo(w, e, q) = (K \cap Matching[q]) \ NewSynced(c, e, q)
  BY <1>3 DEF NewSynced, NewCurrent, NewLimbo
<1>14. d.cache = K /\ d.news = c.news /\ Viewed(d) = Viewed(c)
  BY <1>3, <1>12 DEF Turned
<1> QED
  BY <1>3, <1>12, <1>13, <1>14 DEF Turned, Applied, K

-----------------------------------------------------------------------------
\* The inductive invariant, of an engine c, the server's documents S and the
\* documents D that were denied: what a target has heard, its view's limbo
\* documents, the references to them and the resolutions agree.
LimboOfViews(c) == \A q \in Views : c.limbo[q] # {} => q \in c.watched
LimboIsRest(c) == \A q \in c.current : c.limbo[q] = Results(c, q) \ c.synced[q]
KnowsServer(c, S, D) ==
  \A q \in Views :
    /\ c.synced[q] \subseteq Matching[q]
    /\ \A key \in Matching[q] \ c.news[q] :
         /\ key \in c.synced[q] <=> key \in S
         /\ key \in S => key \in c.cache \/ key \in D

EngineInv(c, S, D) ==
  /\ c \in Agreed(D) /\ c.current \subseteq Viewed(c)
  /\ LimboOfViews(c) /\ LimboIsRest(c) /\ KnowsServer(c, S, D)

LimboInv == server \subseteq Docs /\ denied \subseteq Docs /\ EngineInv(engine, server, denied)

\* What the engine's fields are.
LEMMA EngineFields ==
  ASSUME NEW D, NEW c \in Agreed(D)
  PROVE  /\ c \in Engine /\ c \in Good(D) /\ c \in Settled /\ c \in Sane /\ Full(c) /\ RefsOf(c)
         /\ c.cache \in SUBSET Docs /\ c.watched \in SUBSET Targets /\ c.heard \in SUBSET Targets
         /\ c.news \in [Views -> SUBSET Docs] /\ c.awaited \in SUBSET Ids /\ c.current \in SUBSET Views
         /\ c.synced \in [Views -> SUBSET Docs] /\ c.limbo \in [Views -> SUBSET Docs]
         /\ c.refs \in SUBSET (Docs \X Views) /\ c.enqueued \in Seq(Docs)
         /\ c.active \in SUBSET (Docs \X Ids) /\ c.resolutions \in SUBSET (Docs \X Ids)
BY DEF Agreed, Good, Settled, Sane, Engine

\* What a target hears of a query is right, or is not news to it.
Learnt(b, c, S, e, q) ==
  /\ NewSynced(b, e, q) \subseteq Matching[q]
  /\ \A key \in Matching[q] \ c.news[q] :
       \/ key \notin b.news[q] /\ (key \in NewSynced(b, e, q) <=> key \in b.synced[q])
       \/ (key \in NewSynced(b, e, q) <=> key \in S) /\ (key \in S => key \in e.exists)

\* An event that says the truth keeps the invariant.
LEMMA EventKeeps ==
  ASSUME NEW b, NEW S, NEW D, NEW E, EngineInv(b, S, D), D \subseteq E,
         NEW c \in Agreed(E), Viewed(c) = Viewed(b), c.current = b.current, c.limbo = b.limbo,
         c.synced = b.synced, c.cache = b.cache,
         NEW e, IsEvent(e), DOMAIN e.change \subseteq Viewed(b), e.exists \in SUBSET Docs, e.gone \cap S \subseteq E,
         \A q \in Views : Learnt(b, c, S, e, q),
         NEW order \in SetToSeqs(Viewed(b)), NEW d, d = ApplyRemoteEvent(c, e, order)
  PROVE  EngineInv(d, S, E)
<1>1. d \in Agreed(E) /\ Applied(c, d, e)
  BY ApplyRemoteEventContract
<1>2. b \in Agreed(D) /\ b.current \subseteq Viewed(b) /\ Viewed(b) \subseteq Views
  BY DEF EngineInv, Viewed
<1>3. \A q \in Views : NewSynced(c, e, q) = NewSynced(b, e, q)
  BY DEF NewSynced
<1>4. \A q \in Views : d.synced[q] = NewSynced(b, e, q)
  <2>1. \A q \in Views \ Viewed(b) : NewSynced(b, e, q) = b.synced[q]
    BY DEF NewSynced
  <2> QED
    BY <1>1, <1>3, <2>1 DEF Applied
<1>5. d.current \subseteq Viewed(d)
  <2>1. d.current \subseteq Views
    BY <1>1, EngineFields
  <2>2. \A q \in Views \ Viewed(c) : q \notin d.current
    BY <1>1, <1>2 DEF Applied
  <2>3. Viewed(d) = Viewed(c)
    BY <1>1 DEF Applied
  <2> QED
    BY <2>1, <2>2, <2>3
<1>6. LimboOfViews(d)
  <2>1. ASSUME NEW q \in Views, q \notin d.watched PROVE d.limbo[q] = {}
    <3>1. q \notin Viewed(d) /\ Viewed(d) = Viewed(c)
      BY <1>1, <2>1 DEF Applied, Viewed
    <3>2. d.limbo[q] = b.limbo[q]
      BY <1>1, <3>1 DEF Applied
    <3>3. q \notin b.watched
      BY <3>1 DEF Viewed
    <3> QED
      BY <3>2, <3>3 DEF EngineInv, LimboOfViews
  <2> QED
    BY <2>1 DEF LimboOfViews
<1>7. LimboIsRest(d)
  <2>1. ASSUME NEW q \in d.current PROVE d.limbo[q] = Results(d, q) \ d.synced[q]
    <3>1. q \in Viewed(c)
      BY <1>1, <1>5, <2>1 DEF Applied
    <3> QED
      BY <1>1, <3>1 DEF Applied, Results
  <2> QED
    BY <2>1 DEF LimboIsRest
<1>8. KnowsServer(d, S, E)
  <2>1. ASSUME NEW q \in Views PROVE d.synced[q] \subseteq Matching[q]
    BY <1>4 DEF Learnt
  <2>2. ASSUME NEW q \in Views, NEW key \in Matching[q] \ d.news[q]
        PROVE  (key \in d.synced[q] <=> key \in S) /\ (key \in S => key \in d.cache \/ key \in E)
    <3>1. d.news = c.news /\ d.cache = (b.cache \cup e.exists) \ e.gone
      BY <1>1 DEF Applied
    <3>2. \/ key \notin b.news[q] /\ (key \in d.synced[q] <=> key \in b.synced[q])
          \/ (key \in d.synced[q] <=> key \in S) /\ (key \in S => key \in e.exists)
      BY <1>4, <2>2, <3>1 DEF Learnt
    <3>3. CASE key \notin b.news[q] /\ (key \in d.synced[q] <=> key \in b.synced[q])
      <4>1. (key \in b.synced[q] <=> key \in S) /\ (key \in S => key \in b.cache \/ key \in D)
        BY <2>2, <3>3 DEF EngineInv, KnowsServer
      <4> QED
        BY <3>1, <3>3, <4>1
    <3>4. CASE (key \in d.synced[q] <=> key \in S) /\ (key \in S => key \in e.exists)
      BY <3>1, <3>4
    <3> QED
      BY <3>2, <3>3, <3>4
  <2> QED
    BY <2>1, <2>2 DEF KnowsServer
<1> QED
  BY <1>1, <1>5, <1>6, <1>7, <1>8 DEF EngineInv

\* The engine with another state of its targets
WithHearing(c, H, W, N) == [c EXCEPT !.heard = H, !.awaited = W, !.news = N]

\* Nor on what the targets have heard.
LEMMA OtherHearing ==
  ASSUME NEW D, NEW c \in Agreed(D), NEW H \in SUBSET c.watched, NEW W \in SUBSET Ids,
         NEW N \in [Views -> SUBSET Docs], NEW d, d = WithHearing(c, H, W, N)
  PROVE  /\ d \in Agreed(D) /\ d.heard = H /\ d.news = N /\ Viewed(d) = Viewed(c)
         /\ d.current = c.current /\ d.limbo = c.limbo /\ d.synced = c.synced /\ d.cache = c.cache
         /\ d.watched = c.watched
<1>1. c \in Engine /\ c.watched \in SUBSET Targets
  BY EngineFields
<1>2. /\ d \in Engine /\ d.enqueued = c.enqueued /\ d.refs = c.refs
      /\ d.watched = c.watched /\ d.heard = H /\ d.awaited = W
      /\ d.active = c.active /\ d.resolutions = c.resolutions
      /\ d.synced = c.synced /\ d.limbo = c.limbo /\ d.current = c.current /\ d.cache = c.cache /\ d.news = N
  <2>1. H \in SUBSET Targets
    BY <1>1
  <2> QED
    BY <1>1, <2>1 DEF Engine, WithHearing
<1>3. d \in Settled
  BY <1>2 DEF Agreed, Good, Settled, Sane, Full
<1>4. \A key : Tracked(d, key) <=> Tracked(c, key)
  BY <1>2 DEF Tracked, IsActive, Waits
<1>5. d \in Agreed(D)
  BY <1>2, <1>3, <1>4 DEF Agreed, Good, RefsOf
<1> QED
  BY <1>2, <1>5 DEF Viewed

\* The engine with another set of views
WithView(c, V, H, U, L) == [c EXCEPT !.watched = V, !.heard = H, !.current = U, !.limbo = L]

\* A view that comes or goes disturbs no reference and no resolution.
LEMMA OtherView ==
  ASSUME NEW D, NEW c \in Agreed(D), NEW V \in SUBSET Targets, IsFiniteSet(V), V \cap Ids = c.watched \cap Ids,
         NEW H \in SUBSET V, NEW U \in SUBSET Views, NEW L \in [Views -> SUBSET Docs],
         NEW d, d = WithView(c, V, H, U, L)
  PROVE  /\ d \in Good(D) /\ d.watched = V /\ d.current = U /\ d.limbo = L /\ d.refs = c.refs
         /\ d.synced = c.synced /\ d.cache = c.cache /\ d.news = c.news
<1>1. c \in Engine
  BY EngineFields
<1>2. /\ d \in Engine /\ d.enqueued = c.enqueued /\ d.refs = c.refs
      /\ d.watched = V /\ d.heard = H /\ d.awaited = c.awaited
      /\ d.active = c.active /\ d.resolutions = c.resolutions
      /\ d.synced = c.synced /\ d.limbo = L /\ d.current = U /\ d.cache = c.cache /\ d.news = c.news
  <2>1. H \in SUBSET Targets
    OBVIOUS
  <2> QED
    BY <1>1, <2>1 DEF Engine, WithView
<1>3. d \in Settled
  BY <1>2 DEF Agreed, Good, Settled, Sane, Full
<1>4. \A key : Tracked(d, key) <=> Tracked(c, key)
  BY <1>2 DEF Tracked, IsActive, Waits
<1>5. d \in Good(D)
  BY <1>2, <1>3, <1>4 DEF Agreed, Good
<1> QED
  BY <1>2, <1>5

-----------------------------------------------------------------------------
\* A client that starts, with whatever the cache kept on disk.
LEMMA InitKeepsLimbo ==
  ASSUME LimboInit
  PROVE  LimboInv
<1>1. PICK K \in SUBSET Docs :
       engine = [cache |-> K, watched |-> {}, heard |-> {},
                 news |-> Matching, awaited |-> {},
                 current |-> {}, synced |-> [q \in Views |-> {}], limbo |-> [q \in Views |-> {}],
                 refs |-> {}, enqueued |-> <<>>, active |-> {}, resolutions |-> {}]
  BY DEF LimboInit
<1>2. engine \in Engine
  BY <1>1, LimboAssumption DEF Engine
<1>3. /\ engine.watched = {} /\ engine.heard = {} /\ engine.news = Matching
      /\ engine.current = {} /\ engine.synced = [q \in Views |-> {}] /\ engine.limbo = [q \in Views |-> {}]
      /\ engine.refs = {} /\ engine.enqueued = <<>> /\ engine.active = {} /\ engine.resolutions = {}
  BY <1>1
<1>4. engine \in Sane
  <2>1. Cardinality({}) <= MaxConcurrent /\ IsFiniteSet({})
    BY LimboAssumption, FS_EmptySet
  <2> QED
    BY <1>2, <1>3, <2>1 DEF Sane
<1>5. engine \in Agreed(denied)
  BY <1>3, <1>4 DEF Agreed, Good, Settled, Full, RefsOf
<1>6. LimboOfViews(engine) /\ LimboIsRest(engine) /\ KnowsServer(engine, server, denied)
  BY <1>3 DEF LimboOfViews, LimboIsRest, KnowsServer
<1> QED
  BY <1>3, <1>5, <1>6 DEF LimboInit, LimboInv, EngineInv

\* A new view is not current and has nothing in limbo.
LEMMA ListenKeeps ==
  ASSUME LimboInv, NEW q \in Views, Listen(q)
  PROVE  LimboInv'
<1> DEFINE V == engine.watched \cup {q}
<1>0. engine \in Agreed(denied)
  BY DEF LimboInv, EngineInv
<1>1. q \notin engine.watched /\ server' = server /\ denied' = denied
      /\ engine' = [engine EXCEPT !.watched = V, !.limbo[q] = {}]
  BY DEF Listen
<1>2. engine.limbo[q] = {}
  BY <1>1 DEF LimboInv, EngineInv, LimboOfViews
<1>3. engine' = WithView(engine, V, engine.heard, engine.current, engine.limbo)
  <2>1. engine \in Engine /\ engine.limbo \in [Views -> SUBSET Docs]
    BY <1>0, EngineFields
  <2>2. [engine.limbo EXCEPT ![q] = {}] = engine.limbo
    BY <1>2, <2>1
  <2>3. engine' = [engine EXCEPT !.watched = V, !.limbo = [engine.limbo EXCEPT ![q] = {}]]
    BY <1>1
  <2>4. engine' = [engine EXCEPT !.watched = V, !.limbo = engine.limbo]
    BY <2>2, <2>3
  <2> HIDE DEF V
  <2> QED
    BY <2>1, <2>4 DEF WithView, Engine
<1>4. /\ V \in SUBSET Targets /\ V \cap Ids = engine.watched \cap Ids
      /\ engine.heard \in SUBSET V /\ engine.current \in SUBSET Views /\ engine.limbo \in [Views -> SUBSET Docs]
  BY <1>0, EngineFields, LimboAssumption DEF Sane, Targets
<1>5. IsFiniteSet(V)
  <2>1. IsFiniteSet(engine.watched)
    BY <1>0, EngineFields DEF Sane
  <2> QED
    BY <2>1, FS_AddElement
<1> HIDE DEF V
<1>6. /\ engine' \in Good(denied) /\ engine'.watched = V /\ engine'.current = engine.current
      /\ engine'.limbo = engine.limbo /\ engine'.refs = engine.refs
      /\ engine'.synced = engine.synced /\ engine'.cache = engine.cache /\ engine'.news = engine.news
  BY <1>0, <1>3, <1>4, <1>5, OtherView
<1>7. engine' \in Agreed(denied)
  BY <1>0, <1>6 DEF Agreed, RefsOf
<1>8. EngineInv(engine', server, denied)
  BY <1>6, <1>7 DEF LimboInv, EngineInv, Viewed, LimboOfViews, LimboIsRest, KnowsServer, Results, V
<1> QED
  BY <1>1, <1>8 DEF LimboInv

\* A view that goes takes along what it had in limbo.
LEMMA DroppedKeeps ==
  ASSUME LimboInv, NEW q \in Views, engine' = RemoveAndCleanupTarget(Dropped(q), q),
         server' = server, denied' = denied
  PROVE  LimboInv'
<1> DEFINE V == engine.watched \ {q}
           H == engine.heard \ {q}
           U == engine.current \ {q}
           L == [engine.limbo EXCEPT ![q] = {}]
           w == Dropped(q)
<1>0. engine \in Agreed(denied)
  BY DEF LimboInv, EngineInv
<1>1. w = WithView(engine, V, H, U, L)
  BY DEF Dropped, WithView
<1>2. /\ V \in SUBSET Targets /\ V \cap Ids = engine.watched \cap Ids /\ H \in SUBSET V
      /\ U \in SUBSET Views
  BY <1>0, EngineFields, LimboAssumption DEF Sane
<1>3. L \in [Views -> SUBSET Docs] /\ \A p \in Views : L[p] = IF p = q THEN {} ELSE engine.limbo[p]
  BY <1>0, EngineFields
<1>4. IsFiniteSet(V)
  <2>1. IsFiniteSet(engine.watched) /\ V \in SUBSET engine.watched
    BY <1>0, EngineFields DEF Sane
  <2> QED
    BY <2>1, FS_Subset
<1> HIDE DEF V, H, U, L, w
<1>5. /\ w \in Good(denied) /\ w.watched = V /\ w.current = U /\ w.limbo = L /\ w.refs = engine.refs
      /\ w.synced = engine.synced /\ w.cache = engine.cache /\ w.news = engine.news
  BY <1>0, <1>1, <1>2, <1>3, <1>4, OtherView
<1>6. /\ engine' \in Good(denied) /\ ViewsKept(w, engine') /\ engine'.refs = {r \in w.refs : r[2] # q}
  BY <1>5, RemoveAndCleanupTargetContract DEF w
<1>7. /\ engine'.current = U /\ engine'.limbo = L /\ Viewed(engine') = V \cap Views
      /\ engine'.synced = engine.synced /\ engine'.cache = engine.cache /\ engine'.news = engine.news
  BY <1>5, <1>6 DEF ViewsKept, Viewed
<1>8. RefsOf(engine')
  <2>1. engine.refs = {r \in Docs \X Views : r[1] \in engine.limbo[r[2]]}
    BY <1>0, EngineFields DEF RefsOf
  <2>2. \A r \in Docs \X Views : r[1] \in L[r[2]] <=> r[2] # q /\ r[1] \in engine.limbo[r[2]]
    BY <1>3
  <2> QED
    BY <1>5, <1>6, <1>7, <2>1, <2>2 DEF RefsOf
<1>9. engine' \in Agreed(denied)
  BY <1>6, <1>8 DEF Agreed
<1>10. engine'.current \subseteq Viewed(engine')
  BY <1>7 DEF LimboInv, EngineInv, Viewed, U, V
<1>11. LimboOfViews(engine')
  <2>1. ASSUME NEW p \in Views, L[p] # {} PROVE p \in engine'.watched
    <3>1. p # q /\ engine.limbo[p] # {}
      BY <1>3, <2>1
    <3>2. p \in V \cap Views
      BY <3>1 DEF LimboInv, EngineInv, LimboOfViews, V
    <3> QED
      BY <1>7, <3>2 DEF Viewed
  <2> QED
    BY <1>7, <2>1 DEF LimboOfViews
<1>12. LimboIsRest(engine')
  <2>1. ASSUME NEW p \in U PROVE L[p] = (engine.cache \cap Matching[p]) \ engine.synced[p]
    <3>1. p \in engine.current /\ p # q /\ p \in Views
      BY <1>2, <2>1 DEF U
    <3> QED
      BY <1>3, <3>1 DEF LimboInv, EngineInv, LimboIsRest, Results
  <2> QED
    BY <1>7, <2>1 DEF LimboIsRest, Results
<1>13. KnowsServer(engine', server, denied)
  BY <1>7 DEF LimboInv, EngineInv, KnowsServer
<1> QED
  BY <1>9, <1>10, <1>11, <1>12, <1>13 DEF LimboInv, EngineInv

\* A stream that breaks takes nothing back.
LEMMA StreamBreaksKeeps ==
  ASSUME LimboInv, StreamBreaks
  PROVE  LimboInv'
<1>1. engine \in Agreed(denied) /\ server' = server /\ denied' = denied
  BY DEF LimboInv, EngineInv, StreamBreaks
<1>2. engine' = WithHearing(engine, {}, engine.awaited, engine.news)
  BY <1>1, EngineFields DEF StreamBreaks, WithHearing, Engine
<1>3. /\ engine' \in Agreed(denied) /\ engine'.news = engine.news /\ Viewed(engine') = Viewed(engine)
      /\ engine'.current = engine.current /\ engine'.limbo = engine.limbo /\ engine'.synced = engine.synced
      /\ engine'.cache = engine.cache /\ engine'.watched = engine.watched
  <2>1. /\ {} \in SUBSET engine.watched /\ engine.awaited \in SUBSET Ids
        /\ engine.news \in [Views -> SUBSET Docs]
    BY <1>1, EngineFields
  <2> QED
    BY <1>1, <1>2, <2>1, OtherHearing
<1>4. EngineInv(engine', server, denied)
  BY <1>3 DEF LimboInv, EngineInv, LimboOfViews, LimboIsRest, KnowsServer, Results
<1> QED
  BY <1>1, <1>4 DEF LimboInv

\* Offline no view is current; what was in limbo stays referenced.
LEMMA GoOfflineKeeps ==
  ASSUME LimboInv, GoOffline
  PROVE  LimboInv'
<1>1. engine \in Agreed(denied) /\ server' = server /\ denied' = denied
  BY DEF LimboInv, EngineInv, GoOffline
<1>2. /\ engine.cache \in SUBSET Docs /\ engine.news \in [Views -> SUBSET Docs]
      /\ engine.synced \in [Views -> SUBSET Docs] /\ engine.limbo \in [Views -> SUBSET Docs]
      /\ engine \in Engine /\ engine \in Good(denied) /\ {} \in SUBSET Views
  BY <1>1, EngineFields
<1>3. engine' = WithViews(engine, engine.synced, engine.limbo, {}, engine.cache, engine.news)
  BY <1>2 DEF GoOffline, WithViews, Engine
<1>4. /\ engine' \in Good(denied) /\ engine'.synced = engine.synced /\ engine'.limbo = engine.limbo
      /\ engine'.current = {} /\ engine'.cache = engine.cache /\ engine'.news = engine.news
      /\ engine'.refs = engine.refs /\ engine'.watched = engine.watched
  BY <1>2, <1>3, OtherViews
<1>5. engine' \in Agreed(denied)
  BY <1>1, <1>4 DEF Agreed, RefsOf
<1>6. EngineInv(engine', server, denied)
  BY <1>4, <1>5 DEF LimboInv, EngineInv, LimboOfViews, LimboIsRest, KnowsServer
<1> QED
  BY <1>1, <1>6 DEF LimboInv

\* A document that changes is news to every target of a query it answers.
LEMMA ServerChangeKeeps ==
  ASSUME LimboInv, NEW key \in Docs, ServerChange(key)
  PROVE  LimboInv'
<1> DEFINE N == [q \in Views |-> engine.news[q] \cup ({key} \cap Matching[q])]
           W == engine.awaited \cup {r[2] : r \in {s \in engine.resolutions : s[1] = key}}
<1>1. /\ engine \in Agreed(denied) /\ denied' = denied /\ server' \subseteq Docs
      /\ \A k : k # key => (k \in server' <=> k \in server)
  BY DEF LimboInv, EngineInv, ServerChange
<1>2. engine' = WithHearing(engine, engine.heard, W, N)
  <2>1. engine' = [engine EXCEPT !.news = N, !.awaited = W]
    BY DEF ServerChange
  <2> HIDE DEF N, W
  <2> QED
    BY <1>1, <2>1, EngineFields DEF WithHearing, Engine
<1>3. N \in [Views -> SUBSET Docs] /\ W \in SUBSET Ids
  <2>1. engine.news \in [Views -> SUBSET Docs] /\ engine.awaited \in SUBSET Ids /\ engine.resolutions \in SUBSET (Docs \X Ids)
    BY <1>1, EngineFields
  <2>2. N \in [Views -> SUBSET Docs]
    BY <2>1
  <2>3. W \in SUBSET Ids
    BY <2>1
  <2> QED
    BY <2>2, <2>3
<1> HIDE DEF W
<1>4. /\ engine' \in Agreed(denied) /\ engine'.news = N /\ Viewed(engine') = Viewed(engine)
      /\ engine'.current = engine.current /\ engine'.limbo = engine.limbo /\ engine'.synced = engine.synced
      /\ engine'.cache = engine.cache /\ engine'.watched = engine.watched
  <2>1. engine.heard \in SUBSET engine.watched
    BY <1>1, EngineFields DEF Sane
  <2> HIDE DEF N
  <2> QED
    BY <1>1, <1>2, <1>3, <2>1, OtherHearing
<1>5. KnowsServer(engine', server', denied)
  <2>1. ASSUME NEW q \in Views PROVE engine'.synced[q] \subseteq Matching[q]
    BY <1>4 DEF LimboInv, EngineInv, KnowsServer
  <2>2. ASSUME NEW q \in Views, NEW k \in Matching[q] \ engine'.news[q]
        PROVE  /\ k \in engine'.synced[q] <=> k \in server'
               /\ k \in server' => k \in engine'.cache \/ k \in denied
    <3>1. k # key /\ k \in Matching[q] \ engine.news[q]
      BY <1>4, <2>2
    <3> QED
      BY <1>1, <1>4, <3>1 DEF LimboInv, EngineInv, KnowsServer
  <2> QED
    BY <2>1, <2>2 DEF KnowsServer
<1>6. EngineInv(engine', server', denied)
  BY <1>4, <1>5 DEF LimboInv, EngineInv, LimboOfViews, LimboIsRest, Results
<1> QED
  BY <1>1, <1>6 DEF LimboInv

-----------------------------------------------------------------------------
\* What a snapshot says is true of the server.
LEMMA SnapshotIsTrue ==
  ASSUME LimboInv, NEW T
  PROVE  /\ Existing(T) \in SUBSET Docs /\ Gone(T) \cap server = {}
         /\ \A q \in T \cap Views : AddedTo(q) \subseteq Existing(T)
         /\ \A q \in Views : AddedTo(q) \in SUBSET Docs /\ LeftFrom(q) \in SUBSET Docs
<1>1. engine \in Agreed(denied) /\ server \subseteq Docs
  BY DEF LimboInv, EngineInv
<1>2. engine.news \in [Views -> SUBSET Docs]
  BY <1>1, EngineFields
<1>3. \A q \in Views : AddedTo(q) \in SUBSET Docs /\ LeftFrom(q) \in SUBSET Docs
  BY <1>1, <1>2 DEF AddedTo, LeftFrom
<1>4. Existing(T) \in SUBSET Docs
  <2>1. ASSUME NEW key \in Existing(T) PROVE key \in Docs
    <3> DEFINE A == {AddedTo(q) : q \in T \cap Views}
               B == {Key(id) \cap server : id \in T \cap Ids}
    <3>1. (\E X \in A : key \in X) \/ (\E X \in B : key \in X)
      <4>1. Existing(T) = (UNION A) \cup (UNION B)
        BY DEF Existing
      <4> HIDE DEF A, B
      <4> QED
        BY <2>1, <4>1
    <3>2. ASSUME NEW X \in A PROVE X \subseteq Docs
      BY <1>3
    <3>3. ASSUME NEW X \in B PROVE X \subseteq Docs
      BY <1>1
    <3> QED
      BY <3>1, <3>2, <3>3
  <2> QED
    BY <2>1
<1>5. Gone(T) \cap server = {}
  <2>1. ASSUME NEW key \in Gone(T) PROVE key \notin server
    <3> DEFINE A == {LeftFrom(q) : q \in T \cap Views}
               B == {Key(id) \ server : id \in T \cap Ids}
    <3>1. (\E X \in A : key \in X) \/ (\E X \in B : key \in X)
      <4>1. Gone(T) = (UNION A) \cup (UNION B)
        BY DEF Gone
      <4> HIDE DEF A, B
      <4> QED
        BY <2>1, <4>1
    <3>2. ASSUME NEW X \in A PROVE X \cap server = {}
      BY DEF LeftFrom
    <3>3. ASSUME NEW X \in B PROVE X \cap server = {}
      OBVIOUS
    <3> QED
      BY <3>1, <3>2, <3>3
  <2> QED
    BY <2>1
<1>6. \A q \in T \cap Views : AddedTo(q) \subseteq Existing(T)
  BY DEF Existing
<1> QED
  BY <1>3, <1>4, <1>5, <1>6

\* What a snapshot says to a view is about documents.
LEMMA ChangeIsTyped ==
  ASSUME NEW q, AddedTo(q) \in SUBSET Docs, LeftFrom(q) \in SUBSET Docs
  PROVE  Change(q, TRUE) \in [added : SUBSET Docs, removed : SUBSET Docs, current : BOOLEAN]
BY DEF Change

\* A target that is told all its news knows the server's documents.
LEMMA AllIsLearnt ==
  ASSUME LimboInv, NEW q \in Views, NEW c, NEW e,
         q \in DOMAIN e.change, e.change[q] = Change(q, TRUE), AddedTo(q) \subseteq e.exists
  PROVE  Learnt(engine, c, server, e, q)
<1>1. NewSynced(engine, e, q) = (engine.synced[q] \cup AddedTo(q)) \ LeftFrom(q)
  BY DEF NewSynced, Change
<1>2. engine.synced[q] \subseteq Matching[q]
  BY DEF LimboInv, EngineInv, KnowsServer
<1>3. NewSynced(engine, e, q) \subseteq Matching[q]
  BY <1>1, <1>2 DEF AddedTo
<1>4. ASSUME NEW key \in Matching[q], key \notin engine.news[q]
      PROVE  key \in NewSynced(engine, e, q) <=> key \in engine.synced[q]
  BY <1>1, <1>4 DEF AddedTo, LeftFrom
<1>5. ASSUME NEW key \in Matching[q], key \in engine.news[q]
      PROVE  (key \in NewSynced(engine, e, q) <=> key \in server) /\ (key \in server => key \in e.exists)
  BY <1>1, <1>5 DEF AddedTo, LeftFrom
<1> QED
  BY <1>3, <1>4, <1>5 DEF Learnt

\* A target that is told nothing knows what it knew.
LEMMA NothingIsLearnt ==
  ASSUME LimboInv, NEW q \in Views, NEW c, c.news[q] = engine.news[q], NEW e, q \notin DOMAIN e.change
  PROVE  Learnt(engine, c, server, e, q)
<1>1. engine.synced[q] \subseteq Matching[q] /\ NewSynced(engine, e, q) = engine.synced[q]
  BY DEF LimboInv, EngineInv, KnowsServer, NewSynced
<1> QED
  BY <1>1 DEF Learnt

\* Hear, and what it leaves to a target that has news to come
LEMMA HearContract ==
  ASSUME LimboInv, NEW T \in SUBSET engine.watched
  PROVE  /\ Hear(T) \in Agreed(denied) /\ Viewed(Hear(T)) = Viewed(engine)
         /\ Hear(T).current = engine.current /\ Hear(T).limbo = engine.limbo
         /\ Hear(T).synced = engine.synced /\ Hear(T).cache = engine.cache
         /\ Hear(T).news = [q \in Views |-> IF q \in T THEN {} ELSE engine.news[q]]
<1> DEFINE N == [q \in Views |-> IF q \in T THEN {} ELSE engine.news[q]]
           W == engine.awaited \ T
<1>1. engine \in Agreed(denied)
  BY DEF LimboInv, EngineInv
<1>2. Hear(T) = WithHearing(engine, T, W, N)
  BY DEF Hear, WithHearing
<1>3. N \in [Views -> SUBSET Docs] /\ W \in SUBSET Ids
  BY <1>1, EngineFields
<1> HIDE DEF N, W
<1>4. /\ Hear(T) \in Agreed(denied) /\ Hear(T).news = N /\ Viewed(Hear(T)) = Viewed(engine)
      /\ Hear(T).current = engine.current /\ Hear(T).limbo = engine.limbo
      /\ Hear(T).synced = engine.synced /\ Hear(T).cache = engine.cache
  <2> DEFINE x == Hear(T)
  <2>1. x = WithHearing(engine, T, W, N)
    BY <1>2
  <2> HIDE DEF x
  <2>2. /\ x \in Agreed(denied) /\ x.news = N /\ Viewed(x) = Viewed(engine)
        /\ x.current = engine.current /\ x.limbo = engine.limbo /\ x.synced = engine.synced /\ x.cache = engine.cache
    BY <1>1, <1>3, <2>1, OtherHearing
  <2> QED
    BY <2>2 DEF x
<1> QED
  BY <1>4 DEF N

\* Hear, and then other news for one target
HearOther(T, q, M) == [Hear(T) EXCEPT !.news[q] = M]

\* What is heard when a target has got only a part of its news, or is reset.
LEMMA HearBut ==
  ASSUME LimboInv, NEW T \in SUBSET engine.watched, NEW q \in Views, NEW M \in SUBSET Docs,
         NEW c, c = HearOther(T, q, M)
  PROVE  /\ c \in Agreed(denied) /\ Viewed(c) = Viewed(engine)
         /\ c.current = engine.current /\ c.limbo = engine.limbo
         /\ c.synced = engine.synced /\ c.cache = engine.cache
         /\ c.news[q] = M
         /\ \A p \in Views \ {q} : c.news[p] = IF p \in T THEN {} ELSE engine.news[p]
<1> DEFINE x == Hear(T)
           N == [x.news EXCEPT ![q] = M]
<1>1. /\ x \in Agreed(denied) /\ Viewed(x) = Viewed(engine)
      /\ x.current = engine.current /\ x.limbo = engine.limbo
      /\ x.synced = engine.synced /\ x.cache = engine.cache
      /\ x.news = [p \in Views |-> IF p \in T THEN {} ELSE engine.news[p]]
  BY HearContract
<1> HIDE DEF x
<1>2. /\ x \in Engine /\ x.heard \in SUBSET x.watched /\ x.awaited \in SUBSET Ids /\ x.news \in [Views -> SUBSET Docs]
  BY <1>1, EngineFields DEF Sane
<1>3. N \in [Views -> SUBSET Docs] /\ N[q] = M /\ \A p \in Views \ {q} : N[p] = x.news[p]
  BY <1>2
<1>4. c = [x EXCEPT !.news = N]
  BY <1>2 DEF x, HearOther
<1> HIDE DEF N
<1>5. c = WithHearing(x, x.heard, x.awaited, N)
  BY <1>2, <1>4 DEF WithHearing, Engine
<1>6. /\ c \in Agreed(denied) /\ c.news = N /\ Viewed(c) = Viewed(x)
      /\ c.current = x.current /\ c.limbo = x.limbo /\ c.synced = x.synced /\ c.cache = x.cache
  <2> DEFINE H == x.heard
             W == x.awaited
  <2>1. /\ x \in Agreed(denied) /\ H \in SUBSET x.watched /\ W \in SUBSET Ids
        /\ N \in [Views -> SUBSET Docs] /\ c = WithHearing(x, H, W, N)
    BY <1>1, <1>2, <1>3, <1>5
  <2> HIDE DEF H, W
  <2> QED
    BY ONLY <2>1, OtherHearing
<1> QED
  BY <1>1, <1>3, <1>6

\* A snapshot of a target that is current, or becomes so
LEMMA SnapshotKeeps ==
  ASSUME LimboInv, NEW T \in SUBSET engine.watched, Snapshot(T)
  PROVE  LimboInv'
<1>0. server' = server /\ denied' = denied /\ EngineInv(engine, server, denied)
  BY DEF LimboInv, Snapshot
<1> DEFINE f == [q \in T \cap Views |-> Change(q, TRUE)]
           e == [exists |-> Existing(T), gone |-> Gone(T), change |-> f]
           c == Hear(T)
<1>1. PICK order \in SetToSeqs(Viewed(engine)) : engine' = ApplyRemoteEvent(c, e, order)
  BY DEF Snapshot, Orders
<1>2. /\ c \in Agreed(denied) /\ Viewed(c) = Viewed(engine) /\ c.current = engine.current
      /\ c.limbo = engine.limbo /\ c.synced = engine.synced /\ c.cache = engine.cache
      /\ c.news = [q \in Views |-> IF q \in T THEN {} ELSE engine.news[q]]
  BY HearContract
<1>3. /\ Existing(T) \in SUBSET Docs /\ Gone(T) \cap server = {}
      /\ \A q \in T \cap Views : AddedTo(q) \subseteq Existing(T)
      /\ \A q \in Views : AddedTo(q) \in SUBSET Docs /\ LeftFrom(q) \in SUBSET Docs
  BY SnapshotIsTrue
<1>4. e.exists = Existing(T) /\ e.gone = Gone(T) /\ e.change = f
      /\ DOMAIN f = T \cap Views /\ \A q \in T \cap Views : f[q] = Change(q, TRUE)
  OBVIOUS
<1> HIDE DEF c, e, f
<1>5. IsEvent(e)
  BY <1>3, <1>4, ChangeIsTyped DEF IsEvent
<1>6. DOMAIN e.change \subseteq Viewed(engine)
  BY <1>4 DEF Viewed
<1>7. ASSUME NEW q \in Views PROVE Learnt(engine, c, server, e, q)
  <2>1. CASE q \in T
    BY <1>3, <1>4, <2>1, AllIsLearnt
  <2>2. CASE q \notin T
    <3>1. c.news[q] = engine.news[q] /\ q \notin DOMAIN e.change
      BY <1>2, <1>4, <2>2
    <3> QED
      BY <3>1, NothingIsLearnt
  <2> QED
    BY <2>1, <2>2
<1>8. e.exists \in SUBSET Docs /\ e.gone \cap server \subseteq denied
  BY <1>3, <1>4
<1>9. EngineInv(engine', server, denied)
  BY <1>0, <1>1, <1>2, <1>5, <1>6, <1>7, <1>8, EventKeeps
<1> QED
  BY <1>0, <1>9 DEF LimboInv

\* A snapshot that comes while one target has got only some of its documents
LEMMA PartialSnapshotKeeps ==
  ASSUME LimboInv, NEW q \in Views, NEW some, PartialSnapshot(q, some)
  PROVE  LimboInv'
<1>0. /\ server' = server /\ denied' = denied /\ EngineInv(engine, server, denied)
      /\ q \in engine.watched \ engine.heard /\ some \subseteq AddedTo(q)
  BY DEF LimboInv, PartialSnapshot
<1> DEFINE T == engine.heard
           f == [p \in (T \cap Views) \cup {q} |->
                  IF p = q THEN [added |-> some, removed |-> {}, current |-> FALSE] ELSE Change(p, TRUE)]
           e == [exists |-> Existing(T) \cup some, gone |-> Gone(T), change |-> f]
           M == Hear(T).news[q] \ some
           c == HearOther(T, q, M)
<1>1. PICK order \in SetToSeqs(Viewed(engine)) : engine' = ApplyRemoteEvent(c, e, order)
  BY DEF PartialSnapshot, Orders, HearOther
<1>a. T \in SUBSET engine.watched
  BY <1>0, EngineFields DEF EngineInv, Sane
<1>b. engine.news \in [Views -> SUBSET Docs] /\ Hear(T).news[q] = engine.news[q] /\ M \in SUBSET Docs
  <2>1. engine.news \in [Views -> SUBSET Docs]
    BY <1>0, EngineFields DEF EngineInv
  <2>2. Hear(T).news = [p \in Views |-> IF p \in T THEN {} ELSE engine.news[p]]
    BY <1>a, HearContract
  <2> QED
    BY <1>0, <2>1, <2>2
<1> HIDE DEF M
<1>2. /\ c \in Agreed(denied) /\ Viewed(c) = Viewed(engine) /\ c.current = engine.current
      /\ c.limbo = engine.limbo /\ c.synced = engine.synced /\ c.cache = engine.cache
      /\ c.news[q] = M
      /\ \A p \in Views \ {q} : c.news[p] = IF p \in T THEN {} ELSE engine.news[p]
  <2> HIDE DEF T
  <2> QED
    BY <1>a, <1>b, HearBut
<1>3. /\ Existing(T) \in SUBSET Docs /\ Gone(T) \cap server = {}
      /\ \A p \in T \cap Views : AddedTo(p) \subseteq Existing(T)
      /\ \A p \in Views : AddedTo(p) \in SUBSET Docs /\ LeftFrom(p) \in SUBSET Docs
  BY SnapshotIsTrue
<1>4. /\ e.exists = Existing(T) \cup some /\ e.gone = Gone(T) /\ e.change = f
      /\ DOMAIN f = (T \cap Views) \cup {q}
      /\ f[q] = [added |-> some, removed |-> {}, current |-> FALSE]
      /\ \A p \in (T \cap Views) \ {q} : f[p] = Change(p, TRUE)
  OBVIOUS
<1> HIDE DEF c, e, f
<1>5. IsEvent(e)
  <2>1. f[q] \in [added : SUBSET Docs, removed : SUBSET Docs, current : BOOLEAN]
    BY <1>0, <1>3, <1>4
  <2>2. ASSUME NEW p \in (T \cap Views) \ {q}
        PROVE  f[p] \in [added : SUBSET Docs, removed : SUBSET Docs, current : BOOLEAN]
    <3>1. f[p] = Change(p, TRUE) /\ AddedTo(p) \in SUBSET Docs /\ LeftFrom(p) \in SUBSET Docs
      BY <1>3, <1>4
    <3> QED
      BY <3>1, ChangeIsTyped
  <2> QED
    BY <1>4, <2>1, <2>2 DEF IsEvent
<1>6. DOMAIN e.change \subseteq Viewed(engine)
  BY <1>0, <1>a, <1>4 DEF Viewed
<1>7. ASSUME NEW p \in Views PROVE Learnt(engine, c, server, e, p)
  <2>1. CASE p = q
    <3>1. NewSynced(engine, e, q) = engine.synced[q] \cup some
      BY <1>4 DEF NewSynced
    <3>2. engine.synced[q] \subseteq Matching[q] /\ some \subseteq engine.news[q] \cap server \cap Matching[q]
      BY <1>0 DEF EngineInv, KnowsServer, AddedTo
    <3>3. c.news[q] = engine.news[q] \ some
      BY <1>2, <1>b DEF M
    <3> QED
      BY <1>4, <2>1, <3>1, <3>2, <3>3 DEF Learnt
  <2>2. CASE p # q /\ p \in T
    <3>1. p \in DOMAIN e.change /\ e.change[p] = Change(p, TRUE) /\ AddedTo(p) \subseteq e.exists
      BY <1>3, <1>4, <2>2
    <3> QED
      BY <3>1, AllIsLearnt
  <2>3. CASE p # q /\ p \notin T
    <3>1. c.news[p] = engine.news[p] /\ p \notin DOMAIN e.change
      BY <1>2, <1>4, <2>3
    <3> QED
      BY <3>1, NothingIsLearnt
  <2> QED
    BY <2>1, <2>2, <2>3
<1>8. e.exists \in SUBSET Docs /\ e.gone \cap server \subseteq denied
  BY <1>0, <1>3, <1>4
<1>9. EngineInv(engine', server, denied)
  BY <1>0, <1>1, <1>2, <1>5, <1>6, <1>7, <1>8, EventKeeps
<1> QED
  BY <1>0, <1>9 DEF LimboInv

\* A target whose keys are forgotten has everything to hear.
LEMMA ExistenceFilterMismatchKeeps ==
  ASSUME LimboInv, NEW q \in Views, ExistenceFilterMismatch(q)
  PROVE  LimboInv'
<1>0. /\ server' = server /\ denied' = denied /\ EngineInv(engine, server, denied)
      /\ q \in engine.watched \ engine.heard
  BY DEF LimboInv, ExistenceFilterMismatch
<1> DEFINE T == engine.heard
           f == [p \in (T \cap Views) \cup {q} |->
                  IF p = q THEN [added |-> {}, removed |-> engine.synced[q], current |-> FALSE]
                  ELSE Change(p, TRUE)]
           e == [exists |-> Existing(T) \cup AddedTo(q), gone |-> Gone(T), change |-> f]
           c == HearOther(T, q, Matching[q])
<1>1. PICK order \in SetToSeqs(Viewed(engine)) : engine' = ApplyRemoteEvent(c, e, order)
  BY DEF ExistenceFilterMismatch, Orders, HearOther
<1>a. T \in SUBSET engine.watched
  BY <1>0, EngineFields DEF EngineInv, Sane
<1>b. Matching[q] \in SUBSET Docs /\ engine.synced[q] \in SUBSET Docs
  BY <1>0, EngineFields, LimboAssumption DEF EngineInv
<1>2. /\ c \in Agreed(denied) /\ Viewed(c) = Viewed(engine) /\ c.current = engine.current
      /\ c.limbo = engine.limbo /\ c.synced = engine.synced /\ c.cache = engine.cache
      /\ c.news[q] = Matching[q]
      /\ \A p \in Views \ {q} : c.news[p] = IF p \in T THEN {} ELSE engine.news[p]
  <2> HIDE DEF T
  <2> QED
    BY <1>a, <1>b, HearBut
<1>3. /\ Existing(T) \in SUBSET Docs /\ Gone(T) \cap server = {}
      /\ \A p \in T \cap Views : AddedTo(p) \subseteq Existing(T)
      /\ \A p \in Views : AddedTo(p) \in SUBSET Docs /\ LeftFrom(p) \in SUBSET Docs
  BY SnapshotIsTrue
<1>4. /\ e.exists = Existing(T) \cup AddedTo(q) /\ e.gone = Gone(T) /\ e.change = f
      /\ DOMAIN f = (T \cap Views) \cup {q}
      /\ f[q] = [added |-> {}, removed |-> engine.synced[q], current |-> FALSE]
      /\ \A p \in (T \cap Views) \ {q} : f[p] = Change(p, TRUE)
  OBVIOUS
<1> HIDE DEF c, e, f
<1>5. IsEvent(e)
  <2>1. f[q] \in [added : SUBSET Docs, removed : SUBSET Docs, current : BOOLEAN]
    BY <1>b, <1>4
  <2>2. ASSUME NEW p \in (T \cap Views) \ {q}
        PROVE  f[p] \in [added : SUBSET Docs, removed : SUBSET Docs, current : BOOLEAN]
    <3>1. f[p] = Change(p, TRUE) /\ AddedTo(p) \in SUBSET Docs /\ LeftFrom(p) \in SUBSET Docs
      BY <1>3, <1>4
    <3> QED
      BY <3>1, ChangeIsTyped
  <2> QED
    BY <1>4, <2>1, <2>2 DEF IsEvent
<1>6. DOMAIN e.change \subseteq Viewed(engine)
  BY <1>0, <1>a, <1>4 DEF Viewed
<1>7. ASSUME NEW p \in Views PROVE Learnt(engine, c, server, e, p)
  <2>1. CASE p = q
    <3>1. NewSynced(engine, e, q) = {}
      BY <1>4 DEF NewSynced
    <3> QED
      BY <1>2, <2>1, <3>1 DEF Learnt
  <2>2. CASE p # q /\ p \in T
    <3>1. p \in DOMAIN e.change /\ e.change[p] = Change(p, TRUE) /\ AddedTo(p) \subseteq e.exists
      BY <1>3, <1>4, <2>2
    <3> QED
      BY <3>1, AllIsLearnt
  <2>3. CASE p # q /\ p \notin T
    <3>1. c.news[p] = engine.news[p] /\ p \notin DOMAIN e.change
      BY <1>2, <1>4, <2>3
    <3> QED
      BY <3>1, NothingIsLearnt
  <2> QED
    BY <2>1, <2>2, <2>3
<1>8. e.exists \in SUBSET Docs /\ e.gone \cap server \subseteq denied
  BY <1>3, <1>4
<1>9. EngineInv(engine', server, denied)
  BY <1>0, <1>1, <1>2, <1>5, <1>6, <1>7, <1>8, EventKeeps
<1> QED
  BY <1>0, <1>9 DEF LimboInv

\* The engine without one of its resolutions, before the queue is looked at
Rejected(c, id, keys) ==
  [c EXCEPT !.watched = c.watched \ {id}, !.heard = c.heard \ {id}, !.awaited = c.awaited \ {id},
            !.active = {a \in c.active : a[1] \notin keys},
            !.resolutions = {r \in c.resolutions : r[2] # id}]

\* A limbo target the server rejected: its document is in denied, so its references need no resolution.
LEMMA RejectedContract ==
  ASSUME NEW D, NEW c \in Agreed(D), NEW id \in Ids, NEW keys, keys = {r[1] : r \in {s \in c.resolutions : s[2] = id}},
         NEW d, d = PumpEnqueuedLimboResolutions(Rejected(c, id, keys))
  PROVE  d \in Agreed(D \cup keys) /\ ViewsKept(c, d)
<1> DEFINE w == Rejected(c, id, keys)
           A == {a \in c.active : a[1] \notin keys}
           R == {r \in c.resolutions : r[2] # id}
<1>1. /\ c \in Engine /\ c \in Sane /\ RefsOf(c) /\ c.refs \in SUBSET (Docs \X Views)
      /\ c.watched \in SUBSET Targets /\ c.heard \in SUBSET Targets /\ c.awaited \in SUBSET Ids
      /\ c.active \in SUBSET (Docs \X Ids) /\ c.resolutions \in SUBSET (Docs \X Ids)
  BY EngineFields
<1>2. /\ IsFiniteSet(c.watched) /\ IsFiniteSet(c.active)
      /\ Cardinality(c.active) <= MaxConcurrent /\ c.heard \subseteq c.watched
      /\ c.watched \cap Ids = {r[2] : r \in c.resolutions}
      /\ c.active \subseteq c.resolutions
      /\ \A r, s \in c.resolutions : r[2] = s[2] => r = s
  BY <1>1 DEF Sane
<1>3. /\ A \in SUBSET (Docs \X Ids) /\ R \in SUBSET (Docs \X Ids) /\ A \in SUBSET c.active
      /\ c.watched \ {id} \in SUBSET Targets /\ c.heard \ {id} \in SUBSET Targets /\ c.awaited \ {id} \in SUBSET Ids
  BY <1>1
<1>4. A \subseteq R
  <2>1. ASSUME NEW a \in A, a[2] = id PROVE FALSE
    BY <1>2, <2>1
  <2> QED
    BY <1>2, <2>1
<1>5. {r[2] : r \in R} = {r[2] : r \in c.resolutions} \ {id}
  OBVIOUS
<1>6. w = [c EXCEPT !.watched = c.watched \ {id}, !.heard = c.heard \ {id}, !.awaited = c.awaited \ {id},
                    !.active = A, !.resolutions = R]
  BY DEF Rejected
<1>7. \A a \in c.active : a[1] \notin keys => a \in A
  OBVIOUS
<1> HIDE DEF A, R, w
<1>8. /\ w \in Engine /\ w.cache = c.cache /\ w.watched = c.watched \ {id} /\ w.heard = c.heard \ {id}
      /\ w.news = c.news /\ w.current = c.current /\ w.synced = c.synced /\ w.limbo = c.limbo
      /\ w.refs = c.refs /\ w.enqueued = c.enqueued /\ w.active = A /\ w.resolutions = R
  BY <1>1, <1>3, <1>6 DEF Engine
<1>9. w \in Sane
  <2>1. w.watched \in SUBSET c.watched
    BY <1>8
  <2>2. IsFiniteSet(w.watched) /\ IsFiniteSet(w.active) /\ Cardinality(w.active) <= Cardinality(c.active)
    BY <1>2, <1>3, <1>8, <2>1, FS_Subset
  <2>3. Cardinality(w.active) \in Nat /\ Cardinality(c.active) \in Nat
    BY <1>2, <2>2, FS_CardinalityType
  <2>4. Cardinality(w.active) <= MaxConcurrent
    BY <1>2, <2>2, <2>3, LimboAssumption
  <2>5. w.watched \cap Ids = {r[2] : r \in w.resolutions}
    BY <1>2, <1>5, <1>8
  <2>6. w.heard \subseteq w.watched
    BY <1>2, <1>8
  <2>7. \A r, s \in w.resolutions : r[2] = s[2] => r = s
    BY <1>2, <1>8 DEF R
  <2> QED
    BY <1>4, <1>8, <2>2, <2>4, <2>5, <2>6, <2>7 DEF Sane
<1>10. d \in Sane /\ Full(d) /\ Onwards(w, d)
  BY <1>9, PumpEnqueuedContract DEF w
<1>11. ViewsKept(c, w)
  <2>1. Viewed(w) = Viewed(c)
    BY <1>8, LimboAssumption DEF Viewed
  <2> QED
    BY <1>8, <2>1 DEF ViewsKept
<1>12. ViewsKept(c, d) /\ d.refs = c.refs
  BY <1>8, <1>10, <1>11 DEF Onwards, ViewsKept
<1>13. ASSUME NEW r \in d.refs PROVE r[1] \in D \cup keys \/ Tracked(d, r[1])
  <2>1. r[1] \in Docs /\ (r[1] \in D \/ Tracked(c, r[1]))
    BY <1>1, <1>12, <1>13 DEF Agreed, Good
  <2>2. ASSUME Tracked(c, r[1]), r[1] \notin keys PROVE Tracked(w, r[1])
    BY <1>7, <1>8, <2>2 DEF Tracked, IsActive, Waits
  <2>3. Tracked(w, r[1]) => Tracked(d, r[1])
    BY <1>10, <2>1 DEF Onwards
  <2> QED
    BY <2>1, <2>2, <2>3
<1>14. RefsOf(d)
  BY <1>1, <1>12 DEF RefsOf, ViewsKept
<1> QED
  BY <1>10, <1>12, <1>13, <1>14 DEF Agreed, Good, Settled

\* A document whose target is rejected is dropped, and is denied from then on.
LEMMA LimboRejectedKeeps ==
  ASSUME LimboInv, NEW id, LimboRejected(id)
  PROVE  LimboInv'
<1>0. /\ server' = server /\ denied' = denied \cup Key(id) /\ EngineInv(engine, server, denied)
      /\ server \subseteq Docs /\ denied \subseteq Docs /\ id \in Ids /\ engine \in Agreed(denied)
  BY DEF LimboInv, LimboRejected, EngineInv
<1>1. Key(id) \subseteq Docs
  <2>1. engine.resolutions \in SUBSET (Docs \X Ids)
    BY <1>0, EngineFields
  <2> QED
    BY <2>1 DEF Key
<1> DEFINE c == PumpEnqueuedLimboResolutions(Rejected(engine, id, Key(id)))
           e == [exists |-> {}, gone |-> Key(id), change |-> <<>>]
           E == denied \cup Key(id)
<1>2. PICK order \in SetToSeqs(Viewed(engine)) : engine' = ApplyRemoteEvent(c, e, order)
  BY DEF LimboRejected, Orders, Rejected
<1>3. c \in Agreed(E) /\ ViewsKept(engine, c)
  BY <1>0, RejectedContract DEF Key
<1>4. e.exists = {} /\ e.gone = Key(id) /\ DOMAIN e.change = {}
  OBVIOUS
<1> HIDE DEF c, e
<1>5. IsEvent(e)
  BY <1>4 DEF IsEvent
<1>6. /\ Viewed(c) = Viewed(engine) /\ c.current = engine.current /\ c.limbo = engine.limbo
      /\ c.synced = engine.synced /\ c.cache = engine.cache /\ c.news = engine.news
  BY <1>3 DEF ViewsKept
<1>7. ASSUME NEW q \in Views PROVE Learnt(engine, c, server, e, q)
  BY <1>4, <1>6, NothingIsLearnt
<1>8. /\ denied \subseteq E /\ DOMAIN e.change \subseteq Viewed(engine)
      /\ e.exists \in SUBSET Docs /\ e.gone \cap server \subseteq E
  BY <1>4
<1> HIDE DEF E
<1>9. EngineInv(engine', server, E)
  BY <1>0, <1>2, <1>3, <1>5, <1>6, <1>7, <1>8, EventKeeps
<1> QED
  BY <1>0, <1>1, <1>9 DEF LimboInv, E

-----------------------------------------------------------------------------
\* Every step keeps the engine's invariant.
LEMMA NextKeepsLimbo ==
  ASSUME LimboInv, [LimboNext]_limboVars
  PROVE  LimboInv'
<1>1. ASSUME NEW q \in Views, Listen(q) PROVE LimboInv'
  BY <1>1, ListenKeeps
<1>2. ASSUME NEW q \in Views, StopListening(q) PROVE LimboInv'
  BY <1>2, DroppedKeeps DEF StopListening
<1>3. ASSUME NEW q \in Views, ExistenceFilterMismatch(q) PROVE LimboInv'
  BY <1>3, ExistenceFilterMismatchKeeps
<1>4. ASSUME NEW q \in Views, QueryRejected(q) PROVE LimboInv'
  BY <1>4, DroppedKeeps DEF QueryRejected
<1>5. ASSUME NEW q \in Views, NEW some \in SUBSET Docs, PartialSnapshot(q, some) PROVE LimboInv'
  BY <1>5, PartialSnapshotKeeps
<1>6. ASSUME NEW T \in SUBSET engine.watched, Snapshot(T) PROVE LimboInv'
  BY <1>6, SnapshotKeeps
<1>7. ASSUME NEW id \in engine.watched, LimboRejected(id) PROVE LimboInv'
  BY <1>7, LimboRejectedKeeps
<1>8. ASSUME NEW key \in Docs, ServerChange(key) PROVE LimboInv'
  BY <1>8, ServerChangeKeeps
<1>9. CASE StreamBreaks
  BY <1>9, StreamBreaksKeeps
<1>10. CASE GoOffline
  BY <1>10, GoOfflineKeeps
<1>11. CASE UNCHANGED limboVars
  <2>1. engine' = engine /\ server' = server /\ denied' = denied
    BY <1>11 DEF limboVars
  <2> QED
    BY <2>1 DEF LimboInv
<1> QED
  BY <1>1, <1>2, <1>3, <1>4, <1>5, <1>6, <1>7, <1>8, <1>9, <1>10, <1>11 DEF LimboNext

\* What the views, the references and the resolutions of the engine say agrees
\* after every operation of the queue, in whatever order an event reaches the views.
THEOREM LimboInvariant == LimboSpec => []LimboInv
<1>1. LimboInit => LimboInv
  BY InitKeepsLimbo
<1>2. LimboInv /\ [LimboNext]_limboVars => LimboInv'
  BY NextKeepsLimbo
<1> QED
  BY <1>1, <1>2, PTL DEF LimboSpec

\* The engine's books stay consistent: it resolves what its views have in
\* limbo, no more at a time than there are places, and what it resolves is watched.
THEOREM EngineAlwaysOK == LimboSpec => []EngineOK
<1>1. LimboInv => EngineOK
  <2> SUFFICES ASSUME LimboInv PROVE EngineOK
    OBVIOUS
  <2>1. engine \in Agreed(denied) /\ engine.current \subseteq Viewed(engine) /\ server \subseteq Docs /\ denied \subseteq Docs
    BY DEF LimboInv, EngineInv
  <2>2. engine \in Engine /\ engine \in Sane /\ RefsOf(engine)
    BY <2>1, EngineFields
  <2>3. EngineTypeOK
    BY <2>1, <2>2 DEF EngineTypeOK, Sane
  <2> QED
    BY <2>2, <2>3 DEF EngineOK, RefsAreLimbo, RefsOf, ResolutionsAreWatched, Sane
<1> QED
  BY <1>1, LimboInvariant, PTL

\* No document is left in limbo for a current view without being asked for or
\* waiting its turn while all places are taken, unless its target was rejected.
THEOREM LimboIsAlwaysResolved == LimboSpec => []LimboIsBeingResolved
<1>1. LimboInv => LimboIsBeingResolved
  <2> SUFFICES ASSUME LimboInv, NEW q \in engine.current, NEW key \in engine.limbo[q] \ denied
               PROVE  \/ IsActive(engine, key)
                      \/ /\ \E i \in DOMAIN engine.enqueued : engine.enqueued[i] = key
                         /\ Cardinality(engine.active) = MaxConcurrent
    BY DEF LimboIsBeingResolved
  <2>1. engine \in Agreed(denied)
    BY DEF LimboInv, EngineInv
  <2>2. /\ engine \in Good(denied) /\ engine \in Sane /\ Full(engine) /\ RefsOf(engine) /\ engine.current \in SUBSET Views
        /\ engine.limbo \in [Views -> SUBSET Docs] /\ engine.enqueued \in Seq(Docs)
    BY <2>1, EngineFields
  <2>3. <<key, q>> \in engine.refs
    BY <2>2 DEF RefsOf
  <2>4. Tracked(engine, key)
    BY <2>2, <2>3 DEF Good
  <2>5. CASE ~ IsActive(engine, key)
    <3>1. PICK i \in DOMAIN engine.enqueued : engine.enqueued[i] = key
      BY <2>4, <2>5 DEF Tracked, Waits
    <3>2. engine.enqueued # <<>>
      BY <3>1
    <3>3. Cardinality(engine.active) >= MaxConcurrent /\ Cardinality(engine.active) <= MaxConcurrent
      BY <2>2, <3>2 DEF Full, Sane
    <3>4. Cardinality(engine.active) \in Nat
      BY <2>2, FS_CardinalityType DEF Sane
    <3> QED
      BY <3>1, <3>3, <3>4, LimboAssumption
  <2> QED
    BY <2>5
<1> QED
  BY <1>1, LimboInvariant, PTL

\* A view that counts as synced, whose contents getDocuments gives as the
\* server's word, differs from the server only in what changed since it heard of it.
THEOREM SyncedIsAlwaysTrue == LimboSpec => []SyncedIsTrue
<1>1. LimboInv => SyncedIsTrue
  <2> SUFFICES ASSUME LimboInv, NEW q \in engine.current, engine.limbo[q] = {},
                      NEW key \in Matching[q] \ engine.news[q]
               PROVE  /\ key \in engine.cache => key \in server
                      /\ key \in server => key \in engine.cache \/ key \in denied
    BY DEF SyncedIsTrue
  <2>1. q \in Views
    BY DEF LimboInv, EngineInv, Viewed
  <2>2. (engine.cache \cap Matching[q]) \ engine.synced[q] = {}
    BY DEF LimboInv, EngineInv, LimboIsRest, Results
  <2>3. (key \in engine.synced[q] <=> key \in server) /\ (key \in server => key \in engine.cache \/ key \in denied)
    BY <2>1 DEF LimboInv, EngineInv, KnowsServer
  <2> QED
    BY <2>2, <2>3
<1> QED
  BY <1>1, LimboInvariant, PTL
=============================================================================
