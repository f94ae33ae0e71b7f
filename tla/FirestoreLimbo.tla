--------------------------- MODULE FirestoreLimbo ---------------------------
(***************************************************************************)
(* When may the Firestore client show a cached document?  A document that  *)
(* the cache has as a result of a query, and that the server, being        *)
(* current, does not name, is in limbo: SyncEngine asks for it alone, a    *)
(* bounded number at a time, and until it is told the query is answered    *)
(* from the cache.                                                         *)
(*                                                                         *)
(* Documents exist or not; which query a document answers does not change. *)
(* The client never writes.  All that the worker queue owns is one record; *)
(* a function of the code is an operator from that record to the next.     *)
(* LimboResolution::document_received is left out: it serves an assertion. *)
(* That what a snapshot adds and removes leaves the keys of a target right *)
(* is WatchChangeAggregator's part, taken here for granted.                *)
(***************************************************************************)
EXTENDS Integers, Sequences, FiniteSets, SequencesExt

CONSTANTS
  Docs,
  Views,            \* the app's queries; each has a view while it is listened to
  Matching,         \* the documents that answer each
  MaxConcurrent,    \* kMaxConcurrentLimboResolutions (100 in the code)
  MaxEdits,         \* bound: documents published or withdrawn
  MaxBreaks,        \* bound: streams that fail
  MaxRejections,    \* bound: targets the server rejects
  MaxStops          \* bound: listens that are ended

\* target ids of limbo resolutions
Ids == Nat \ {0}

ASSUME LimboAssumption ==
  /\ IsFiniteSet(Docs) /\ Views \cap Ids = {}
  /\ Matching \in [Views -> SUBSET Docs]
  /\ MaxConcurrent \in Nat \ {0}
  /\ {MaxEdits, MaxBreaks, MaxRejections, MaxStops} \subseteq Nat

VARIABLES
  engine,
  server,       \* the documents that exist
  denied,       \* history: documents the client dropped because their target was rejected
  edits, breaks, rejections, stops

limboVars == <<engine, server, denied, edits, breaks, rejections, stops>>

Targets == Views \cup Ids

Engine ==
  [cache : SUBSET Docs,                   \* remote documents of the local store
   watched : SUBSET Targets,              \* RemoteStore::listen_targets_
   heard : SUBSET Targets,                \* those the stream called CURRENT
   news : [Views -> SUBSET Docs],         \* what changed since a target's resume token
   awaited : SUBSET Ids,                  \* limbo targets the server has still to speak of
   current : SUBSET Views,                \* View::current_
   synced : [Views -> SUBSET Docs],       \* View::synced_documents_, and the target's keys on disk
   limbo : [Views -> SUBSET Docs],        \* View::limbo_documents_
   refs : SUBSET (Docs \X Views),         \* limbo_document_refs_
   enqueued : Seq(Docs),                  \* enqueued_limbo_resolutions_
   active : SUBSET (Docs \X Ids),         \* active_limbo_targets_by_key_
   resolutions : SUBSET (Docs \X Ids)]    \* active_limbo_resolutions_by_target_

Viewed(c) == c.watched \cap Views

\* the documents of a query's view; the queries of the app have no limit
Results(c, q) == c.cache \cap Matching[q]
IsActive(c, key) == \E a \in c.active : a[1] = key
IsReferenced(c, key) == \E q \in Views : <<key, q>> \in c.refs

-----------------------------------------------------------------------------
\* SyncEngine's limbo resolutions

\* the code counts on; here an id that is free again is reused
NextId(c) == CHOOSE i \in 1 .. Cardinality(c.watched) + 1 : i \notin c.watched

\* one turn of the loop
Pump(c) ==
  LET key == Head(c.enqueued)
      id  == NextId(c)
  IN IF c.enqueued = <<>> \/ Cardinality(c.active) >= MaxConcurrent THEN c
     ELSE [c EXCEPT !.enqueued = Tail(@),
                    !.resolutions = @ \cup {<<key, id>>},
                    !.active = IF IsActive(c, key) THEN @ ELSE @ \cup {<<key, id>>},
                    !.watched = @ \cup {id},
                    !.heard = @ \ {id},
                    !.awaited = @ \cup {id}]

PumpEnqueuedLimboResolutions(c) == FoldLeft(LAMBDA d, key : Pump(d), c, c.enqueued)

\* mutant: the queue is left for later
TrackLimboChangeOnly(c, key) ==
  IF IsActive(c, key) THEN c ELSE [c EXCEPT !.enqueued = Append(@, key)]

TrackLimboChange(c, key) ==
  IF IsActive(c, key) THEN c
  ELSE PumpEnqueuedLimboResolutions([c EXCEPT !.enqueued = Append(@, key)])

\* mutant: the place of a resolution that is over is not given to the next
RemoveLimboTargetOnly(c, key) ==
  LET mine == {a \in c.active : a[1] = key}
      ids  == {a[2] : a \in mine}
  IN [c EXCEPT !.active = @ \ mine, !.resolutions = {r \in @ : r[2] \notin ids},
               !.watched = @ \ ids, !.heard = @ \ ids, !.awaited = @ \ ids]

RemoveLimboTarget(c, key) ==
  LET mine == {a \in c.active : a[1] = key}
      ids  == {a[2] : a \in mine}
  IN IF mine = {} THEN c
     ELSE PumpEnqueuedLimboResolutions(
            [c EXCEPT !.active = @ \ mine,
                      !.resolutions = {r \in @ : r[2] \notin ids},
                      !.watched = @ \ ids,
                      !.heard = @ \ ids,
                      !.awaited = @ \ ids])

RemoveUnreferenced(c, key) == IF IsReferenced(c, key) THEN c ELSE RemoveLimboTarget(c, key)

LimboRemoved(c, key, q) == RemoveUnreferenced([c EXCEPT !.refs = @ \ {<<key, q>>}], key)
LimboAdded(c, key, q) == TrackLimboChange([c EXCEPT !.refs = @ \cup {<<key, q>>}], key)

UpdateTrackedLimboDocuments(c, q, removed, added) ==
  FoldLeft(LAMBDA d, key : LimboAdded(d, key, q),
           FoldLeft(LAMBDA d, key : LimboRemoved(d, key, q), c, SetToSeq(removed)),
           SetToSeq(added))

\* mutant: what the query leaves in limbo stays referenced
CleanupKeepingRefs(c, q) == c

\* the references of a target go first, then the resolutions nothing refers to
RemoveAndCleanupTarget(c, q) ==
  LET keys == {key \in Docs : <<key, q>> \in c.refs}
  IN FoldLeft(RemoveUnreferenced, [c EXCEPT !.refs = {r \in @ : r[2] # q}], SetToSeq(keys))

-----------------------------------------------------------------------------
\* View, LocalStore

\* only a current view can tell
UpdateLimboDocuments(c, q) ==
  LET old == c.limbo[q]
      new == Results(c, q) \ c.synced[q]
  IN IF q \notin c.current THEN c
     ELSE UpdateTrackedLimboDocuments([c EXCEPT !.limbo[q] = new], q, old \ new, new \ old)

\* event.change: of each query that hears something, what is added and removed, and whether it is current
ApplyTargetChange(c, q, event) ==
  IF q \notin DOMAIN event.change THEN c
  ELSE [c EXCEPT !.synced[q] = (@ \cup event.change[q].added) \ event.change[q].removed,
                 !.current = IF event.change[q].current THEN @ \cup {q} ELSE @ \ {q}]

\* the views take their turns in the order of a hash table
ApplyRemoteEvent(c, event, order) ==
  FoldLeft(LAMBDA d, q : UpdateLimboDocuments(ApplyTargetChange(d, q, event), q),
           [c EXCEPT !.cache = (@ \cup event.exists) \ event.gone], order)

Orders == SetToSeqs(Viewed(engine))

-----------------------------------------------------------------------------
\* WatchChangeAggregator: what a snapshot says to the targets T

Key(id) == {r[1] : r \in {s \in engine.resolutions : s[2] = id}}
AddedTo(q) == engine.news[q] \cap server \cap Matching[q]
LeftFrom(q) == (engine.news[q] \cap engine.synced[q]) \ server

Existing(T) ==
  (UNION {AddedTo(q) : q \in T \cap Views}) \cup (UNION {Key(id) \cap server : id \in T \cap Ids})

\* a document's own target is current without it: it does not exist
Gone(T) ==
  (UNION {LeftFrom(q) : q \in T \cap Views}) \cup (UNION {Key(id) \ server : id \in T \cap Ids})

Change(q, current) == [added |-> AddedTo(q), removed |-> LeftFrom(q), current |-> current]

Hear(T) ==
  [engine EXCEPT !.heard = T, !.awaited = @ \ T,
                 !.news = [q \in Views |-> IF q \in T THEN {} ELSE @[q]]]

-----------------------------------------------------------------------------
LimboInit ==
  /\ server \in SUBSET Docs
  /\ \E cache \in SUBSET Docs :
       engine = [cache |-> cache, watched |-> {}, heard |-> {},
                 news |-> Matching, awaited |-> {},
                 current |-> {}, synced |-> [q \in Views |-> {}], limbo |-> [q \in Views |-> {}],
                 refs |-> {}, enqueued |-> <<>>, active |-> {}, resolutions |-> {}]
  /\ denied = {}
  /\ edits = 0 /\ breaks = 0 /\ rejections = 0 /\ stops = 0

\* a new view is not current and knows the keys its target had when it was last listened to
Listen(q) ==
  /\ q \notin engine.watched
  /\ engine' = [engine EXCEPT !.watched = @ \cup {q}, !.limbo[q] = {}]
  /\ UNCHANGED <<server, denied, edits, breaks, rejections, stops>>

Dropped(q) == [engine EXCEPT !.watched = @ \ {q}, !.heard = @ \ {q}, !.current = @ \ {q}, !.limbo[q] = {}]

StopListening(q) ==
  /\ q \in engine.watched
  /\ stops < MaxStops /\ stops' = stops + 1
  /\ engine' = RemoveAndCleanupTarget(Dropped(q), q)
  /\ UNCHANGED <<server, denied, edits, breaks, rejections>>

\* a snapshot is consistent for all targets that were current, and may make others so
Snapshot(T) ==
  /\ engine.heard \subseteq T /\ T \subseteq engine.watched
  /\ \E order \in Orders :
       engine' = ApplyRemoteEvent(Hear(T),
                   [exists |-> Existing(T), gone |-> Gone(T),
                    change |-> [q \in T \cap Views |-> Change(q, TRUE)]], order)
  /\ UNCHANGED <<server, denied, edits, breaks, rejections, stops>>

\* a snapshot comes while a target has got only some of its documents
PartialSnapshot(q, some) ==
  LET T == engine.heard
      hear == [Hear(T) EXCEPT !.news[q] = @ \ some]
  IN /\ q \in engine.watched \ T
     /\ some \subseteq AddedTo(q) /\ some # {}
     /\ \E order \in Orders :
          engine' = ApplyRemoteEvent(hear,
                      [exists |-> Existing(T) \cup some, gone |-> Gone(T),
                       change |-> [p \in (T \cap Views) \cup {q} |->
                         IF p = q THEN [added |-> some, removed |-> {}, current |-> FALSE] ELSE Change(p, TRUE)]],
                      order)
     /\ UNCHANGED <<server, denied, edits, breaks, rejections, stops>>

\* mutant: the keys of the target stay
MismatchKept(q) ==
  LET T == engine.heard
  IN /\ q \in engine.watched \ T /\ LeftFrom(q) # {}
     /\ \E order \in Orders :
          engine' = ApplyRemoteEvent([Hear(T) EXCEPT !.news[q] = {}],
                      [exists |-> Existing(T) \cup AddedTo(q), gone |-> Gone(T),
                       change |-> [p \in (T \cap Views) \cup {q} |->
                         IF p = q THEN [added |-> {}, removed |-> {}, current |-> FALSE]
                         ELSE Change(p, TRUE)]], order)
     /\ UNCHANGED <<server, denied, edits, breaks, rejections, stops>>

\* a resumed target is sent a count, which shows that documents left it: its keys are forgotten,
\* and it is watched anew without its token
ExistenceFilterMismatch(q) ==
  LET T == engine.heard
  IN /\ q \in engine.watched \ T /\ LeftFrom(q) # {}
     /\ \E order \in Orders :
          engine' = ApplyRemoteEvent([Hear(T) EXCEPT !.news[q] = Matching[q]],
                      [exists |-> Existing(T) \cup AddedTo(q), gone |-> Gone(T),
                       change |-> [p \in (T \cap Views) \cup {q} |->
                         IF p = q THEN [added |-> {}, removed |-> engine.synced[q], current |-> FALSE]
                         ELSE Change(p, TRUE)]], order)
     /\ UNCHANGED <<server, denied, edits, breaks, rejections, stops>>

\* HandleRejectedListen: the client has lost access to the document, it drops it
LimboRejected(id) ==
  /\ id \in engine.watched \cap Ids
  /\ rejections < MaxRejections /\ rejections' = rejections + 1
  /\ denied' = denied \cup Key(id)
  /\ \E order \in Orders :
       engine' = ApplyRemoteEvent(
                   PumpEnqueuedLimboResolutions(
                     [engine EXCEPT !.watched = @ \ {id}, !.heard = @ \ {id}, !.awaited = @ \ {id},
                                    !.active = {a \in @ : a[1] \notin Key(id)},
                                    !.resolutions = {r \in @ : r[2] # id}]),
                   [exists |-> {}, gone |-> Key(id), change |-> <<>>], order)
  /\ UNCHANGED <<server, edits, breaks, stops>>

QueryRejected(q) ==
  /\ q \in engine.watched
  /\ rejections < MaxRejections /\ rejections' = rejections + 1
  /\ engine' = RemoveAndCleanupTarget(Dropped(q), q)
  /\ UNCHANGED <<server, denied, edits, breaks, stops>>

\* the targets are watched again on the next stream, from their tokens on
StreamBreaks ==
  /\ breaks < MaxBreaks /\ breaks' = breaks + 1
  /\ engine' = [engine EXCEPT !.heard = {}]
  /\ UNCHANGED <<server, denied, edits, rejections, stops>>

\* nothing has been heard on this stream: View::ApplyOnlineStateChange
GoOffline ==
  /\ engine.heard = {} /\ engine.current # {}
  /\ engine' = [engine EXCEPT !.current = {}]
  /\ UNCHANGED <<server, denied, edits, breaks, rejections, stops>>

\* the owner of the promotions adds a document, or takes one away
ServerChange(key) ==
  /\ edits < MaxEdits /\ edits' = edits + 1
  /\ server' = IF key \in server THEN server \ {key} ELSE server \cup {key}
  /\ engine' = [engine EXCEPT !.news = [q \in Views |-> @[q] \cup ({key} \cap Matching[q])],
                              !.awaited = @ \cup {r[2] : r \in {s \in engine.resolutions : s[1] = key}}]
  /\ UNCHANGED <<denied, breaks, rejections, stops>>

LimboNext ==
  \/ \E q \in Views :
       \/ Listen(q) \/ StopListening(q) \/ ExistenceFilterMismatch(q) \/ QueryRejected(q)
       \/ \E some \in SUBSET Docs : PartialSnapshot(q, some)
  \/ \E T \in SUBSET engine.watched : Snapshot(T)
  \/ \E id \in engine.watched : LimboRejected(id)
  \/ \E key \in Docs : ServerChange(key)
  \/ StreamBreaks \/ GoOffline

LimboSpec == LimboInit /\ [][LimboNext]_limboVars

CaughtUp ==
  /\ engine.heard = engine.watched /\ engine.awaited = {}
  /\ \A q \in Viewed(engine) : engine.news[q] = {}

\* an open stream is heard of: the server catches up with all it was asked.
\* This is WF_limboVars(Snapshot(engine.watched)), which changes something unless CaughtUp.
LimboFairSpec == LimboSpec /\ ([]<>CaughtUp \/ []<><<Snapshot(engine.watched)>>_limboVars)

-----------------------------------------------------------------------------
\* What the engine holds is well typed; a view that is current is listened to,
\* and there are never more keys in active_limbo_targets_by_key_, the table the
\* loop looks at, than resolutions may run.  The resolutions themselves may be
\* more: see ResolutionsBounded.
EngineTypeOK ==
  /\ engine \in Engine
  /\ engine.current \subseteq Viewed(engine)
  /\ engine.heard \subseteq engine.watched
  /\ Cardinality(engine.active) <= MaxConcurrent
  /\ server \subseteq Docs /\ denied \subseteq Docs

\* "Starts listens for documents in limbo that are enqueued for resolution,
\* subject to a maximum number of concurrent resolutions" (sync_engine.h).  A
\* document that a second view finds in limbo while it waits is queued twice,
\* and started twice: the table of keys counts it once.
ResolutionsBounded == Cardinality(engine.resolutions) <= MaxConcurrent

\* The engine's references are the documents its views have in limbo, whatever
\* views come, go, lose the server or hear of several documents at once.
RefsAreLimbo == engine.refs = {r \in Docs \X Views : r[1] \in engine.limbo[r[2]]}

\* A document that is in limbo for a current view is being asked for, or it
\* waits because all places are taken: otherwise the query would never again
\* be answered from the server.  That does happen to a document whose target
\* was rejected while the view was not current: UpdateLimboDocuments keeps it
\* in limbo, and when it is cached again nothing is tracked a second time.
LimboIsBeingResolved ==
  \A q \in engine.current : \A key \in engine.limbo[q] \ denied :
    \/ IsActive(engine, key)
    \/ /\ \E i \in DOMAIN engine.enqueued : engine.enqueued[i] = key
       /\ Cardinality(engine.active) = MaxConcurrent

\* The remote store watches the limbo targets that are in the engine's books,
\* and a document's entry is of a target that resolves it.
ResolutionsAreWatched ==
  /\ engine.watched \cap Ids = {r[2] : r \in engine.resolutions}
  /\ engine.active \subseteq engine.resolutions

\* What every operation of the worker queue keeps true of the engine's books.
EngineOK == EngineTypeOK /\ RefsAreLimbo /\ ResolutionsAreWatched

\* A view that counts as synced, which answers getDocuments as the server's
\* word, differs from the server only in what changed since its snapshot: it
\* shows no withdrawn promotion and misses none, other than one whose own
\* target was rejected.
SyncedIsTrue ==
  \A q \in engine.current : engine.limbo[q] = {} =>
    \A key \in Matching[q] \ engine.news[q] :
      /\ key \in engine.cache => key \in server
      /\ key \in server => key \in engine.cache \/ key \in denied

\* A document does not stay in limbo for ever, unless its target was rejected,
\* so that a query whose cached results the server does not name is answered
\* in the end.  The exception: a document that waited in the queue after it had
\* left limbo takes a place when one is free and keeps it, although the comment
\* of active_limbo_targets_by_key_ (sync_engine.h) calls the table's keys
\* documents in limbo; where places are few, others wait for it for ever.
Abandoned == \E key \in Docs : IsActive(engine, key) /\ ~IsReferenced(engine, key)
LimboEnds ==
  \A q \in Views : \A key \in Docs :
    key \in engine.limbo[q] ~> key \notin engine.limbo[q] \/ key \in denied \/ Abandoned
=============================================================================
