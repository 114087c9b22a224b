------------------------------- MODULE Limbo -------------------------------
(***************************************************************************)
(* Limbo resolution in SyncEngine.  A document that the cache counts as a  *)
(* result of the query and the backend does not is in limbo: until it is   *)
(* resolved by a listen of its own, `getDocuments` has no synced answer.   *)
(* A limited number of documents is resolved at a time, the others wait in *)
(* a queue.  This module models the bookkeeping of the listens, for the    *)
(* one query of the app (GetDocuments.tla is about the query itself), so   *)
(* limbo_document_refs_ and the limbo documents of the query's view are    *)
(* one set.  Which documents are in limbo after an update of the query is  *)
(* up to the cache and the backend, and any set of them may be.            *)
(***************************************************************************)
EXTENDS Integers, FiniteSets, Sequences, SequencesExt, Functions

CONSTANTS
  MaxKeys,        \* documents of the query, numbered in key order
  MaxConcurrent,  \* max_concurrent_limbo_resolutions_
  MaxUpdates      \* bound on the updates of the query

ASSUME LimboAssumption ==
  MaxKeys \in Nat /\ MaxConcurrent \in Nat \ {0} /\ MaxUpdates \in Nat

VARIABLES
  queryView, \* the query's view: "none", "local" or "current"
  limbo,     \* the documents in limbo
  deleted,   \* those that were deleted while the view was not current
  tracking,  \* the bookkeeping of SyncEngine and RemoteStore
  updates,   \* updates so far
  waited     \* some document had to wait in the queue (history)

limboVars == <<queryView, limbo, deleted, tracking, updates, waited>>

Keys == 1 .. MaxKeys

(* In tracking, enqueued is enqueued_limbo_resolutions_, byKey is          *)
(* active_limbo_targets_by_key_, byTarget the keys in active_limbo_        *)
(* resolutions_by_target_, listens the limbo targets among listen_targets_ *)
(* of RemoteStore, and nextTarget the next id of target_id_generator_.     *)
LimboTypeOK ==
  /\ queryView \in {"none", "local", "current"}
  /\ limbo \subseteq Keys
  /\ deleted \subseteq limbo
  /\ tracking.nextTarget \in Nat \ {0}
  /\ tracking.enqueued \in Seq(Keys)
  /\ DOMAIN tracking.byKey \subseteq Keys
  /\ Range(tracking.byKey) \subseteq 1 .. tracking.nextTarget - 1
  /\ DOMAIN tracking.byTarget \subseteq 1 .. tracking.nextTarget - 1
  /\ Range(tracking.byTarget) \subseteq Keys
  /\ tracking.listens \subseteq 1 .. tracking.nextTarget - 1
  /\ updates \in 0 .. MaxUpdates
  /\ waited \in BOOLEAN

LimboInit ==
  /\ queryView = "none"
  /\ limbo = {}
  /\ deleted = {}
  /\ tracking = [enqueued |-> <<>>, byKey |-> <<>>, byTarget |-> <<>>,
                 listens |-> {}, nextTarget |-> 1]
  /\ updates = 0
  /\ waited = FALSE

-----------------------------------------------------------------------------
(***************************************************************************)
(* The bookkeeping, from a state t of it to the next.                      *)
(***************************************************************************)

Without(f, d) == Restrict(f, DOMAIN f \ {d})

(* emplace of a map: an entry that is there stays. *)
Emplace(f, d, e) == [x \in DOMAIN f \cup {d} |-> IF x \in DOMAIN f THEN f[x] ELSE e]

(* Mutant: the id is not advanced. *)
StartUnnumbered(t, key) ==
  [t EXCEPT !.byTarget = Emplace(@, t.nextTarget, key),
            !.byKey = Emplace(@, key, t.nextTarget),
            !.listens = @ \cup {t.nextTarget}]

(* A resolution starts.  A key that has one keeps it in byKey, while       *)
(* byTarget and RemoteStore get a second target.                           *)
StartResolution(t, key) ==
  [t EXCEPT !.byTarget = Emplace(@, t.nextTarget, key),
            !.byKey = Emplace(@, key, t.nextTarget),
            !.listens = @ \cup {t.nextTarget},
            !.nextTarget = @ + 1]

(* One round of PumpEnqueuedLimboResolutions. *)
PumpOnce(t) ==
  IF t.enqueued # <<>> /\ Cardinality(DOMAIN t.byKey) < MaxConcurrent
  THEN StartResolution([t EXCEPT !.enqueued = Tail(@)], Head(t.enqueued))
  ELSE t

(* PumpEnqueuedLimboResolutions: a loop of at most as many rounds as there *)
(* are documents in the queue.                                             *)
Pump(t) ==
  LET after[n \in 0 .. Len(t.enqueued)] ==
        IF n = 0 THEN t ELSE PumpOnce(after[n - 1])
  IN  after[Len(t.enqueued)]

(* TrackLimboChange. *)
Track(t, key) ==
  IF key \in DOMAIN t.byKey
  THEN t
  ELSE Pump([t EXCEPT !.enqueued = Append(@, key)])

(* Mutant: the queue is not pumped when a place becomes free. *)
RemoveWithoutPump(t, key) ==
  IF key \in DOMAIN t.byKey
  THEN [t EXCEPT !.byKey = Without(@, key),
                 !.byTarget = Without(@, t.byKey[key]),
                 !.listens = @ \ {t.byKey[key]}]
  ELSE t

(* RemoveLimboTarget; a key without a target is left where it is, be it in *)
(* the queue.                                                              *)
RemoveLimboTarget(t, key) ==
  IF key \in DOMAIN t.byKey
  THEN Pump([t EXCEPT !.byKey = Without(@, key),
                      !.byTarget = Without(@, t.byKey[key]),
                      !.listens = @ \ {t.byKey[key]}])
  ELSE t

(* RemoveLimboTarget for each of these keys, in key order. *)
Removed(t, keys) ==
  LET after[k \in 0 .. MaxKeys] ==
        IF k = 0
        THEN t
        ELSE IF k \in keys THEN RemoveLimboTarget(after[k - 1], k) ELSE after[k - 1]
  IN  after[MaxKeys]

(* TrackLimboChange for each of these keys, in key order. *)
Added(t, keys) ==
  LET after[k \in 0 .. MaxKeys] ==
        IF k = 0
        THEN t
        ELSE IF k \in keys THEN Track(after[k - 1], k) ELSE after[k - 1]
  IN  after[MaxKeys]

(* UpdateTrackedLimboDocuments: View::UpdateLimboDocuments reports the     *)
(* documents that left limbo first, then the new ones, each in key order.  *)
Tracked(t, old, new) == Added(Removed(t, old \ new), new \ old)

(* The view learns that a document was deleted: one that is current lets   *)
(* it out of limbo, another keeps it until it is current again.            *)
Deleted(t, key) ==
  /\ IF queryView = "current"
     THEN /\ tracking' = Tracked(t, limbo, limbo \ {key})
          /\ limbo' = limbo \ {key}
          /\ UNCHANGED deleted
     ELSE /\ tracking' = t
          /\ deleted' = deleted \cup ({key} \cap limbo)
          /\ UNCHANGED limbo
  /\ waited' = (waited \/ tracking'.enqueued # <<>>)
  /\ UNCHANGED <<queryView, updates>>

-----------------------------------------------------------------------------
(***************************************************************************)
(* Actions.                                                                *)
(***************************************************************************)

(* The query gets a view from the cache, which is not current. *)
InitializeView ==
  /\ queryView = "none"
  /\ queryView' = "local"
  /\ UNCHANGED <<limbo, deleted, tracking, updates, waited>>

(* The backend brings the query up to date; `new` is what is left without  *)
(* an explanation.                                                         *)
QueryUpdated(new) ==
  /\ queryView # "none"
  /\ updates < MaxUpdates
  /\ new \cap deleted = {}
  /\ queryView' = "current"
  /\ limbo' = new
  /\ deleted' = {}
  /\ tracking' = Tracked(tracking, limbo, new)
  /\ updates' = updates + 1
  /\ waited' = (waited \/ tracking'.enqueued # <<>>)

(* The client goes offline: View::ApplyOnlineStateChange. *)
ApplyOnlineStateChange ==
  /\ queryView = "current"
  /\ queryView' = "local"
  /\ UNCHANGED <<limbo, deleted, tracking, updates, waited>>

(* The query is no longer listened to, or was rejected:                    *)
(* RemoveAndCleanupTarget drops its references, key by key.                *)
StopQuery ==
  /\ queryView # "none"
  /\ queryView' = "none"
  /\ limbo' = {}
  /\ deleted' = {}
  /\ tracking' = Tracked(tracking, limbo, {})
  /\ waited' = (waited \/ tracking'.enqueued # <<>>)
  /\ UNCHANGED updates

(* The listen of a document in limbo has found it deleted. *)
LimboResolved(target) ==
  /\ target \in tracking.listens
  /\ tracking.byTarget[target] \in limbo \ deleted
  /\ Deleted(tracking, tracking.byTarget[target])

(* What HandleRejectedListen forgets of a limbo target, which RemoteStore  *)
(* has dropped before.                                                     *)
Forgotten(target) ==
  Pump([tracking EXCEPT !.listens = @ \ {target},
                        !.byKey = Without(@, tracking.byTarget[target]),
                        !.byTarget = Without(@, target)])

(* Mutant: no deletion is made up for the rejected document. *)
LimboRejectedOnly(target) ==
  /\ target \in tracking.listens
  /\ tracking' = Forgotten(target)
  /\ UNCHANGED <<queryView, limbo, deleted, updates, waited>>

(* The backend refuses the listen: the document counts as deleted. *)
LimboRejected(target) ==
  /\ target \in tracking.listens
  /\ Deleted(Forgotten(target), tracking.byTarget[target])

(* The listen of this document is answered. *)
LimboAnswered(key) ==
  \E target \in tracking.listens :
    /\ tracking.byTarget[target] = key
    /\ LimboResolved(target) \/ LimboRejected(target)

LimboNext ==
  \/ InitializeView
  \/ \E new \in SUBSET Keys : QueryUpdated(new)
  \/ ApplyOnlineStateChange
  \/ StopQuery
  \/ \E target \in tracking.listens : LimboResolved(target)
  \/ \E target \in tracking.listens : LimboRejected(target)

(* The backend answers each listen. *)
LimboSpec ==
  LimboInit /\ [][LimboNext]_limboVars /\ \A key \in Keys : WF_limboVars(LimboAnswered(key))

-----------------------------------------------------------------------------
(***************************************************************************)
(* Properties.                                                             *)
(***************************************************************************)

(* The two maps and RemoteStore agree: every limbo listen is known with    *)
(* its key, and the target found for a key is listened to, so that         *)
(* "StopListening: target not currently watched" (remote_store.cc:174)     *)
(* cannot happen when it is removed.                                       *)
ListensAccounted ==
  /\ tracking.listens = DOMAIN tracking.byTarget
  /\ \A key \in DOMAIN tracking.byKey :
       /\ tracking.byKey[key] \in tracking.listens
       /\ tracking.byTarget[tracking.byKey[key]] = key

(* A document in limbo is being resolved or waits in the queue, unless it  *)
(* is known to be deleted: otherwise the query would never be synced.      *)
NoLimboForgotten ==
  limbo \ deleted \subseteq DOMAIN tracking.byKey \cup ToSet(tracking.enqueued)

(* A document only waits while all places are taken, and the keys that     *)
(* have a target take no more than there are: active_limbo_targets_by_key_ *)
(* is what PumpEnqueuedLimboResolutions counts (sync_engine.cc:541).  A     *)
(* key may have left more than one listen behind; ResolutionsBounded       *)
(* counts the listens.                                                     *)
PlacesUsed ==
  /\ Cardinality(DOMAIN tracking.byKey) <= MaxConcurrent
  /\ tracking.enqueued # <<>> => Cardinality(DOMAIN tracking.byKey) = MaxConcurrent

(* As long as no document ever had to wait, the listens are exactly those  *)
(* of documents in limbo, one for each: nothing is listened to when the    *)
(* query has gone.                                                         *)
ListensAreLimbo ==
  ~waited => /\ \A t, u \in tracking.listens :
                  tracking.byTarget[t] = tracking.byTarget[u] => t = u
             /\ limbo \ deleted \subseteq Range(tracking.byTarget)
             /\ Range(tracking.byTarget) \subseteq limbo

(* The books agree, no document is forgotten, places are used as the code  *)
(* counts them, and until a document had to wait the listens are those of  *)
(* documents in limbo.                                                     *)
ResolutionsInOrder ==
  ListensAccounted /\ NoLimboForgotten /\ PlacesUsed /\ ListensAreLimbo

(* Documents are resolved "subject to a maximum number of concurrent       *)
(* resolutions", without which "the server can fail with 'resource         *)
(* exhausted' errors" (sync_engine.h:243-251).  The code breaks this: a    *)
(* document that left limbo while it waited stays in the queue, next to    *)
(* the entry of its return, and both are started for the one key.          *)
ResolutionsBounded == Cardinality(tracking.listens) <= MaxConcurrent

(* As long as no document ever had to wait, one in limbo leaves it, if the *)
(* client stays online: getDocuments gets its synced answer.               *)
LimboEnds ==
  \A key \in Keys :
    (queryView = "current" /\ key \in limbo) ~> (key \notin limbo \/ queryView # "current" \/ waited)

=============================================================================
