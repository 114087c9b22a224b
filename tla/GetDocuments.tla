---------------------------- MODULE GetDocuments ----------------------------
(***************************************************************************)
(* The read path of the Firestore client behind SelectView's               *)
(* `getDocuments`: each appearance of the list asks once for the same      *)
(* query.  ListenOnce turns the call into a listener of the EventManager,  *)
(* the SyncEngine gives the query a view and a target, the RemoteStore     *)
(* watches the target on its WatchStream, the WatchChangeAggregator pairs  *)
(* requests with answers, and the OnlineStateTracker decides when to       *)
(* answer from the cache instead.                                          *)
(*                                                                         *)
(* Two queues run: the worker queue of the client (every action on its     *)
(* state is one task, run to the end) and the main queue, which delivers   *)
(* events to ListenOnce.  Between them tasks and events travel in order.   *)
(* The documents are left out, but for the fact that a snapshot may change *)
(* the result; so is limbo (Limbo.tla).  Stale tokens of a stopped stream  *)
(* are the subject of WritePipeline.tla.  All gets are of one query, so    *)
(* there is one view and one target, whose id the target cache keeps.      *)
(***************************************************************************)
EXTENDS Integers, FiniteSets, Sequences

CONSTANTS
  MaxGets,    \* bound on the calls of getDocuments
  MaxFaults   \* bound on stream errors and network changes

ASSUME GetDocumentsAssumption == MaxGets \in Nat /\ MaxFaults \in Nat

VARIABLES
  calls,          \* calls of getDocuments so far
  tasks,          \* listeners to add and to remove, for the worker queue
  events,         \* events posted to the main queue
  muted,          \* muted_ of a get's AsyncEventListener
  answers,        \* what the app was told (history)
  listeners,      \* the query's listeners in the EventManager
  raised,         \* raised_initial_event_ of a get's QueryListener
  view,           \* the query's view: "none", "local" or "synced"
  listening,      \* the target is in listen_targets_
  state,          \* state_ of the watch stream
  idleTimer,      \* idleness_timer_ is set
  outstanding,    \* outstanding_responses_ of the target
  targetCurrent,  \* current_ of the target
  onlineState,    \* state_ of the OnlineStateTracker
  failures,       \* watch_stream_failures_
  onlineTimer,    \* online_state_timer_ is set
  requests,       \* requests on their way to the backend
  responses,      \* answers on their way back
  served,         \* the watch the backend serves, and how far it is
  dirty,          \* a change of it that no snapshot has followed yet
  permitted,      \* the backend's rules permit the query
  watches,        \* watch requests so far (history)
  currentWatch,   \* the last of them whose CURRENT was received (history)
  faults          \* faults so far

app     == <<calls, muted, answers>>
queues  == <<tasks, events>>
query   == <<listeners, raised, view>>
target  == <<outstanding, targetCurrent>>
tracker == <<onlineState, failures, onlineTimer>>
wire    == <<requests, responses, served, dirty>>
history == <<watches, currentWatch>>
vars    == <<app, queues, query, listening, state, idleTimer, target, tracker,
             wire, permitted, history, faults>>

Gets  == 1 .. MaxGets
Task  == [op : {"add", "remove"}, get : Gets]
Event == [get : Gets, kind : {"cache", "server", "error"}]

TypeOK ==
  /\ calls \in 0 .. MaxGets
  /\ tasks \in Seq(Task)
  /\ events \in Seq(Event)
  /\ muted \subseteq Gets
  /\ answers \in Seq(Event)
  /\ listeners \subseteq Gets
  /\ raised \subseteq Gets
  /\ view \in {"none", "local", "synced"}
  /\ listening \in BOOLEAN
  /\ state \in {"Initial", "Starting", "Open", "Error", "Backoff"}
  /\ idleTimer \in BOOLEAN
  /\ outstanding \in Int
  /\ targetCurrent \in BOOLEAN
  /\ onlineState \in {"Unknown", "Online", "Offline"}
  /\ failures \in Nat
  /\ onlineTimer \in BOOLEAN
  /\ requests \in Seq([op : {"watch", "unwatch"}, watch : Nat])
  /\ responses \in Seq([kind : {"added", "current", "snapshot", "removed", "rejected"},
                        watch : Nat])
  /\ served \in [at : {"none", "added", "current"}, watch : Nat]
  /\ dirty \in BOOLEAN
  /\ permitted \in BOOLEAN
  /\ watches \in Nat
  /\ currentWatch \in Nat
  /\ faults \in 0 .. MaxFaults

Init ==
  /\ calls = 0
  /\ tasks = <<>>
  /\ events = <<>>
  /\ muted = {}
  /\ answers = <<>>
  /\ listeners = {}
  /\ raised = {}
  /\ view = "none"
  /\ listening = FALSE
  /\ state = "Initial"
  /\ idleTimer = FALSE
  /\ outstanding = 0
  /\ targetCurrent = FALSE
  /\ onlineState = "Unknown"
  /\ failures = 0
  /\ onlineTimer = FALSE
  /\ requests = <<>>
  /\ responses = <<>>
  /\ served = [at |-> "none", watch |-> 0]
  /\ dirty = FALSE
  /\ permitted \in BOOLEAN
  /\ watches = 0
  /\ currentWatch = 0
  /\ faults = 0

-----------------------------------------------------------------------------
(***************************************************************************)
(* Listeners and the view.                                                 *)
(***************************************************************************)

Waiting == listeners \ raised

(* Each of these listeners posts an event, in the order they were added. *)
Post(gets, kind) ==
  \E order \in [1 .. Cardinality(gets) -> gets] :
    /\ \A i, j \in DOMAIN order : i < j => order[i] < order[j]
    /\ \A g \in gets : \E i \in DOMAIN order : order[i] = g
    /\ events' = events \o [i \in DOMAIN order |-> [get |-> order[i], kind |-> kind]]

(* Mutant: waiting listeners count as answered from the cache. *)
SnapshotCountsAll(v) ==
  /\ view' = v
  /\ IF v = "synced"
     THEN Post(listeners, "server")
     ELSE Post(listeners \cap raised, "cache")
  /\ raised' = raised \cup listeners

(* A snapshot of the view in state v, while online: a synced one is        *)
(* everybody's, one from the cache only that of listeners that have had    *)
(* their first.                                                            *)
Snapshot(v) ==
  /\ view' = v
  /\ IF v = "synced"
     THEN Post(listeners, "server")
     ELSE Post(listeners \cap raised, "cache")
  /\ raised' = IF v = "synced" THEN raised \cup listeners ELSE raised

(* SetAndBroadcast(Offline): a synced view, for which nobody waits, falls  *)
(* back to the cache; otherwise those that wait are answered from it.      *)
GoOffline ==
  /\ onlineState' = "Offline"
  /\ view' = IF view = "synced" THEN "local" ELSE view
  /\ Post(IF view = "synced" THEN listeners ELSE Waiting, "cache")
  /\ raised' = raised \cup listeners

(* UpdateState(s), to a state that answers nobody. *)
UpdateState(s) ==
  /\ onlineState' = s
  /\ failures' = 0
  /\ onlineTimer' = FALSE

-----------------------------------------------------------------------------
(***************************************************************************)
(* The watch stream.                                                       *)
(***************************************************************************)

IsStarted == state \in {"Starting", "Open", "Backoff"}

(* Stream::Start: after an error a stream backs off first. *)
Start(s) == state' = (IF s = "Error" THEN "Backoff" ELSE "Starting")

(* HandleWatchStreamStart. *)
HandleWatchStreamStart ==
  IF failures = 0
  THEN onlineState' = "Unknown" /\ onlineTimer' = TRUE /\ UNCHANGED failures
  ELSE UNCHANGED tracker

(* What a stream forgets when it is closed, its aggregator included. *)
Close ==
  /\ idleTimer' = FALSE
  /\ outstanding' = 0
  /\ targetCurrent' = FALSE
  /\ requests' = <<>>
  /\ responses' = <<>>
  /\ served' = [at |-> "none", watch |-> 0]
  /\ dirty' = FALSE

SendWatchRequest ==
  /\ outstanding' = outstanding + 1
  /\ requests' = Append(requests, [op |-> "watch", watch |-> watches + 1])
  /\ watches' = watches + 1
  /\ UNCHANGED <<targetCurrent, currentWatch>>

SendUnwatchRequest ==
  /\ outstanding' = outstanding + 1
  /\ requests' = Append(requests, [op |-> "unwatch", watch |-> watches])
  /\ UNCHANGED <<targetCurrent, history>>

(* RemoteStore::Listen. *)
Listen ==
  /\ listening' = TRUE
  /\ \/ /\ ~IsStarted
        /\ Start(state)
        /\ outstanding' = 0
        /\ targetCurrent' = FALSE
        /\ HandleWatchStreamStart
        /\ UNCHANGED <<idleTimer, requests, history>>
     \/ /\ state = "Open"
        /\ SendWatchRequest
        /\ idleTimer' = FALSE
        /\ UNCHANGED <<state, tracker>>
     \/ /\ state \in {"Starting", "Backoff"}
        /\ UNCHANGED <<state, idleTimer, target, tracker, requests, history>>

(* RemoteStore::StopListening. *)
StopListening ==
  /\ listening' = FALSE
  /\ IF state = "Open"
     THEN SendUnwatchRequest /\ idleTimer' = TRUE /\ UNCHANGED tracker
     ELSE UpdateState("Unknown") /\ UNCHANGED <<idleTimer, target, requests, history>>

-----------------------------------------------------------------------------
(***************************************************************************)
(* The app and the main queue.                                             *)
(***************************************************************************)

(* Mutant: the gets are numbered from zero. *)
GetDocsFromZero ==
  /\ calls < MaxGets
  /\ calls' = calls + 1
  /\ tasks' = Append(tasks, [op |-> "add", get |-> calls])
  /\ UNCHANGED <<muted, answers, events, query, listening, state, idleTimer,
                 target, tracker, wire, permitted, history, faults>>

(* loadNearby calls getDocuments. *)
GetDocs ==
  /\ calls < MaxGets
  /\ calls' = calls + 1
  /\ tasks' = Append(tasks, [op |-> "add", get |-> calls + 1])
  /\ UNCHANGED <<muted, answers, events, query, listening, state, idleTimer,
                 target, tracker, wire, permitted, history, faults>>

(* An event reaches ListenOnce, unless it was muted: an error is passed    *)
(* on, a snapshot first mutes and removes the listener.                    *)
DeliverEvent ==
  /\ events # <<>>
  /\ events' = Tail(events)
  /\ LET event == Head(events)
     IN  IF event.get \in muted
         THEN UNCHANGED <<muted, answers, tasks>>
         ELSE /\ answers' = Append(answers, event)
              /\ IF event.kind = "error"
                 THEN UNCHANGED <<muted, tasks>>
                 ELSE /\ muted' = muted \cup {event.get}
                      /\ tasks' = Append(tasks, [op |-> "remove", get |-> event.get])
  /\ UNCHANGED <<calls, query, listening, state, idleTimer, target, tracker,
                 wire, permitted, history, faults>>

-----------------------------------------------------------------------------
(***************************************************************************)
(* Tasks of the worker queue.                                              *)
(***************************************************************************)

(* EventManager::AddQueryListener: the query's view answers at once when   *)
(* it is synced or the client offline; the first listener starts both.     *)
AddQueryListener ==
  /\ tasks # <<>>
  /\ Head(tasks).op = "add"
  /\ tasks' = Tail(tasks)
  /\ LET g == Head(tasks).get
     IN  /\ listeners' = listeners \cup {g}
         /\ IF view = "synced" \/ onlineState = "Offline"
            THEN /\ Post({g}, IF view = "synced" THEN "server" ELSE "cache")
                 /\ raised' = raised \cup {g}
            ELSE UNCHANGED <<events, raised>>
  /\ IF listeners = {}
     THEN view' = "local" /\ Listen
     ELSE UNCHANGED <<view, listening, state, idleTimer, target, tracker,
                      requests, history>>
  /\ UNCHANGED <<app, responses, served, dirty, permitted, faults>>

(* EventManager::RemoveQueryListener; after an error it is not there.      *)
RemoveQueryListener ==
  /\ tasks # <<>>
  /\ Head(tasks).op = "remove"
  /\ tasks' = Tail(tasks)
  /\ listeners' = listeners \ {Head(tasks).get}
  /\ IF listeners # {} /\ listeners' = {}
     THEN view' = "none" /\ StopListening
     ELSE UNCHANGED <<view, listening, idleTimer, target, tracker, requests, history>>
  /\ UNCHANGED <<app, events, raised, state, responses, served, dirty,
                 permitted, faults>>

(* The token has arrived: OnWatchStreamOpen watches what is listened to. *)
StreamOpened ==
  /\ state = "Starting"
  /\ state' = "Open"
  /\ IF listening
     THEN SendWatchRequest
     ELSE UNCHANGED <<target, requests, history>>
  /\ UNCHANGED <<app, queues, query, listening, idleTimer, tracker, responses,
                 served, dirty, permitted, faults>>

BackoffElapsed ==
  /\ state = "Backoff"
  /\ state' = "Starting"
  /\ UNCHANGED <<app, queues, query, listening, idleTimer, target, tracker,
                 wire, permitted, history, faults>>

IdleTimeout ==
  /\ idleTimer
  /\ Close
  /\ state' = "Initial"
  /\ UpdateState("Unknown")
  /\ UNCHANGED <<app, queues, query, listening, permitted, history, faults>>

(* The timer of the OnlineStateTracker. *)
OnlineTimeout ==
  /\ onlineTimer
  /\ onlineTimer' = FALSE
  /\ GoOffline
  /\ UNCHANGED <<app, tasks, listeners, listening, state, idleTimer, target,
                 failures, wire, permitted, history, faults>>

(* The stream ends with an error: OnWatchStreamClose. *)
StreamFailed ==
  /\ state = "Open"
  /\ faults < MaxFaults
  /\ faults' = faults + 1
  /\ Close
  /\ \/ /\ listening
        /\ onlineState = "Online"
        /\ Start("Error")
        /\ HandleWatchStreamStart
        /\ UNCHANGED <<events, raised, view>>
     \/ /\ listening
        /\ onlineState # "Online"
        /\ Start("Error")
        /\ failures' = failures + 1
        /\ onlineTimer' = FALSE
        /\ GoOffline
     \/ /\ ~listening
        /\ state' = "Error"
        /\ UpdateState("Unknown")
        /\ UNCHANGED <<events, raised, view>>
  /\ UNCHANGED <<app, tasks, listeners, listening, permitted, history>>

(* The network has changed or the app has come to the foreground. *)
RestartNetwork ==
  /\ faults < MaxFaults
  /\ faults' = faults + 1
  /\ Close
  /\ state' = IF listening THEN "Starting" ELSE "Initial"
  /\ onlineState' = "Unknown"
  /\ failures' = 0
  /\ onlineTimer' = listening
  /\ UNCHANGED <<app, queues, query, listening, permitted, history>>

-----------------------------------------------------------------------------
(***************************************************************************)
(* OnWatchStreamChange, by message: each shows that the client is online.  *)
(***************************************************************************)

Receive(kind) ==
  /\ responses # <<>>
  /\ Head(responses).kind = kind
  /\ responses' = Tail(responses)
  /\ UpdateState("Online")
  /\ UNCHANGED <<app, tasks, state, idleTimer, requests, served, dirty,
                 permitted, watches, faults>>

(* Mutant: outstanding answers are not waited for. *)
IsListenTarget == listening

IsActiveTarget == listening /\ outstanding = 0

(* Mutant: the answer is not counted. *)
TargetAddedUncounted ==
  /\ Receive("added")
  /\ UNCHANGED outstanding
  /\ UNCHANGED <<events, query, listening, targetCurrent, currentWatch>>

TargetAdded ==
  /\ Receive("added")
  /\ outstanding' = outstanding - 1
  /\ UNCHANGED <<events, query, listening, targetCurrent, currentWatch>>

TargetRemoved ==
  /\ Receive("removed")
  /\ outstanding' = outstanding - 1
  /\ targetCurrent' = (targetCurrent /\ outstanding' # 0)
  /\ UNCHANGED <<events, query, listening, currentWatch>>

TargetIsCurrent ==
  /\ Receive("current")
  /\ currentWatch' = Head(responses).watch
  /\ targetCurrent' = (targetCurrent \/ IsActiveTarget)
  /\ UNCHANGED <<events, query, listening, outstanding>>

(* RaiseWatchSnapshot: the target's change reaches the view, and listeners *)
(* hear of it if its sync state or its documents changed.                  *)
WatchSnapshot ==
  /\ Receive("snapshot")
  /\ LET v == IF targetCurrent THEN "synced" ELSE "local"
     IN  \/ IsActiveTarget /\ Snapshot(v)
         \/ IsActiveTarget /\ view = v /\ UNCHANGED <<events, raised, view>>
         \/ ~IsActiveTarget /\ UNCHANGED <<events, raised, view>>
  /\ UNCHANGED <<listeners, listening, target, currentWatch>>

(* Mutant: the listeners stay after the error. *)
RejectedKeepsListeners ==
  /\ Receive("rejected")
  /\ IF listening
     THEN /\ listening' = FALSE
          /\ outstanding' = 0
          /\ targetCurrent' = FALSE
          /\ view' = "none"
          /\ Post(listeners, "error")
          /\ UNCHANGED listeners
     ELSE UNCHANGED <<listening, target, view, events, listeners>>
  /\ UNCHANGED <<raised, currentWatch>>

(* ProcessTargetError: the target and every listener of the query go. *)
TargetRejected ==
  /\ Receive("rejected")
  /\ IF listening
     THEN /\ listening' = FALSE
          /\ outstanding' = 0
          /\ targetCurrent' = FALSE
          /\ view' = "none"
          /\ Post(listeners, "error")
          /\ listeners' = {}
     ELSE UNCHANGED <<listening, target, view, events, listeners>>
  /\ UNCHANGED <<raised, currentWatch>>

-----------------------------------------------------------------------------
(***************************************************************************)
(* The backend.                                                            *)
(***************************************************************************)

Respond(kind, watch) == responses' = Append(responses, [kind |-> kind, watch |-> watch])

TakeRequest(op) ==
  /\ requests # <<>>
  /\ Head(requests).op = op
  /\ requests' = Tail(requests)

BackendRest ==
  UNCHANGED <<app, queues, query, listening, state, idleTimer, target, tracker,
              permitted, history, faults>>

AnswerWatch ==
  /\ TakeRequest("watch")
  /\ Respond(IF permitted THEN "added" ELSE "rejected", Head(requests).watch)
  /\ served' = [at    |-> IF permitted THEN "added" ELSE "none",
                watch |-> Head(requests).watch]
  /\ dirty' = permitted
  /\ BackendRest

(* A target the backend had refused may be removed without an answer. *)
AnswerUnwatch ==
  /\ TakeRequest("unwatch")
  /\ \/ Respond("removed", Head(requests).watch)
     \/ ~permitted /\ UNCHANGED responses
  /\ served' = [served EXCEPT !.at = "none"]
  /\ dirty' = FALSE
  /\ BackendRest

SendCurrent ==
  /\ served.at = "added"
  /\ served' = [served EXCEPT !.at = "current"]
  /\ dirty' = TRUE
  /\ Respond("current", served.watch)
  /\ UNCHANGED requests
  /\ BackendRest

SendSnapshot ==
  /\ dirty
  /\ dirty' = FALSE
  /\ Respond("snapshot", served.watch)
  /\ UNCHANGED <<requests, served>>
  /\ BackendRest

Client ==
  \/ DeliverEvent
  \/ AddQueryListener
  \/ RemoveQueryListener
  \/ StreamOpened
  \/ BackoffElapsed
  \/ OnlineTimeout
  \/ TargetAdded
  \/ TargetRemoved
  \/ TargetIsCurrent
  \/ WatchSnapshot
  \/ TargetRejected

Backend == AnswerWatch \/ AnswerUnwatch \/ SendCurrent \/ SendSnapshot

Next ==
  \/ GetDocs
  \/ Client
  \/ IdleTimeout
  \/ StreamFailed
  \/ RestartNetwork
  \/ Backend

(* Both queues run what is posted to them and the timers of the client     *)
(* fire; the backend may be silent for ever.                               *)
Spec == Init /\ [][Next]_vars /\ WF_vars(Client)

(* The same with a backend that answers while the stream lives. *)
AnsweringSpec == Spec /\ WF_vars(Backend)

-----------------------------------------------------------------------------
(***************************************************************************)
(* Properties.                                                             *)
(***************************************************************************)

Answered == {answers[i].get : i \in 1 .. Len(answers)}

(* The query has listeners, a view and a target together or not at all, so *)
(* "We already listen to query" (sync_engine.cc:103) and "target not       *)
(* currently watched" (remote_store.cc:174) cannot happen.                 *)
QueryIsWatched ==
  /\ (listeners # {}) <=> listening
  /\ (view # "none") <=> listening

(* A get is answered once, although its listener may raise more events     *)
(* before its removal has run (ListenOnce and AsyncEventListener::Mute).   *)
AnsweredOnce ==
  \A i, j \in 1 .. Len(answers) : answers[i].get = answers[j].get => i = j

(* A get that was not answered is on its way in: it waits to be added,     *)
(* listens without a first event, or has its event posted.                 *)
NoGetForgotten ==
  \A g \in 1 .. calls \ Answered :
    \/ \E i \in 1 .. Len(tasks) : tasks[i] = [op |-> "add", get |-> g]
    \/ g \in Waiting
    \/ \E i \in 1 .. Len(events) : events[i].get = g

(* Every get has one answer, or one on its way.                            *)
OneAnswerEach == AnsweredOnce /\ NoGetForgotten

(* No get waits while the client is offline or its result is synced        *)
(* (ShouldRaiseInitialEvent, query_listener.cc:127), and an offline view   *)
(* is not taken for a synced one (View::ApplyOnlineStateChange).           *)
NobodyWaitsInVain ==
  /\ onlineState = "Offline" \/ view = "synced" => Waiting = {}
  /\ onlineState = "Offline" => view # "synced"

(* The answers the aggregator waits for are those still under way, so a    *)
(* target becomes active exactly when its last request is answered         *)
(* (WatchChangeAggregator::IsActiveTarget).                                *)
OutstandingUnderWay ==
  permitted =>
    outstanding = Len(requests) + Cardinality({i \in 1 .. Len(responses) :
                                                 responses[i].kind \in {"added", "removed"}})

(* The timer runs only in a first attempt, while it is undecided: the      *)
(* three assertions of OnlineStateTracker (lines 62, 68 and 88-90).           *)
TimerMeansUndecided ==
  /\ onlineTimer => onlineState = "Unknown" /\ failures = 0 /\ IsStarted
  /\ onlineState = "Online" => failures = 0

(* The idle timer runs only on a stream that is not needed: "Watch stream  *)
(* was stopped gracefully while still needed" cannot happen                *)
(* (remote_store.cc:237).                                                  *)
IdleMeansUnneeded == idleTimer => state = "Open" /\ ~listening

(* Listeners, view, target, stream and timers agree.                       *)
LayersAgree ==
  /\ QueryIsWatched
  /\ NobodyWaitsInVain
  /\ OutstandingUnderWay
  /\ TimerMeansUndecided
  /\ IdleMeansUnneeded

(* The view becomes synced only by a snapshot of the present watch, never  *)
(* by one that an earlier watch of the same target left behind.            *)
SnapshotOfPresentWatch ==
  [][view # "synced" /\ view' = "synced" => Head(responses).watch = watches]_vars

(* Every get is answered, by the backend or from the cache. *)
EveryGetAnswered == \A g \in Gets : (calls >= g) ~> (g \in Answered)

(* Nothing is listened to for ever: answered gets are removed. *)
TargetReleased == listening ~> ~listening

(* A get ends: it is answered, and leaves no listen behind.                *)
GetsEnd == EveryGetAnswered /\ TargetReleased

(* A view is synced only when the backend has sent CURRENT since the       *)
(* target was last added: remote_event.h:158 says that 'current' "implies  *)
(* that the Watch backend has sent us all changes up to the point at which *)
(* the target was added".                                                  *)
SyncedMeansCurrent ==
  [][view # "synced" /\ view' = "synced" => currentWatch = watches]_vars

=============================================================================
