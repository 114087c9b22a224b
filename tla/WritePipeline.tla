--------------------------- MODULE WritePipeline ---------------------------
(***************************************************************************)
(* The write path of the Firestore client behind AddView's `setData`: the  *)
(* persistent mutation queue (LevelDbMutationQueue), the callbacks of      *)
(* SyncEngine, the write pipeline of RemoteStore and the state machine of  *)
(* its WriteStream, up to the backend and back.                            *)
(*                                                                         *)
(* The client is one worker queue: every action below is one task of it,   *)
(* run to the end, but the two crashes that cut a task between its write   *)
(* to LevelDB and its callback.  Every task leaves the network enabled     *)
(* (RestartNetwork disables it only while it runs), the app has no Auth,   *)
(* so a token request never fails, and GrpcStream::Start reports the       *)
(* stream open at once.  Delays, stream tokens and local views are left    *)
(* out.  The backend answers a stream's requests in order and loses those  *)
(* that are left when the stream closes; a batch is one write of one       *)
(* document, numbered in issue order.                                      *)
(***************************************************************************)
EXTENDS Integers, Sequences, SequencesExt

CONSTANTS
  MaxWrites,         \* bound on the calls of setData
  Refused,           \* the writes the backend's rules refuse
  MaxPendingWrites,  \* kMaxPendingWrites
  MaxFaults          \* bound on stream errors, network changes and crashes

ASSUME WritePipelineAssumption ==
  /\ MaxWrites \in Nat
  /\ Refused \subseteq 1 .. MaxWrites
  /\ MaxPendingWrites \in Nat \ {0}
  /\ MaxFaults \in Nat

VARIABLES
  running,        \* the app runs
  mutationQueue,  \* LevelDB: the unacknowledged batches, by batch id
  nextBatchId,    \* next_batch_id_
  callbacks,      \* mutation_callbacks_: the batches that have one
  pipeline,       \* write_pipeline_
  state,          \* state_ of the write stream
  handshake,      \* handshake_complete_, with the exchange that leads to it
  closeCount,     \* close_count_
  tokenRequests,  \* answers of GetToken that are queued, by close count
  idleTimer,      \* idleness_timer_ is set
  requests,       \* batches on their way to the backend
  responses,      \* batches whose answer is on its way back
  refusal,        \* the last of them closes the stream with an error
  document,       \* the write the backend's document holds
  issued,         \* writes issued so far (history)
  told,           \* writes whose caller was told (history)
  faults          \* faults so far

disk    == <<mutationQueue>>
stream  == <<state, handshake, closeCount, tokenRequests, idleTimer,
             requests, responses, refusal>>
client  == <<nextBatchId, callbacks, pipeline>>
vars    == <<running, disk, stream, client, document, issued, told, faults>>

Writes == 1 .. MaxWrites
Batch  == [id : Nat \ {0}, write : Writes]

TypeOK ==
  /\ running \in BOOLEAN
  /\ mutationQueue \in Seq(Batch)
  /\ nextBatchId \in Nat \ {0}
  /\ callbacks \subseteq Batch
  /\ pipeline \in Seq(Batch)
  /\ Len(pipeline) <= MaxPendingWrites
  /\ state \in {"Initial", "Starting", "Open", "Error", "Backoff"}
  /\ handshake \in {"none", "sent", "answered", "complete"}
  /\ closeCount \in Nat
  /\ tokenRequests \subseteq Nat
  /\ idleTimer \in BOOLEAN
  /\ requests \in Seq(Batch)
  /\ responses \in Seq(Batch)
  /\ refusal \in BOOLEAN
  /\ document \in 0 .. MaxWrites
  /\ issued \in 0 .. MaxWrites
  /\ told \in Seq(Writes)
  /\ faults \in 0 .. MaxFaults

Init ==
  /\ running = FALSE
  /\ mutationQueue = <<>>
  /\ nextBatchId = 1
  /\ callbacks = {}
  /\ pipeline = <<>>
  /\ state = "Initial"
  /\ handshake = "none"
  /\ closeCount = 0
  /\ tokenRequests = {}
  /\ idleTimer = FALSE
  /\ requests = <<>>
  /\ responses = <<>>
  /\ refusal = FALSE
  /\ document = 0
  /\ issued = 0
  /\ told = <<>>
  /\ faults = 0

-----------------------------------------------------------------------------
(***************************************************************************)
(* The mutation queue.                                                     *)
(***************************************************************************)

LoadNextBatchId(queue) ==
  IF queue = <<>> THEN 1 ELSE queue[Len(queue)].id + 1

(* The position of the first batch whose id is above `id`. *)
NextAfter(queue, id) ==
  CHOOSE k \in 1 .. Len(queue) + 1 :
    /\ \A i \in 1 .. k - 1 : queue[i].id <= id
    /\ \A i \in k .. Len(queue) : queue[i].id > id

(* Removing a batch; it is there, or the removal fails an assertion. *)
Without(queue, batch) ==
  RemoveAt(queue, CHOOSE i \in 1 .. Len(queue) : queue[i] = batch)

-----------------------------------------------------------------------------
(***************************************************************************)
(* The stream.                                                             *)
(***************************************************************************)

IsStarted(s) == s \in {"Starting", "Open", "Backoff"}

(* Start, from state s: after an error a stream backs off first. *)
Start(s) ==
  IF s = "Error"
  THEN state' = "Backoff" /\ UNCHANGED tokenRequests
  ELSE state' = "Starting" /\ tokenRequests' = tokenRequests \cup {closeCount'}

(* Close: what a stream forgets; its state is set by the caller. *)
Close ==
  /\ closeCount' = closeCount + 1
  /\ handshake' = "none"
  /\ idleTimer' = FALSE
  /\ requests' = <<>>
  /\ responses' = <<>>
  /\ refusal' = FALSE

(* Mutant: filling starts from the front of the queue again. *)
LastBatchIdForgotten(pipe) == -1

-----------------------------------------------------------------------------
(***************************************************************************)
(* The pipeline.                                                           *)
(***************************************************************************)

LastBatchId(pipe) == IF pipe = <<>> THEN -1 ELSE pipe[Len(pipe)].id

(* Mutant: one batch more than fits is taken. *)
FilledOneMore(pipe, queue) ==
  LET first == NextAfter(queue, LastBatchId(pipe))
      last  == first + MaxPendingWrites - Len(pipe)
  IN  pipe \o SubSeq(queue, first, IF last < Len(queue) THEN last ELSE Len(queue))

(* The pipeline once it is filled with what follows in the queue. *)
Filled(pipe, queue) ==
  LET first == NextAfter(queue, LastBatchId(pipe))
      last  == first + MaxPendingWrites - Len(pipe) - 1
  IN  pipe \o SubSeq(queue, first, IF last < Len(queue) THEN last ELSE Len(queue))

(* FillWritePipeline on a stream that is not open, in state s. *)
FillClosed(pipe, queue, s) ==
  /\ pipeline' = Filled(pipe, queue)
  /\ IF pipeline' # <<>> /\ ~IsStarted(s)
     THEN Start(s)
     ELSE state' = s /\ UNCHANGED tokenRequests

(* The part of the pipeline that is sent while it is filled. *)
SentByFill(pipe, queue) ==
  IF state = "Open" /\ handshake = "complete"
  THEN SubSeq(Filled(pipe, queue), Len(pipe) + 1, Len(Filled(pipe, queue)))
  ELSE <<>>

(* FillWritePipeline on the stream as it is. *)
FillWritePipeline(pipe, queue) ==
  /\ UNCHANGED <<handshake, closeCount>>
  /\ FillClosed(pipe, queue, state)
  /\ requests' = requests \o SentByFill(pipe, queue)
  /\ idleTimer' = (/\ SentByFill(pipe, queue) = <<>>
                   /\ idleTimer \/ (pipeline' = <<>> /\ state = "Open"))

(* NotifyUser: the callback is called, if this process registered one. *)
NotifyUser(batch) ==
  /\ callbacks' = callbacks \ {batch}
  /\ told' = IF batch \in callbacks THEN Append(told, batch.write) ELSE told

-----------------------------------------------------------------------------
(***************************************************************************)
(* Tasks of the worker queue.                                              *)
(***************************************************************************)

(* setData: SyncEngine::WriteMutations. *)
WriteMutations ==
  /\ running
  /\ issued < MaxWrites
  /\ LET batch == [id |-> nextBatchId, write |-> issued + 1]
     IN  /\ mutationQueue' = Append(mutationQueue, batch)
         /\ callbacks' = callbacks \cup {batch}
         /\ FillWritePipeline(pipeline, mutationQueue')
  /\ nextBatchId' = nextBatchId + 1
  /\ issued' = issued + 1
  /\ UNCHANGED <<running, responses, refusal, document, told, faults>>

(* Mutant: the close count is not compared. *)
TokenAnsweredLate(c) ==
  /\ c \in tokenRequests
  /\ tokenRequests' = tokenRequests \ {c}
  /\ state' = "Open"
  /\ handshake' = "sent"
  /\ idleTimer' = FALSE
  /\ UNCHANGED <<running, disk, client, closeCount, requests, responses,
                 refusal, document, issued, told, faults>>

(* The token asked for at close count c: ResumeStartWithCredentials opens  *)
(* the stream and sends the handshake, unless it was closed since.         *)
TokenAnswered(c) ==
  /\ c \in tokenRequests
  /\ tokenRequests' = tokenRequests \ {c}
  /\ IF c = closeCount
     THEN /\ state' = "Open"
          /\ handshake' = "sent"
          /\ idleTimer' = FALSE
     ELSE UNCHANGED <<state, handshake, idleTimer>>
  /\ UNCHANGED <<running, disk, client, closeCount, requests, responses,
                 refusal, document, issued, told, faults>>

(* OnWriteStreamHandshakeComplete: the whole pipeline is sent. *)
HandshakeComplete ==
  /\ handshake = "answered"
  /\ handshake' = "complete"
  /\ requests' = requests \o pipeline
  /\ idleTimer' = (idleTimer /\ pipeline = <<>>)
  /\ UNCHANGED <<running, disk, client, state, closeCount, tokenRequests,
                 responses, refusal, document, issued, told, faults>>

(* An answer that reports a stored batch. *)
IsResult == responses # <<>> /\ ~(refusal /\ Len(responses) = 1)

(* OnWriteStreamMutationResult. *)
MutationResult ==
  /\ IsResult
  /\ mutationQueue' = Without(mutationQueue, Head(pipeline))
  /\ NotifyUser(Head(pipeline))
  /\ responses' = Tail(responses)
  /\ FillWritePipeline(Tail(pipeline), mutationQueue')
  /\ UNCHANGED <<running, nextBatchId, refusal, document, issued, faults>>

(* The stream ends with a permanent error: OnWriteStreamClose drops the    *)
(* front of the pipeline (HandleWriteError), inhibits the backoff and      *)
(* starts the stream for the rest.                                         *)
WriteRejected ==
  /\ refusal
  /\ Len(responses) = 1
  /\ mutationQueue' = Without(mutationQueue, Head(pipeline))
  /\ NotifyUser(Head(pipeline))
  /\ Close
  /\ FillClosed(Tail(pipeline), mutationQueue', "Initial")
  /\ UNCHANGED <<running, nextBatchId, document, issued, faults>>

(* Mutant: a transient error drops the front of the pipeline as well. *)
StreamFailedForFront ==
  /\ state = "Open"
  /\ faults < MaxFaults
  /\ pipeline # <<>>
  /\ mutationQueue' = Without(mutationQueue, Head(pipeline))
  /\ NotifyUser(Head(pipeline))
  /\ Close
  /\ FillClosed(Tail(pipeline), mutationQueue', "Initial")
  /\ faults' = faults + 1
  /\ UNCHANGED <<running, nextBatchId, document, issued>>

(* Mutant: the stream is not started again. *)
StreamFailedForGood ==
  /\ state = "Open"
  /\ faults < MaxFaults
  /\ Close
  /\ state' = "Error"
  /\ faults' = faults + 1
  /\ UNCHANGED <<running, disk, client, tokenRequests, document, issued, told>>

(* The stream ends with a transient error: the pipeline stays. *)
StreamFailed ==
  /\ state = "Open"
  /\ faults < MaxFaults
  /\ Close
  /\ IF pipeline # <<>>
     THEN Start("Error")
     ELSE state' = "Error" /\ UNCHANGED tokenRequests
  /\ faults' = faults + 1
  /\ UNCHANGED <<running, disk, client, document, issued, told>>

(* The timer of BackoffAndTryRestarting. *)
BackoffElapsed ==
  /\ state = "Backoff"
  /\ UNCHANGED closeCount
  /\ Start("Initial")
  /\ UNCHANGED <<running, disk, client, handshake, idleTimer, requests,
                 responses, refusal, document, issued, told, faults>>

(* The idle timer stops the stream gracefully. *)
IdleTimeout ==
  /\ idleTimer
  /\ Close
  /\ state' = "Initial"
  /\ UNCHANGED <<running, disk, client, tokenRequests, document, issued, told,
                 faults>>

(* The network has changed or the app has come to the foreground:          *)
(* RestartNetwork stops the stream, empties the pipeline and fills it.     *)
RestartNetwork ==
  /\ running
  /\ faults < MaxFaults
  /\ IF IsStarted(state)
     THEN Close
     ELSE UNCHANGED <<closeCount, handshake, idleTimer, requests, responses,
                      refusal>>
  /\ FillClosed(<<>>, mutationQueue, "Initial")
  /\ faults' = faults + 1
  /\ UNCHANGED <<running, disk, nextBatchId, callbacks, document, issued, told>>

-----------------------------------------------------------------------------
(***************************************************************************)
(* The backend.                                                            *)
(***************************************************************************)

AnswerHandshake ==
  /\ handshake = "sent"
  /\ handshake' = "answered"
  /\ UNCHANGED <<running, disk, client, state, closeCount, tokenRequests,
                 idleTimer, requests, responses, refusal, document, issued,
                 told, faults>>

(* A batch is stored, or refused; the refusal is the stream's last answer. *)
AnswerWrite ==
  /\ requests # <<>>
  /\ ~refusal
  /\ requests' = Tail(requests)
  /\ responses' = Append(responses, Head(requests))
  /\ refusal' = (Head(requests).write \in Refused)
  /\ document' = IF refusal' THEN document ELSE Head(requests).write
  /\ UNCHANGED <<running, disk, client, state, handshake, closeCount,
                 tokenRequests, idleTimer, issued, told, faults>>

-----------------------------------------------------------------------------
(***************************************************************************)
(* Processes.                                                              *)
(***************************************************************************)

(* The process is killed: its memory is that of the next one. *)
Die ==
  /\ running
  /\ faults < MaxFaults
  /\ running' = FALSE
  /\ nextBatchId' = 1
  /\ callbacks' = {}
  /\ pipeline' = <<>>
  /\ state' = "Initial"
  /\ handshake' = "none"
  /\ closeCount' = 0
  /\ tokenRequests' = {}
  /\ idleTimer' = FALSE
  /\ requests' = <<>>
  /\ responses' = <<>>
  /\ refusal' = FALSE
  /\ faults' = faults + 1
  /\ UNCHANGED <<document, issued>>

Crash == Die /\ UNCHANGED <<disk, told>>

(* HandleSuccessfulWrite is cut between NotifyUser and AcknowledgeBatch. *)
CrashInSuccessfulWrite ==
  /\ IsResult
  /\ Head(pipeline) \in callbacks
  /\ told' = Append(told, Head(pipeline).write)
  /\ Die
  /\ UNCHANGED disk

(* HandleRejectedWrite is cut between RejectBatch and NotifyUser. *)
CrashInRejectedWrite ==
  /\ refusal
  /\ Len(responses) = 1
  /\ mutationQueue' = Without(mutationQueue, Head(pipeline))
  /\ Die
  /\ UNCHANGED told

(* The first use of the client in a process: LevelDbMutationQueue::Start   *)
(* and RemoteStore::Start.                                                 *)
Launch ==
  /\ ~running
  /\ running' = TRUE
  /\ nextBatchId' = LoadNextBatchId(mutationQueue)
  /\ FillWritePipeline(<<>>, mutationQueue)
  /\ UNCHANGED <<disk, callbacks, responses, refusal, document, issued, told,
                 faults>>

WorkerQueue ==
  \/ \E c \in tokenRequests : TokenAnswered(c)
  \/ HandshakeComplete
  \/ MutationResult
  \/ WriteRejected
  \/ BackoffElapsed

Backend == AnswerHandshake \/ AnswerWrite

Next ==
  \/ WriteMutations
  \/ WorkerQueue
  \/ StreamFailed
  \/ IdleTimeout
  \/ RestartNetwork
  \/ Backend
  \/ Crash
  \/ CrashInSuccessfulWrite
  \/ CrashInRejectedWrite
  \/ Launch

(* The worker queue runs what is queued, a backoff ends, and the backend   *)
(* answers; nobody has to launch the app, call setData or go idle, and     *)
(* MaxFaults says that from some time on no stream fails.                  *)
Fairness == WF_vars(WorkerQueue) /\ WF_vars(Backend)

Spec == Init /\ [][Next]_vars /\ Fairness

-----------------------------------------------------------------------------
(***************************************************************************)
(* Properties.                                                             *)
(***************************************************************************)

Settled == issued - Len(mutationQueue)

(* The pipeline is a prefix of the persistent queue, so no batch is        *)
(* skipped, sent in another order, or still in the pipeline once it has    *)
(* been removed (FillWritePipeline, remote_store.cc:370).                  *)
PipelineIsPrefix == IsPrefix(pipeline, mutationQueue)

(* While the stream can carry writes, the answers and requests under way   *)
(* are exactly the pipeline, in its order: a result belongs to the front   *)
(* of the pipeline (remote_store.cc:437), and no batch is sent twice or    *)
(* not at all on one stream, nor any before the handshake is complete.     *)
WireFollowsPipeline ==
  responses \o requests = (IF handshake = "complete" THEN pipeline ELSE <<>>)

(* A batch in the queue is always being worked on: the pipeline is not     *)
(* empty and the stream is on its way (OnWriteStreamClose restarts it).    *)
NeverStalled ==
  running /\ mutationQueue # <<>> => /\ pipeline # <<>>
                                       /\ state \in {"Starting", "Open", "Backoff"}

(* The idle timer only runs while an open stream has nothing left to do:   *)
(* "Write stream was stopped gracefully while still needed" cannot happen  *)
(* (OnWriteStreamClose, remote_store.cc:457).                              *)
IdleWhenDone == idleTimer => state = "Open" /\ mutationQueue = <<>>

(* A token of the present stream is awaited exactly while it is Starting;  *)
(* a stop and a restart in between leave only stale ones, so no stream is  *)
(* opened twice (ResumeStartWithCredentials, stream.cc:127).               *)
OneAttempt == state = "Starting" <=> closeCount \in tokenRequests

(* A callback is registered for a batch that is still in the queue, and    *)
(* for that very write: ids are given again after a restart, and must not  *)
(* reach the callback of another write (mutation_callbacks_).              *)
CallbacksPending == \A b \in callbacks : \E i \in 1 .. Len(mutationQueue) : mutationQueue[i] = b

(* Batch ids increase along the queue and stay below the next one.         *)
IdsIncrease ==
  /\ \A i, j \in 1 .. Len(mutationQueue) :
       i < j => mutationQueue[i].id < mutationQueue[j].id
  /\ running => \A i \in 1 .. Len(mutationQueue) : mutationQueue[i].id < nextBatchId

(* Whatever was resent after lost answers and restarts, the document is    *)
(* never older than a write the client has settled as stored.              *)
NeverBehind == \A w \in 1 .. Settled : w \notin Refused => document >= w

(* The callbacks, the persistent queue, the pipeline, the wire and the     *)
(* document are one order of writes, seen in five places.                  *)
LayersInOrder ==
  /\ PipelineIsPrefix
  /\ WireFollowsPipeline
  /\ CallbacksPending
  /\ IdsIncrease
  /\ NeverBehind

(* The stream is on its way while it is needed, once, and rests otherwise. *)
StreamIsAttended == NeverStalled /\ IdleWhenDone /\ OneAttempt

Promise == INSTANCE Uploads WITH
  settled   <- Settled,
  listening <- {b.write : b \in callbacks}

(* The write path keeps the promise of setData (Uploads): settled in order *)
(* and one by one, only what the backend holds or refuses, told at most    *)
(* once, nothing lost in a crash.                                          *)
KeepsPromise == Promise!Spec

(* Every write that is issued is settled, unless the app is not running    *)
(* (retries of Stream and RemoteStore).                                    *)
EveryWriteSettles == \A w \in Writes : (issued >= w) ~> (Settled >= w \/ ~running)

=============================================================================
