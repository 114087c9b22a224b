------------------------ MODULE WritePipelineProofs ------------------------
(***************************************************************************)
(* Proofs about the write path of the Firestore client, for any number of  *)
(* writes, refusals, places in the pipeline and faults.                    *)
(***************************************************************************)
EXTENDS WritePipeline, TLAPS

Least(m, n) == IF m < n THEN m ELSE n

Increasing(queue) ==
  \A i, j \in 1 .. Len(queue) : i < j => queue[i].id < queue[j].id

(* The pipeline holds what it can of the front of the queue.               *)
IsFull(pipe, queue) ==
  /\ pipe \in Seq(Batch)
  /\ Len(pipe) = Least(Len(queue), MaxPendingWrites)
  /\ \A i \in 1 .. Len(pipe) : pipe[i] = queue[i]

(* The pipeline holds some of the front of the queue.                      *)
IsFront(pipe, queue) ==
  /\ pipe \in Seq(Batch)
  /\ Len(pipe) <= Least(Len(queue), MaxPendingWrites)
  /\ \A i \in 1 .. Len(pipe) : pipe[i] = queue[i]

-----------------------------------------------------------------------------
(***************************************************************************)
(* Lemmas about the queue and the pipeline.                                *)
(***************************************************************************)

(* The batches of a queue have ids and writes.                             *)
LEMMA IdsArePositive ==
  ASSUME NEW queue \in Seq(Batch)
  PROVE  \A i \in 1 .. Len(queue) :
           /\ queue[i] \in Batch
           /\ queue[i].id \in Nat \ {0}
           /\ queue[i].write \in Writes
<1>1. \A i \in 1 .. Len(queue) : queue[i] \in Batch
  OBVIOUS
<1>2. \A batch \in Batch : batch.id \in Nat \ {0} /\ batch.write \in Writes
  BY DEF Batch
<1> QED  BY <1>1, <1>2

(* What follows the n-th batch in the queue is the batch after it.         *)
LEMMA NextAfterFront ==
  ASSUME NEW queue \in Seq(Batch), Increasing(queue),
         NEW pipe, IsFront(pipe, queue)
  PROVE  NextAfter(queue, LastBatchId(pipe)) = Len(pipe) + 1
<1> DEFINE n    == Len(pipe)
           last == LastBatchId(pipe)
           OK(k) == /\ \A i \in 1 .. k - 1 : queue[i].id <= last
                    /\ \A i \in k .. Len(queue) : queue[i].id > last
<1>1. n \in Nat /\ n <= Len(queue) /\ Len(queue) \in Nat
  BY WritePipelineAssumption DEF IsFront, Least
<1>2. \A i \in 1 .. Len(queue) : queue[i].id \in Nat \ {0}
  BY IdsArePositive
<1>3. last \in Int /\ \A i \in 1 .. Len(queue) : queue[i].id <= last <=> i <= n
  <2>1. CASE pipe = <<>>
    BY <2>1, <1>1, <1>2 DEF LastBatchId
  <2>2. CASE pipe # <<>>
    <3>1. n \in 1 .. Len(queue) /\ pipe[n] = queue[n]
      BY <2>2, <1>1 DEF IsFront
    <3>2. last = queue[n].id
      BY <2>2, <3>1 DEF LastBatchId
    <3>3. \A i \in 1 .. Len(queue) :
            (i < n => queue[i].id < queue[n].id) /\ (n < i => queue[n].id < queue[i].id)
      BY <3>1 DEF Increasing
    <3> QED  BY <3>1, <3>2, <3>3, <1>2
  <2> QED  BY <2>1, <2>2
<1> HIDE DEF n, last
<1>4. n + 1 \in 1 .. Len(queue) + 1 /\ OK(n + 1)
  BY <1>1, <1>2, <1>3
<1>5. ASSUME NEW k \in 1 .. Len(queue) + 1, OK(k)
      PROVE  k = n + 1
  <2>1. ~ (k <= n)
    BY <1>1, <1>2, <1>3, <1>5
  <2>2. ~ (n + 1 < k)
    BY <1>1, <1>2, <1>3, <1>5
  <2> QED  BY <1>1, <2>1, <2>2
<1>6. NextAfter(queue, last) = CHOOSE k \in 1 .. Len(queue) + 1 : OK(k)
  BY DEF NextAfter
<1> HIDE DEF OK
<1> QED  BY <1>4, <1>5, <1>6 DEF n, last

(* Filling keeps what is in the pipeline and takes what fits.              *)
LEMMA FilledIsFull ==
  ASSUME NEW queue \in Seq(Batch), Increasing(queue),
         NEW pipe, IsFront(pipe, queue)
  PROVE  IsFull(Filled(pipe, queue), queue)
<1> DEFINE n    == Len(pipe)
           last == n + 1 + MaxPendingWrites - n - 1
           end  == IF last < Len(queue) THEN last ELSE Len(queue)
           rest == SubSeq(queue, n + 1, end)
<1>1. Filled(pipe, queue) = pipe \o rest
  BY NextAfterFront, Zenon DEF Filled
<1>2. /\ n \in Nat /\ n <= Len(queue) /\ Len(queue) \in Nat
      /\ end = Least(Len(queue), MaxPendingWrites) /\ n <= end
      /\ end \in 0 .. Len(queue)
  BY WritePipelineAssumption DEF IsFront, Least
<1> HIDE DEF end
<1>3. /\ rest \in Seq(Batch) /\ Len(rest) = end - n
      /\ \A i \in 1 .. end - n : rest[i] = queue[n + i]
  BY <1>2
<1> HIDE DEF rest
<1>4. /\ pipe \o rest \in Seq(Batch) /\ Len(pipe \o rest) = end
      /\ \A i \in 1 .. end : (pipe \o rest)[i] = queue[i]
  BY <1>2, <1>3 DEF IsFront
<1> QED  BY <1>1, <1>2, <1>4 DEF IsFull

(* The front of the queue is found, and removed, by its id.                *)
LEMMA WithoutFront ==
  ASSUME NEW queue \in Seq(Batch), Increasing(queue), queue # <<>>
  PROVE  Without(queue, queue[1]) = Tail(queue)
<1>1. 1 \in 1 .. Len(queue)
  OBVIOUS
<1>2. ASSUME NEW i \in 1 .. Len(queue), queue[i] = queue[1]
      PROVE  i = 1
  <2>1. queue[1].id \in Nat
    BY <1>1, IdsArePositive
  <2>2. ~ (1 < i)
    BY <1>1, <1>2, <2>1 DEF Increasing
  <2> QED  BY <2>2
<1>3. (CHOOSE i \in 1 .. Len(queue) : queue[i] = queue[1]) = 1
  BY <1>1, <1>2
<1>4. RemoveAt(queue, 1) = Tail(queue)
  BY <1>1 DEF RemoveAt
<1> QED  BY <1>3, <1>4 DEF Without

(* The queue without its front is the queue, shifted by one.               *)
LEMMA TailShifts ==
  ASSUME NEW queue \in Seq(Batch), queue # <<>>
  PROVE  /\ Tail(queue) \in Seq(Batch)
         /\ Len(Tail(queue)) = Len(queue) - 1
         /\ \A i \in 1 .. Len(queue) - 1 : Tail(queue)[i] = queue[i + 1]
  OBVIOUS

(* A full pipeline without its front is a front of the queue without its.  *)
LEMMA TailIsFront ==
  ASSUME NEW queue \in Seq(Batch), NEW pipe, IsFull(pipe, queue), pipe # <<>>
  PROVE  /\ queue # <<>>
         /\ Head(pipe) = queue[1]
         /\ IsFront(Tail(pipe), Tail(queue))
<1>1. pipe \in Seq(Batch) /\ Len(pipe) \in Nat \ {0} /\ Len(queue) \in Nat
  BY DEF IsFull
<1>2. Len(pipe) <= Len(queue) /\ Len(pipe) <= MaxPendingWrites
  BY <1>1, WritePipelineAssumption DEF IsFull, Least
<1>3. queue # <<>>
  BY <1>1, <1>2
<1>4. Head(pipe) = queue[1]
  BY <1>1, <1>2 DEF IsFull
<1>5. \A i \in 1 .. Len(pipe) - 1 : Tail(pipe)[i] = Tail(queue)[i]
  BY <1>1, <1>2, <1>3, TailShifts DEF IsFull
<1>6. Len(Tail(pipe)) <= Least(Len(Tail(queue)), MaxPendingWrites)
  BY <1>1, <1>2, <1>3, TailShifts, WritePipelineAssumption DEF Least
<1> QED  BY <1>1, <1>3, <1>4, <1>5, <1>6, TailShifts DEF IsFront

(* Nothing is a front of every queue.                                      *)
LEMMA EmptyIsFront ==
  ASSUME NEW queue \in Seq(Batch)
  PROVE  IsFront(<<>>, queue)
  BY WritePipelineAssumption DEF IsFront, Least

(* A full pipeline is a front, also of a queue that has grown.             *)
LEMMA FullIsFront ==
  ASSUME NEW queue \in Seq(Batch), NEW pipe, IsFull(pipe, queue)
  PROVE  /\ IsFront(pipe, queue)
         /\ \A batch \in Batch : IsFront(pipe, Append(queue, batch))
  BY WritePipelineAssumption DEF IsFront, IsFull, Least

(* A full pipeline is empty exactly when the queue is.                     *)
LEMMA FullIsEmpty ==
  ASSUME NEW queue \in Seq(Batch), NEW pipe, IsFull(pipe, queue)
  PROVE  pipe = <<>> <=> queue = <<>>
  BY WritePipelineAssumption DEF IsFull, Least

-----------------------------------------------------------------------------
(***************************************************************************)
(* The inductive invariant.                                                *)
(***************************************************************************)

(* The queue is the unsettled writes, in the order they were issued, with  *)
(* ids that increase.                                                      *)
QueueInv ==
  /\ Len(mutationQueue) <= issued
  /\ \A i \in 1 .. Len(mutationQueue) : mutationQueue[i].write = Settled + i
  /\ IdsIncrease

(* The pipeline is always filled.                                          *)
PipelineInv ==
  IF running THEN IsFull(pipeline, mutationQueue) ELSE pipeline = <<>>

(* A stream that carries anything is open, is on its way while there is    *)
(* something to write, and a process that has ended has none.              *)
StreamInv ==
  /\ state = "Open" <=> handshake # "none"
  /\ OneAttempt
  /\ tokenRequests \subseteq 0 .. closeCount
  /\ ~running => state = "Initial" /\ callbacks = {}
  /\ pipeline # <<>> => IsStarted(state)
  /\ idleTimer => handshake = "complete" /\ mutationQueue = <<>>

(* WireFollowsPipeline, element by element.                                *)
WireInv ==
  /\ Len(responses) + Len(requests) =
       IF handshake = "complete" THEN Len(pipeline) ELSE 0
  /\ \A i \in 1 .. Len(responses) : responses[i] = pipeline[i]
  /\ \A i \in 1 .. Len(requests) : requests[i] = pipeline[Len(responses) + i]

(* Of the answers under way at most the last is a refusal, and the others  *)
(* are in the document.                                                    *)
AnswersInv ==
  /\ refusal => responses # <<>>
  /\ \A i \in 1 .. Len(responses) :
       /\ responses[i].write \in Refused <=> (refusal /\ i = Len(responses))
       /\ responses[i].write \notin Refused => document >= responses[i].write

IInv ==
  /\ TypeOK
  /\ QueueInv
  /\ PipelineInv
  /\ StreamInv
  /\ WireInv
  /\ AnswersInv
  /\ NeverBehind
  /\ CallbacksPending

LEMMA InitInv == Init => IInv
<1> SUFFICES ASSUME Init PROVE IInv
  OBVIOUS
<1>1. TypeOK
  <2>1. <<>> \in Seq(Batch) /\ <<>> \in Seq(Writes)
    OBVIOUS
  <2>2. Len(<<>>) <= MaxPendingWrites
    BY WritePipelineAssumption
  <2>3. 0 \in 0 .. MaxWrites /\ 0 \in 0 .. MaxFaults /\ 0 \in Nat /\ 1 \in Nat \ {0}
    BY WritePipelineAssumption
  <2> QED  BY <2>1, <2>2, <2>3, Zenon DEF Init, TypeOK
<1>2. QueueInv
  BY DEF Init, QueueInv, IdsIncrease
<1>3. PipelineInv /\ StreamInv /\ WireInv /\ AnswersInv /\ CallbacksPending
  BY DEF Init, PipelineInv, StreamInv, OneAttempt, WireInv, AnswersInv, CallbacksPending
<1>4. NeverBehind
  BY DEF Init, NeverBehind, Settled
<1> QED  BY <1>1, <1>2, <1>3, <1>4 DEF IInv

(* While an answer is under way, it is about the front of the pipeline,    *)
(* which is the front of the queue.                                        *)
LEMMA FrontIsAnswered ==
  ASSUME IInv, responses # <<>>
  PROVE  /\ running /\ state = "Open" /\ handshake = "complete"
         /\ pipeline # <<>> /\ mutationQueue # <<>>
         /\ Head(pipeline) = mutationQueue[1]
         /\ Head(pipeline) \in Batch
         /\ responses[1] = mutationQueue[1]
         /\ Head(pipeline).write = Settled + 1
         /\ IsFront(Tail(pipeline), Tail(mutationQueue))
         /\ Without(mutationQueue, Head(pipeline)) = Tail(mutationQueue)
         /\ Increasing(Tail(mutationQueue))
<1>1. /\ responses \in Seq(Batch) /\ requests \in Seq(Batch)
      /\ pipeline \in Seq(Batch) /\ mutationQueue \in Seq(Batch)
  BY DEF IInv, TypeOK
<1>2. handshake = "complete" /\ Len(pipeline) > 0
  BY <1>1 DEF IInv, WireInv
<1>3. pipeline # <<>> /\ state = "Open" /\ running
  BY <1>2 DEF IInv, StreamInv
<1>4. IsFull(pipeline, mutationQueue)
  BY <1>3 DEF IInv, PipelineInv
<1>5. /\ mutationQueue # <<>>
      /\ Head(pipeline) = mutationQueue[1]
      /\ IsFront(Tail(pipeline), Tail(mutationQueue))
  BY <1>1, <1>3, <1>4, TailIsFront
<1>6. responses[1] = pipeline[1] /\ pipeline[1] = Head(pipeline)
  BY <1>1, <1>2 DEF IInv, WireInv
<1>7. Increasing(mutationQueue)
  BY DEF IInv, QueueInv, IdsIncrease, Increasing
<1>8. Without(mutationQueue, Head(pipeline)) = Tail(mutationQueue)
  BY <1>1, <1>5, <1>7, WithoutFront
<1>9. 1 \in 1 .. Len(mutationQueue)
  BY <1>1, <1>5
<1>10. mutationQueue[1].write = Settled + 1 /\ mutationQueue[1] \in Batch
  BY <1>1, <1>9, IdsArePositive DEF IInv, QueueInv
<1>11. Increasing(Tail(mutationQueue))
  BY <1>1, <1>5, <1>7, TailShifts DEF Increasing
<1> QED  BY <1>2, <1>3, <1>5, <1>6, <1>8, <1>10, <1>11

(* The batch of setData keeps the ids in order.                            *)
LEMMA AppendIncreases ==
  ASSUME IInv, running,
         NEW batch \in Batch, batch.id = nextBatchId
  PROVE  /\ Append(mutationQueue, batch) \in Seq(Batch)
         /\ Increasing(Append(mutationQueue, batch))
<1>1. mutationQueue \in Seq(Batch) /\ nextBatchId \in Nat
  BY DEF IInv, TypeOK
<1>2. /\ Append(mutationQueue, batch) \in Seq(Batch)
      /\ Len(Append(mutationQueue, batch)) = Len(mutationQueue) + 1
      /\ \A i \in 1 .. Len(mutationQueue) + 1 :
           Append(mutationQueue, batch)[i] =
             IF i <= Len(mutationQueue) THEN mutationQueue[i] ELSE batch
  BY <1>1
<1>3. \A i, j \in 1 .. Len(mutationQueue) :
        i < j => mutationQueue[i].id < mutationQueue[j].id
  BY DEF IInv, QueueInv, IdsIncrease
<1>4. \A i \in 1 .. Len(mutationQueue) : mutationQueue[i].id < nextBatchId
  BY DEF IInv, QueueInv, IdsIncrease
<1> QED  BY <1>1, <1>2, <1>3, <1>4 DEF Increasing

(***************************************************************************)
(* What filling the pipeline does.                                         *)
(***************************************************************************)

States == {"Initial", "Starting", "Open", "Error", "Backoff"}

(* Filling on a stream that is not open: it is started if it is needed.    *)
LEMMA FillClosedEffect ==
  ASSUME NEW queue \in Seq(Batch), Increasing(queue),
         NEW pipe, IsFront(pipe, queue),
         NEW s \in States, FillClosed(pipe, queue, s),
         closeCount' \in Nat, tokenRequests \subseteq 0 .. closeCount',
         s = "Starting" <=> closeCount' \in tokenRequests
  PROVE  /\ IsFull(pipeline', queue)
         /\ state' \in States
         /\ tokenRequests' \subseteq 0 .. closeCount'
         /\ OneAttempt'
         /\ pipeline' # <<>> => IsStarted(state')
         /\ state' = "Open" <=> s = "Open"
<1>1. IsFull(pipeline', queue)
  BY FilledIsFull DEF FillClosed
<1>2. CASE pipeline' # <<>> /\ ~IsStarted(s)
  <2>1. Start(s) /\ s \in {"Initial", "Error"}
    BY <1>2, Zenon DEF FillClosed, IsStarted, States
  <2>2. CASE s = "Error"
    BY <1>1, <2>1, <2>2 DEF Start, States, OneAttempt, IsStarted
  <2>3. CASE s # "Error"
    <3>1. state' = "Starting" /\ tokenRequests' = tokenRequests \cup {closeCount'}
      BY <2>1, <2>3, Zenon DEF Start
    <3>2. tokenRequests' \subseteq 0 .. closeCount'
      BY <3>1
    <3>3. OneAttempt'
      BY <3>1, Zenon DEF OneAttempt
    <3>4. s # "Open"
      BY <2>1
    <3> QED  BY <1>1, <3>1, <3>2, <3>3, <3>4 DEF States, IsStarted
  <2> QED  BY <2>2, <2>3
<1>3. CASE ~(pipeline' # <<>> /\ ~IsStarted(s))
  <2>1. state' = s /\ tokenRequests' = tokenRequests
    BY <1>3, Zenon DEF FillClosed
  <2> QED  BY <1>1, <1>3, <2>1 DEF OneAttempt
<1> QED  BY <1>2, <1>3

(* Filling on the stream as it is.                                         *)
LEMMA FillEffect ==
  ASSUME TypeOK, StreamInv,
         NEW queue \in Seq(Batch), Increasing(queue),
         NEW pipe, IsFront(pipe, queue),
         FillWritePipeline(pipe, queue)
  PROVE  /\ handshake' = handshake /\ closeCount' = closeCount
         /\ IsFull(pipeline', queue)
         /\ state' \in States
         /\ tokenRequests' \subseteq 0 .. closeCount'
         /\ OneAttempt'
         /\ pipeline' # <<>> => IsStarted(state')
         /\ state' = "Open" <=> state = "Open"
<1>1. /\ handshake' = handshake /\ closeCount' = closeCount
      /\ FillClosed(pipe, queue, state)
  BY DEF FillWritePipeline
<1>2. /\ closeCount' \in Nat /\ tokenRequests \subseteq 0 .. closeCount'
      /\ state \in States
      /\ state = "Starting" <=> closeCount' \in tokenRequests
  BY <1>1 DEF TypeOK, StreamInv, OneAttempt, States
<1> QED  BY <1>1, <1>2, FillClosedEffect

(* What is sent is what was taken, once the handshake is complete.         *)
LEMMA FillSends ==
  ASSUME TypeOK, StreamInv,
         NEW queue \in Seq(Batch), Increasing(queue),
         NEW pipe, IsFront(pipe, queue),
         FillWritePipeline(pipe, queue)
  PROVE  /\ requests' = requests \o (IF handshake = "complete"
                                     THEN SubSeq(pipeline', Len(pipe) + 1, Len(pipeline'))
                                     ELSE <<>>)
         /\ requests' \in Seq(Batch)
         /\ Len(pipe) <= Len(pipeline')
<1>1. pipeline' = Filled(pipe, queue) /\ requests' = requests \o SentByFill(pipe, queue)
  BY DEF FillWritePipeline, FillClosed
<1>2. handshake = "complete" => state = "Open"
  BY DEF StreamInv
<1>3. SentByFill(pipe, queue) = IF handshake = "complete"
                                THEN SubSeq(pipeline', Len(pipe) + 1, Len(pipeline'))
                                ELSE <<>>
  BY <1>1, <1>2, Zenon DEF SentByFill
<1>4. IsFull(pipeline', queue)
  BY FillEffect
<1>5. pipeline' \in Seq(Batch) /\ Len(pipe) \in Nat /\ Len(pipe) <= Len(pipeline')
  BY <1>4, WritePipelineAssumption DEF IsFull, IsFront, Least
<1>6. requests \in Seq(Batch)
  BY DEF TypeOK
<1>7. SubSeq(pipeline', Len(pipe) + 1, Len(pipeline')) \in Seq(Batch)
  BY <1>5
<1>8. requests' \in Seq(Batch)
  BY <1>1, <1>3, <1>6, <1>7
<1> QED  BY <1>1, <1>3, <1>5, <1>8

(* Filling keeps the idle timer off while there is something to write.     *)
LEMMA FillIdles ==
  ASSUME TypeOK, StreamInv,
         NEW queue \in Seq(Batch), Increasing(queue),
         NEW pipe, IsFront(pipe, queue),
         FillWritePipeline(pipe, queue),
         idleTimer => pipe = <<>>
  PROVE  /\ idleTimer' \in BOOLEAN
         /\ idleTimer' => handshake' # "none" /\ queue = <<>>
<1>1. idleTimer' = (/\ SentByFill(pipe, queue) = <<>>
                    /\ idleTimer \/ (pipeline' = <<>> /\ state = "Open"))
  BY DEF FillWritePipeline
<1>2. IsFull(pipeline', queue) /\ pipeline' = Filled(pipe, queue) /\ handshake' = handshake
  BY FillEffect DEF FillWritePipeline, FillClosed
<1>3. pipeline' = <<>> <=> queue = <<>>
  BY <1>2, FullIsEmpty
<1>4. ASSUME idleTimer, SentByFill(pipe, queue) = <<>>
      PROVE  pipeline' = <<>>
  <2>1. state = "Open" /\ handshake = "complete" /\ pipe = <<>>
    BY <1>4 DEF StreamInv
  <2>2. SentByFill(pipe, queue) = SubSeq(pipeline', 1, Len(pipeline'))
    BY <2>1, <1>2 DEF SentByFill
  <2>3. pipeline' \in Seq(Batch)
    BY <1>2 DEF IsFull
  <2> QED  BY <1>4, <2>2, <2>3
<1>5. idleTimer => handshake # "none"
  BY DEF StreamInv
<1>6. state = "Open" => handshake # "none"
  BY DEF StreamInv
<1>7. idleTimer' => SentByFill(pipe, queue) = <<>> /\ (idleTimer \/ (pipeline' = <<>> /\ state = "Open"))
  BY <1>1, Zenon
<1>8. idleTimer' \in BOOLEAN
  BY <1>1, Zenon
<1> QED  BY <1>2, <1>3, <1>4, <1>5, <1>6, <1>7, <1>8, Zenon

-----------------------------------------------------------------------------
(***************************************************************************)
(* Each part of the invariant is kept by every step.                       *)
(***************************************************************************)

(* Settling the front of the queue.                                        *)
LEMMA QueueSettles ==
  ASSUME IInv, responses # <<>>,
         mutationQueue' = Without(mutationQueue, Head(pipeline)),
         issued' = issued,
         running' => running /\ nextBatchId' = nextBatchId
  PROVE  /\ mutationQueue' = Tail(mutationQueue)
         /\ mutationQueue' \in Seq(Batch)
         /\ Settled' = Settled + 1
         /\ QueueInv'
<1>1. mutationQueue \in Seq(Batch) /\ mutationQueue # <<>> /\ issued \in Nat
  BY FrontIsAnswered, WritePipelineAssumption DEF IInv, TypeOK
<1>2. mutationQueue' = Tail(mutationQueue)
  BY FrontIsAnswered
<1>3. /\ mutationQueue' \in Seq(Batch)
      /\ Len(mutationQueue) \in Nat
      /\ Len(mutationQueue') = Len(mutationQueue) - 1
      /\ \A i \in 1 .. Len(mutationQueue) - 1 : mutationQueue'[i] = mutationQueue[i + 1]
  BY <1>1, <1>2, TailShifts
<1>4. Settled' = Settled + 1 /\ Settled \in Int
  <2>1. Settled' = issued - Len(mutationQueue') /\ Settled = issued - Len(mutationQueue)
    BY Zenon DEF Settled
  <2>2. Len(mutationQueue') = Len(mutationQueue) - 1 /\ Len(mutationQueue) \in Nat
    BY <1>3
  <2> QED  BY <1>1, <2>1, <2>2
<1>5. Len(mutationQueue') <= issued'
  BY <1>1, <1>3 DEF IInv, QueueInv
<1>6. \A i \in 1 .. Len(mutationQueue') : mutationQueue'[i].write = Settled' + i
  BY <1>3, <1>4 DEF IInv, QueueInv
<1>7. Increasing(mutationQueue')
  BY <1>2, FrontIsAnswered
<1>8. running' => \A i \in 1 .. Len(mutationQueue') : mutationQueue'[i].id < nextBatchId'
  BY <1>3 DEF IInv, QueueInv, IdsIncrease
<1> QED  BY <1>2, <1>3, <1>4, <1>5, <1>6, <1>7, <1>8 DEF QueueInv, IdsIncrease, Increasing

(* The queue stays as it is.                                               *)
LEMMA QueueStays ==
  ASSUME QueueInv, UNCHANGED <<mutationQueue, issued>>,
         running' => running /\ nextBatchId' = nextBatchId
  PROVE  QueueInv' /\ Settled' = Settled
  BY DEF QueueInv, IdsIncrease, Settled

(* The queue takes a write.                                                *)
LEMMA QueueGrows ==
  ASSUME IInv, WriteMutations
  PROVE  /\ mutationQueue' \in Seq(Batch)
         /\ \E batch \in Batch :
              /\ batch.write = issued + 1
              /\ mutationQueue' = Append(mutationQueue, batch)
              /\ callbacks' = callbacks \cup {batch}
         /\ Settled' = Settled
         /\ QueueInv'
<1> DEFINE batch == [id |-> nextBatchId, write |-> issued + 1]
<1>1. /\ running /\ running' /\ issued < MaxWrites
      /\ mutationQueue' = Append(mutationQueue, batch)
      /\ callbacks' = callbacks \cup {batch}
      /\ issued' = issued + 1 /\ nextBatchId' = nextBatchId + 1
  BY DEF WriteMutations
<1>2. /\ mutationQueue \in Seq(Batch) /\ nextBatchId \in Nat \ {0}
      /\ issued \in 0 .. MaxWrites /\ MaxWrites \in Nat
  BY WritePipelineAssumption DEF IInv, TypeOK
<1>3. batch \in Batch /\ batch.id = nextBatchId /\ batch.write = issued + 1
  BY <1>1, <1>2 DEF Batch, Writes
<1> HIDE DEF batch
<1>4. /\ mutationQueue' \in Seq(Batch)
      /\ Len(mutationQueue) \in Nat
      /\ Len(mutationQueue') = Len(mutationQueue) + 1
      /\ \A i \in 1 .. Len(mutationQueue) : mutationQueue'[i] = mutationQueue[i]
      /\ mutationQueue'[Len(mutationQueue) + 1] = batch
  BY <1>1, <1>2, <1>3
<1>5. Settled' = Settled /\ Settled \in Int /\ Settled = issued - Len(mutationQueue)
  BY <1>1, <1>2, <1>4 DEF Settled
<1>6. Increasing(mutationQueue')
  BY <1>1, <1>3, AppendIncreases
<1>7. Len(mutationQueue') <= issued'
  BY <1>1, <1>2, <1>4 DEF IInv, QueueInv
<1>8. ASSUME NEW i \in 1 .. Len(mutationQueue')
      PROVE  mutationQueue'[i].write = Settled' + i /\ mutationQueue'[i].id < nextBatchId'
  <2>1. CASE i = Len(mutationQueue) + 1
    BY <2>1, <1>1, <1>2, <1>3, <1>4, <1>5
  <2>2. CASE i # Len(mutationQueue) + 1
    <3>1. i \in 1 .. Len(mutationQueue) /\ mutationQueue'[i] = mutationQueue[i]
      BY <2>2, <1>4
    <3>2. mutationQueue[i].id < nextBatchId /\ mutationQueue[i].id \in Nat
      BY <3>1, <1>1, <1>2, IdsArePositive DEF IInv, QueueInv, IdsIncrease
    <3>3. mutationQueue[i].write = Settled + i
      BY <3>1 DEF IInv, QueueInv
    <3> QED  BY <3>1, <3>2, <3>3, <1>1, <1>2, <1>5
  <2> QED  BY <2>1, <2>2
<1> QED  BY <1>1, <1>3, <1>4, <1>5, <1>6, <1>7, <1>8 DEF QueueInv, IdsIncrease, Increasing

LEMMA QueueStep ==
  ASSUME IInv, [Next]_vars
  PROVE  QueueInv'
<1>1. QueueInv
  BY DEF IInv
<1>2. CASE WriteMutations
  BY <1>2, QueueGrows
<1>3. CASE MutationResult
  <2>1. responses # <<>>
    BY <1>3 DEF MutationResult, IsResult
  <2> QED  BY <1>3, <2>1, QueueSettles DEF MutationResult
<1>4. CASE WriteRejected
  <2>1. responses # <<>>
    BY <1>4 DEF WriteRejected
  <2> QED  BY <1>4, <2>1, QueueSettles DEF WriteRejected
<1>5. CASE CrashInRejectedWrite
  <2>1. responses # <<>> /\ ~running' /\ issued' = issued
    BY <1>5 DEF CrashInRejectedWrite, Die
  <2> QED  BY <1>5, <2>1, QueueSettles DEF CrashInRejectedWrite
<1>6. CASE Crash \/ CrashInSuccessfulWrite
  BY <1>1, <1>6, QueueStays DEF Crash, CrashInSuccessfulWrite, Die, disk
<1>7. CASE Launch
  <2>1. /\ UNCHANGED <<mutationQueue, issued>> /\ nextBatchId' = LoadNextBatchId(mutationQueue)
        /\ mutationQueue \in Seq(Batch)
    BY <1>7 DEF Launch, disk, IInv, TypeOK
  <2>2. \A i, j \in 1 .. Len(mutationQueue) :
          i < j => mutationQueue[i].id < mutationQueue[j].id
    BY <1>1 DEF QueueInv, IdsIncrease
  <2>3. ASSUME NEW i \in 1 .. Len(mutationQueue)
        PROVE  mutationQueue[i].id < nextBatchId'
    <3>1. nextBatchId' = mutationQueue[Len(mutationQueue)].id + 1
      BY <2>1 DEF LoadNextBatchId
    <3>2. /\ mutationQueue[i].id \in Nat
          /\ mutationQueue[Len(mutationQueue)].id \in Nat
          /\ Len(mutationQueue) \in 1 .. Len(mutationQueue)
      BY <2>1, IdsArePositive
    <3> QED  BY <2>2, <3>1, <3>2
  <2> QED  BY <1>1, <2>1, <2>2, <2>3 DEF QueueInv, IdsIncrease, Settled
<1>8. CASE \/ \E c \in tokenRequests : TokenAnswered(c)
           \/ HandshakeComplete
           \/ BackoffElapsed
           \/ StreamFailed
           \/ IdleTimeout
           \/ RestartNetwork
           \/ Backend
           \/ UNCHANGED vars
  <2>1. UNCHANGED <<mutationQueue, issued, running, nextBatchId>>
    BY <1>8 DEF TokenAnswered, HandshakeComplete, BackoffElapsed, StreamFailed,
                IdleTimeout, RestartNetwork, Backend, AnswerHandshake, AnswerWrite,
                vars, disk, client
  <2> QED  BY <1>1, <2>1, QueueStays
<1> QED  BY <1>2, <1>3, <1>4, <1>5, <1>6, <1>7, <1>8 DEF Next, WorkerQueue

(* What the actions that fill the pipeline fill it from.                   *)
LEMMA WriteFills ==
  ASSUME IInv, WriteMutations
  PROVE  /\ mutationQueue' \in Seq(Batch) /\ Increasing(mutationQueue')
         /\ IsFront(pipeline, mutationQueue')
         /\ FillWritePipeline(pipeline, mutationQueue')
<1>1. running /\ FillWritePipeline(pipeline, mutationQueue')
  BY DEF WriteMutations
<1>2. mutationQueue' \in Seq(Batch) /\ QueueInv'
  BY QueueGrows
<1>3. PICK batch \in Batch : mutationQueue' = Append(mutationQueue, batch)
  BY QueueGrows
<1>4. IsFull(pipeline, mutationQueue) /\ mutationQueue \in Seq(Batch)
  BY <1>1 DEF IInv, PipelineInv, TypeOK
<1>5. IsFront(pipeline, mutationQueue')
  BY <1>3, <1>4, FullIsFront
<1> QED  BY <1>1, <1>2, <1>5 DEF QueueInv, IdsIncrease, Increasing

LEMMA ResultFills ==
  ASSUME IInv, MutationResult
  PROVE  /\ mutationQueue' \in Seq(Batch) /\ Increasing(mutationQueue')
         /\ IsFront(Tail(pipeline), mutationQueue')
         /\ FillWritePipeline(Tail(pipeline), mutationQueue')
<1>1. responses # <<>> /\ FillWritePipeline(Tail(pipeline), mutationQueue')
  BY DEF MutationResult, IsResult
<1>2. mutationQueue' = Tail(mutationQueue) /\ mutationQueue' \in Seq(Batch)
  BY <1>1, QueueSettles DEF MutationResult
<1> QED  BY <1>1, <1>2, FrontIsAnswered

LEMMA RejectionFills ==
  ASSUME IInv, WriteRejected
  PROVE  /\ mutationQueue' \in Seq(Batch) /\ Increasing(mutationQueue')
         /\ IsFront(Tail(pipeline), mutationQueue')
         /\ FillClosed(Tail(pipeline), mutationQueue', "Initial")
<1>1. responses # <<>> /\ FillClosed(Tail(pipeline), mutationQueue', "Initial")
  BY DEF WriteRejected
<1>2. mutationQueue' = Tail(mutationQueue) /\ mutationQueue' \in Seq(Batch)
  BY <1>1, QueueSettles DEF WriteRejected
<1> QED  BY <1>1, <1>2, FrontIsAnswered

LEMMA EmptyFills ==
  ASSUME IInv
  PROVE  /\ mutationQueue \in Seq(Batch) /\ Increasing(mutationQueue)
         /\ IsFront(<<>>, mutationQueue)
  BY EmptyIsFront DEF IInv, TypeOK, QueueInv, IdsIncrease, Increasing

(* A closed stream awaits no token of its next attempt.                    *)
LEMMA CloseForgets ==
  ASSUME IInv, Close
  PROVE  /\ closeCount' \in Nat
         /\ tokenRequests \subseteq 0 .. closeCount'
         /\ closeCount' \notin tokenRequests
         /\ handshake' = "none" /\ idleTimer' = FALSE
         /\ requests' = <<>> /\ responses' = <<>> /\ refusal' = FALSE
<1>1. closeCount \in Nat /\ closeCount' = closeCount + 1 /\ tokenRequests \subseteq 0 .. closeCount
  BY DEF IInv, TypeOK, StreamInv, Close
<1> QED  BY <1>1 DEF Close

LEMMA RejectionStarts ==
  ASSUME IInv, WriteRejected
  PROVE  /\ IsFull(pipeline', mutationQueue')
         /\ state' \in States /\ state' # "Open"
         /\ tokenRequests' \subseteq 0 .. closeCount'
         /\ OneAttempt'
         /\ pipeline' # <<>> => IsStarted(state')
<1>1. Close /\ "Initial" \in States
  BY DEF WriteRejected, States
<1> QED  BY <1>1, RejectionFills, CloseForgets, FillClosedEffect

(* RestartNetwork closes a stream that was started; one that was not had   *)
(* nothing to write.                                                       *)
LEMMA NetworkStarts ==
  ASSUME IInv, RestartNetwork
  PROVE  /\ IsFull(pipeline', mutationQueue)
         /\ state' \in States /\ state' # "Open"
         /\ tokenRequests' \subseteq 0 .. closeCount'
         /\ closeCount' \in Nat
         /\ OneAttempt'
         /\ pipeline' # <<>> => IsStarted(state')
         /\ handshake' = "none" /\ idleTimer' = FALSE
         /\ requests' = <<>> /\ responses' = <<>> /\ refusal' = FALSE
<1>1. FillClosed(<<>>, mutationQueue, "Initial") /\ "Initial" \in States
  BY DEF RestartNetwork, States
<1>2. CASE IsStarted(state)
  <2>1. Close
    BY <1>2, Zenon DEF RestartNetwork
  <2> QED  BY <1>1, <2>1, EmptyFills, CloseForgets, FillClosedEffect
<1>3. CASE ~IsStarted(state)
  <2>1. UNCHANGED <<closeCount, handshake, idleTimer, requests, responses, refusal>>
    BY <1>3, Zenon DEF RestartNetwork
  <2>2. /\ closeCount \in Nat /\ tokenRequests \subseteq 0 .. closeCount
        /\ closeCount \notin tokenRequests
        /\ handshake = "none" /\ idleTimer \in BOOLEAN
    BY <1>3 DEF IInv, TypeOK, StreamInv, OneAttempt, IsStarted
  <2>3. responses = <<>>
    BY <2>2, FrontIsAnswered
  <2>4. requests = <<>> /\ idleTimer = FALSE /\ refusal = FALSE
    <3>1. Len(responses) + Len(requests) = 0 /\ responses \in Seq(Batch) /\ requests \in Seq(Batch)
      BY <2>2 DEF IInv, TypeOK, WireInv
    <3>2. requests = <<>>
      BY <3>1
    <3>3. ~idleTimer
      BY <2>2 DEF IInv, StreamInv
    <3>4. refusal \in BOOLEAN /\ ~refusal
      BY <2>3 DEF IInv, TypeOK, AnswersInv
    <3> QED  BY <2>2, <3>2, <3>3, <3>4, Zenon
  <2>5. /\ IsFull(pipeline', mutationQueue) /\ state' \in States
        /\ tokenRequests' \subseteq 0 .. closeCount' /\ OneAttempt'
        /\ pipeline' # <<>> => IsStarted(state')
        /\ state' # "Open"
    BY <1>1, <2>1, <2>2, EmptyFills, FillClosedEffect
  <2> QED  BY <2>1, <2>2, <2>3, <2>4, <2>5
<1> QED  BY <1>2, <1>3

(* At start-up nothing is sent.                                            *)
LEMMA LaunchFills ==
  ASSUME IInv, Launch
  PROVE  /\ ~running /\ state = "Initial" /\ handshake = "none"
         /\ FillWritePipeline(<<>>, mutationQueue)
         /\ mutationQueue' = mutationQueue
         /\ idleTimer' = FALSE
<1>1. ~running /\ FillWritePipeline(<<>>, mutationQueue) /\ mutationQueue' = mutationQueue
  BY DEF Launch, disk
<1>2. state = "Initial" /\ handshake \in {"none", "sent", "answered", "complete"}
  BY <1>1 DEF IInv, StreamInv, TypeOK
<1>3. handshake = "none" /\ ~idleTimer
  BY <1>2 DEF IInv, StreamInv
<1>4. idleTimer' = (/\ SentByFill(<<>>, mutationQueue) = <<>>
                    /\ idleTimer \/ (pipeline' = <<>> /\ state = "Open"))
  BY <1>1 DEF FillWritePipeline
<1>5. state # "Open"
  BY <1>2
<1>6. idleTimer' = FALSE
  BY <1>3, <1>4, <1>5, Zenon
<1> QED  BY <1>1, <1>2, <1>3, <1>6

LEMMA PipelineStep ==
  ASSUME IInv, [Next]_vars
  PROVE  PipelineInv'
<1>1. PipelineInv /\ TypeOK /\ StreamInv
  BY DEF IInv
<1>2. CASE WriteMutations
  <2>1. running' /\ IsFull(pipeline', mutationQueue')
    BY <1>1, <1>2, WriteFills, FillEffect DEF WriteMutations
  <2> QED  BY <2>1 DEF PipelineInv
<1>3. CASE MutationResult
  <2>1. responses # <<>> /\ running' = running
    BY <1>3 DEF MutationResult, IsResult
  <2>2. running /\ IsFull(pipeline', mutationQueue')
    BY <1>1, <1>3, <2>1, FrontIsAnswered, ResultFills, FillEffect
  <2> QED  BY <2>1, <2>2 DEF PipelineInv
<1>4. CASE WriteRejected
  <2>1. responses # <<>> /\ running' = running
    BY <1>4 DEF WriteRejected
  <2>2. running /\ IsFull(pipeline', mutationQueue')
    BY <1>4, <2>1, FrontIsAnswered, RejectionStarts
  <2> QED  BY <2>1, <2>2 DEF PipelineInv
<1>5. CASE RestartNetwork
  <2>1. running' /\ mutationQueue' = mutationQueue
    BY <1>5 DEF RestartNetwork, disk
  <2>2. IsFull(pipeline', mutationQueue)
    BY <1>5, NetworkStarts
  <2> QED  BY <2>1, <2>2 DEF PipelineInv
<1>6. CASE Launch
  <2>1. running' /\ mutationQueue' = mutationQueue
    BY <1>6 DEF Launch, disk
  <2>2. IsFull(pipeline', mutationQueue)
    BY <1>1, <1>6, EmptyFills, LaunchFills, FillEffect
  <2> QED  BY <2>1, <2>2 DEF PipelineInv
<1>7. CASE Crash \/ CrashInSuccessfulWrite \/ CrashInRejectedWrite
  BY <1>7 DEF Crash, CrashInSuccessfulWrite, CrashInRejectedWrite, Die, PipelineInv
<1>8. CASE \/ \E c \in tokenRequests : TokenAnswered(c)
           \/ HandshakeComplete
           \/ BackoffElapsed
           \/ StreamFailed
           \/ IdleTimeout
           \/ Backend
           \/ UNCHANGED vars
  <2>1. UNCHANGED <<mutationQueue, running, pipeline>>
    BY <1>8 DEF TokenAnswered, HandshakeComplete, BackoffElapsed, StreamFailed,
                IdleTimeout, Backend, AnswerHandshake, AnswerWrite,
                vars, disk, client
  <2> QED  BY <1>1, <2>1 DEF PipelineInv
<1> QED  BY <1>2, <1>3, <1>4, <1>5, <1>6, <1>7, <1>8 DEF Next, WorkerQueue

LEMMA StreamStep ==
  ASSUME IInv, [Next]_vars
  PROVE  StreamInv'
<1>1. /\ TypeOK /\ StreamInv
      /\ handshake \in {"none", "sent", "answered", "complete"}
      /\ closeCount \in Nat /\ idleTimer \in BOOLEAN
  BY DEF IInv, TypeOK
<1>2. CASE WriteMutations
  <2>1. running /\ running' /\ mutationQueue' # <<>>
    <3>1. PICK batch \in Batch : mutationQueue' = Append(mutationQueue, batch)
      BY <1>2, QueueGrows
    <3>2. mutationQueue \in Seq(Batch)
      BY <1>1 DEF TypeOK
    <3> QED  BY <1>2, <3>1, <3>2 DEF WriteMutations
  <2>2. idleTimer => pipeline = <<>>
    BY <1>1, <2>1, FullIsEmpty DEF StreamInv, IInv, PipelineInv, TypeOK
  <2>3. ~idleTimer'
    BY <1>1, <1>2, <2>1, <2>2, WriteFills, FillIdles
  <2> QED  BY <1>1, <1>2, <2>1, <2>3, WriteFills, FillEffect DEF StreamInv
<1>3. CASE MutationResult
  <2>1. responses # <<>> /\ running' = running
    BY <1>3 DEF MutationResult, IsResult
  <2>2. running /\ handshake = "complete" /\ mutationQueue # <<>>
    BY <2>1, FrontIsAnswered
  <2>3. idleTimer' => mutationQueue' = <<>>
    BY <1>1, <1>3, <2>2, ResultFills, FillIdles DEF StreamInv
  <2> QED  BY <1>1, <1>3, <2>1, <2>2, <2>3, ResultFills, FillEffect DEF StreamInv
<1>4. CASE WriteRejected
  <2>1. responses # <<>> /\ running' = running /\ Close
    BY <1>4 DEF WriteRejected
  <2> QED  BY <1>4, <2>1, FrontIsAnswered, CloseForgets, RejectionStarts DEF StreamInv
<1>5. ASSUME NEW c \in tokenRequests, TokenAnswered(c)
      PROVE  StreamInv'
  <2>1. /\ tokenRequests' = tokenRequests \ {c}
        /\ UNCHANGED <<running, mutationQueue, callbacks, pipeline, closeCount>>
    BY <1>5 DEF TokenAnswered, disk, client
  <2>2. CASE c = closeCount
    <3>1. state = "Starting" /\ state' = "Open" /\ handshake' = "sent" /\ idleTimer' = FALSE
      BY <1>1, <1>5, <2>2 DEF TokenAnswered, StreamInv, OneAttempt
    <3>2. OneAttempt' /\ tokenRequests' \subseteq 0 .. closeCount'
      BY <1>1, <2>1, <2>2, <3>1 DEF OneAttempt, StreamInv
    <3> QED  BY <1>1, <2>1, <3>1, <3>2 DEF StreamInv, IsStarted
  <2>3. CASE c # closeCount
    <3>1. UNCHANGED <<state, handshake, idleTimer>>
      BY <1>5, <2>3 DEF TokenAnswered
    <3>2. OneAttempt' /\ tokenRequests' \subseteq 0 .. closeCount'
      BY <1>1, <2>1, <2>3, <3>1 DEF OneAttempt, StreamInv
    <3> QED  BY <1>1, <2>1, <3>1, <3>2 DEF StreamInv
  <2> QED  BY <2>2, <2>3
<1>6. CASE HandshakeComplete
  <2>1. /\ handshake = "answered" /\ handshake' = "complete"
        /\ idleTimer' = (idleTimer /\ pipeline = <<>>)
        /\ UNCHANGED <<running, state, callbacks, pipeline, closeCount, tokenRequests>>
    BY <1>6 DEF HandshakeComplete, client
  <2>2. ~idleTimer /\ ~idleTimer'
    BY <1>1, <2>1 DEF StreamInv
  <2> QED  BY <1>1, <2>1, <2>2 DEF StreamInv, OneAttempt
<1>7. CASE BackoffElapsed
  <2>1. /\ state = "Backoff" /\ state' = "Starting"
        /\ tokenRequests' = tokenRequests \cup {closeCount}
        /\ UNCHANGED <<running, mutationQueue, callbacks, pipeline, closeCount, handshake, idleTimer>>
    BY <1>7 DEF BackoffElapsed, Start, disk, client
  <2>2. OneAttempt' /\ tokenRequests' \subseteq 0 .. closeCount'
    BY <1>1, <2>1 DEF OneAttempt, StreamInv
  <2> QED  BY <1>1, <2>1, <2>2 DEF StreamInv, IsStarted
<1>8. CASE StreamFailed
  <2>1. /\ state = "Open" /\ Close
        /\ IF pipeline # <<>> THEN state' = "Backoff" ELSE state' = "Error"
        /\ UNCHANGED <<running, pipeline, tokenRequests>>
    BY <1>8 DEF StreamFailed, Start, client
  <2>2. running /\ OneAttempt' /\ tokenRequests' \subseteq 0 .. closeCount'
    BY <1>1, <2>1, CloseForgets DEF OneAttempt, StreamInv
  <2> QED  BY <2>1, <2>2, CloseForgets DEF StreamInv, IsStarted
<1>9. CASE IdleTimeout
  <2>1. /\ idleTimer /\ Close /\ state' = "Initial"
        /\ UNCHANGED <<running, callbacks, pipeline, tokenRequests>>
    BY <1>9 DEF IdleTimeout, client
  <2>2. state = "Open" /\ mutationQueue = <<>>
    BY <1>1, <2>1 DEF StreamInv
  <2>3. running /\ pipeline = <<>>
    <3>1. running /\ mutationQueue \in Seq(Batch)
      BY <1>1, <2>2 DEF StreamInv, TypeOK
    <3>2. IsFull(pipeline, mutationQueue)
      BY <3>1 DEF IInv, PipelineInv
    <3>3. pipeline = <<>> <=> mutationQueue = <<>>
      BY <3>1, <3>2, FullIsEmpty
    <3> QED  BY <2>2, <3>1, <3>3, Zenon
  <2>4. OneAttempt' /\ tokenRequests' \subseteq 0 .. closeCount'
    BY <2>1, CloseForgets DEF OneAttempt
  <2> QED  BY <2>1, <2>3, <2>4, CloseForgets DEF StreamInv
<1>10. CASE RestartNetwork
  <2>1. running'
    BY <1>10 DEF RestartNetwork
  <2> QED  BY <1>10, <2>1, NetworkStarts DEF StreamInv
<1>11. CASE Backend
  <2>1. /\ UNCHANGED <<running, mutationQueue, callbacks, pipeline, state, closeCount,
                       tokenRequests, idleTimer>>
        /\ \/ handshake = "sent" /\ handshake' = "answered"
           \/ UNCHANGED handshake
    BY <1>11 DEF Backend, AnswerHandshake, AnswerWrite, disk, client
  <2> QED  BY <1>1, <2>1 DEF StreamInv, OneAttempt
<1>12. CASE Crash \/ CrashInSuccessfulWrite \/ CrashInRejectedWrite
  <2>1. Die
    BY <1>12 DEF Crash, CrashInSuccessfulWrite, CrashInRejectedWrite
  <2> QED  BY <2>1 DEF Die, StreamInv, OneAttempt
<1>13. CASE Launch
  <2>1. running' /\ UNCHANGED callbacks
    BY <1>13 DEF Launch
  <2>2. /\ OneAttempt' /\ tokenRequests' \subseteq 0 .. closeCount'
        /\ pipeline' # <<>> => IsStarted(state')
        /\ state' # "Open" /\ handshake' = "none" /\ idleTimer' = FALSE
    BY <1>1, <1>13, EmptyFills, LaunchFills, FillEffect
  <2> QED  BY <2>1, <2>2 DEF StreamInv
<1>14. CASE UNCHANGED vars
  BY <1>1, <1>14 DEF vars, disk, stream, client, StreamInv, OneAttempt
<1> QED  BY <1>2, <1>3, <1>4, <1>5, <1>6, <1>7, <1>8, <1>9, <1>10, <1>11, <1>12,
            <1>13, <1>14 DEF Next, WorkerQueue

(* Filling keeps wire and pipeline in step.                                *)
LEMMA FillKeepsWire ==
  ASSUME TypeOK, StreamInv,
         NEW queue \in Seq(Batch), Increasing(queue),
         NEW pipe, IsFront(pipe, queue),
         FillWritePipeline(pipe, queue),
         responses' \in Seq(Batch),
         Len(responses') + Len(requests) = IF handshake = "complete" THEN Len(pipe) ELSE 0,
         \A i \in 1 .. Len(responses') : responses'[i] = pipe[i],
         \A i \in 1 .. Len(requests) : requests[i] = pipe[Len(responses') + i]
  PROVE  WireInv'
<1> DEFINE m == Len(pipe)
           n == Len(pipeline')
<1>1. /\ requests \in Seq(Batch) /\ Len(requests) \in Nat /\ Len(responses') \in Nat
      /\ handshake' = handshake
  BY FillEffect DEF TypeOK
<1>2. IsFull(pipeline', queue) /\ m \in Nat /\ n \in Nat /\ m <= n /\ pipeline' \in Seq(Batch)
  BY FillEffect, FillSends DEF IsFull, IsFront
<1>3. \A i \in 1 .. m : pipeline'[i] = pipe[i]
  BY <1>2 DEF IsFull, IsFront
<1>4. CASE handshake # "complete"
  <2>1. requests = <<>> /\ Len(responses') = 0
    BY <1>1, <1>4
  <2>2. requests' = requests \o <<>>
    BY <1>4, FillSends
  <2>3. requests' = <<>>
    BY <2>1, <2>2
  <2> QED  BY <1>1, <1>4, <2>1, <2>3 DEF WireInv
<1>5. CASE handshake = "complete"
  <2> DEFINE sent == SubSeq(pipeline', m + 1, n)
  <2>1. requests' = requests \o sent
    BY <1>5, FillSends
  <2>2. /\ sent \in Seq(Batch) /\ Len(sent) = n - m
        /\ \A i \in 1 .. n - m : sent[i] = pipeline'[m + i]
    BY <1>2
  <2> HIDE DEF sent
  <2>3. Len(responses') + Len(requests) = m
    BY <1>5
  <2> HIDE DEF m, n
  <2>3a. /\ Len(responses') + (Len(requests) + (n - m)) = n
        /\ \A i \in Int :
             Len(requests) < i /\ i <= Len(requests) + (n - m) =>
               i - Len(requests) \in 1 .. n - m /\ m + (i - Len(requests)) = Len(responses') + i
    <3>1. Len(responses') \in Nat /\ Len(requests) \in Nat /\ m \in Nat /\ n \in Nat /\ m <= n
      BY <1>1, <1>2, Zenon
    <3>2. ASSUME NEW r \in Nat, NEW q \in Nat, r = Len(responses'), q = Len(requests)
          PROVE  /\ r + (q + (n - m)) = n
                 /\ \A i \in Int :
                      q < i /\ i <= q + (n - m) => i - q \in 1 .. n - m /\ m + (i - q) = r + i
      <4>1. m \in Nat /\ n \in Nat /\ m <= n /\ r + q = m
        BY <2>3, <3>1, <3>2, Zenon
      <4> QED  BY <4>1, SMT
    <3> QED  BY <3>1, <3>2, Zenon
  <2>4. /\ Len(requests') = Len(requests) + (n - m)
        /\ \A i \in 1 .. Len(requests') :
             requests'[i] = IF i <= Len(requests) THEN requests[i] ELSE sent[i - Len(requests)]
    BY <1>1, <1>2, <2>1, <2>2
  <2>5. ASSUME NEW i \in 1 .. Len(requests')
        PROVE  requests'[i] = pipeline'[Len(responses') + i]
    <3>1. CASE i <= Len(requests)
      <4>1. i \in 1 .. Len(requests) /\ Len(responses') + i \in 1 .. m
        BY <3>1, <1>1, <1>2, <2>3
      <4>2. requests'[i] = requests[i] /\ requests[i] = pipe[Len(responses') + i]
        BY <3>1, <4>1, <2>4
      <4> QED  BY <4>1, <4>2, <1>3
    <3>2. CASE ~(i <= Len(requests))
      <4>1. i \in Int /\ Len(requests) < i /\ i <= Len(requests) + (n - m)
        <5>1. Len(requests') = Len(requests) + (n - m)
          BY <2>4
        <5> QED  BY <3>2, <5>1, <1>1, <1>2
      <4>2. i - Len(requests) \in 1 .. n - m /\ m + (i - Len(requests)) = Len(responses') + i
        BY <4>1, <2>3a, Zenon
      <4>3. requests'[i] = sent[i - Len(requests)]
        BY <3>2, <2>4
      <4> QED  BY <4>2, <4>3, <2>2
    <3> QED  BY <3>1, <3>2
  <2>6. \A i \in 1 .. Len(responses') : responses'[i] = pipeline'[i]
    BY <1>1, <1>2, <1>3, <2>3 DEF m
  <2>7. Len(responses') + Len(requests') = Len(pipeline')
    <3>1. Len(requests') = Len(requests) + (n - m)
      BY <2>4
    <3> QED  BY <3>1, <2>3a, Zenon DEF n
  <2> QED  BY <1>1, <1>5, <2>5, <2>6, <2>7 DEF WireInv
<1> QED  BY <1>4, <1>5

(* A stream that carries nothing is in step with any pipeline.             *)
LEMMA EmptyWire ==
  ASSUME responses' = <<>>, requests' = <<>>, handshake' # "complete"
  PROVE  WireInv'
  BY DEF WireInv

LEMMA WireStep ==
  ASSUME IInv, [Next]_vars
  PROVE  WireInv'
<1>1. /\ TypeOK /\ StreamInv /\ WireInv
      /\ responses \in Seq(Batch) /\ requests \in Seq(Batch) /\ pipeline \in Seq(Batch)
  BY DEF IInv, TypeOK
<1>2. CASE WriteMutations
  <2>1. responses' = responses
    BY <1>2 DEF WriteMutations
  <2> QED  BY <1>1, <1>2, <2>1, WriteFills, FillKeepsWire DEF WireInv
<1>3. CASE MutationResult
  <2>1. responses # <<>> /\ responses' = Tail(responses)
    BY <1>3 DEF MutationResult, IsResult
  <2>2. handshake = "complete" /\ pipeline # <<>>
    BY <2>1, FrontIsAnswered
  <2>3. /\ responses' \in Seq(Batch) /\ Len(responses') = Len(responses) - 1
        /\ Len(responses) \in Nat
        /\ \A i \in 1 .. Len(responses) - 1 : responses'[i] = responses[i + 1]
    BY <1>1, <2>1, TailShifts
  <2>4. /\ Len(Tail(pipeline)) = Len(pipeline) - 1
        /\ Len(pipeline) \in Nat
        /\ \A i \in 1 .. Len(pipeline) - 1 : Tail(pipeline)[i] = pipeline[i + 1]
    BY <1>1, <2>2, TailShifts
  <2>5. /\ Len(responses) + Len(requests) = Len(pipeline) /\ Len(requests) \in Nat
        /\ \A i \in 1 .. Len(responses) : responses[i] = pipeline[i]
        /\ \A i \in 1 .. Len(requests) : requests[i] = pipeline[Len(responses) + i]
    BY <1>1, <2>2 DEF WireInv
  <2>6. Len(responses') + Len(requests) = Len(Tail(pipeline))
    <3>1. /\ Len(responses) \in Nat /\ Len(requests) \in Nat /\ Len(pipeline) \in Nat
          /\ Len(responses) + Len(requests) = Len(pipeline)
      BY <2>3, <2>4, <2>5, Zenon
    <3>2. Len(responses') = Len(responses) - 1 /\ Len(Tail(pipeline)) = Len(pipeline) - 1
      BY <2>3, <2>4, Zenon
    <3> QED  BY <3>1, <3>2
  <2>7. \A i \in 1 .. Len(responses') : responses'[i] = Tail(pipeline)[i]
    BY <2>3, <2>4, <2>5
  <2>8. ASSUME NEW i \in 1 .. Len(requests)
        PROVE  requests[i] = Tail(pipeline)[Len(responses') + i]
    <3>1. Len(responses') + i \in 1 .. Len(pipeline) - 1 /\ Len(responses') + i + 1 = Len(responses) + i
      BY <2>1, <1>1, <2>3, <2>5
    <3> QED  BY <3>1, <2>4, <2>5
  <2> QED  BY <1>1, <1>3, <2>2, <2>3, <2>6, <2>7, <2>8, ResultFills, FillKeepsWire
<1>4. CASE WriteRejected \/ StreamFailed \/ IdleTimeout
  <2>1. Close
    BY <1>4 DEF WriteRejected, StreamFailed, IdleTimeout
  <2> QED  BY <2>1, CloseForgets, EmptyWire
<1>5. CASE RestartNetwork
  BY <1>5, NetworkStarts, EmptyWire
<1>6. CASE Crash \/ CrashInSuccessfulWrite \/ CrashInRejectedWrite
  BY <1>6, EmptyWire DEF Crash, CrashInSuccessfulWrite, CrashInRejectedWrite, Die
<1>7. CASE Launch
  <2>1. responses' = responses /\ handshake # "complete"
    BY <1>7, LaunchFills DEF Launch
  <2>2. Len(responses) = 0 /\ Len(requests) = 0
    BY <1>1, <2>1 DEF WireInv
  <2> QED  BY <1>1, <1>7, <2>1, <2>2, EmptyFills, LaunchFills, FillKeepsWire
<1>8. ASSUME NEW c \in tokenRequests, TokenAnswered(c)
      PROVE  WireInv'
  <2>1. UNCHANGED <<responses, requests, pipeline>>
    BY <1>8 DEF TokenAnswered, client
  <2>2. CASE c = closeCount
    <3>1. handshake # "complete" /\ handshake' # "complete"
      BY <1>1, <1>8, <2>2 DEF TokenAnswered, StreamInv, OneAttempt
    <3> QED  BY <1>1, <2>1, <3>1 DEF WireInv
  <2>3. CASE c # closeCount
    BY <1>1, <1>8, <2>1, <2>3 DEF TokenAnswered, WireInv
  <2> QED  BY <2>2, <2>3
<1>9. CASE HandshakeComplete
  <2>1. /\ handshake = "answered" /\ handshake' = "complete"
        /\ requests' = requests \o pipeline
        /\ UNCHANGED <<responses, pipeline>>
    BY <1>9 DEF HandshakeComplete, client
  <2>2. requests = <<>> /\ responses = <<>>
    BY <1>1, <2>1 DEF WireInv
  <2>3. requests' = pipeline
    BY <1>1, <2>1, <2>2
  <2> QED  BY <1>1, <2>1, <2>2, <2>3 DEF WireInv
<1>10. CASE AnswerWrite
  <2>1. /\ requests # <<>>
        /\ requests' = Tail(requests)
        /\ responses' = Append(responses, Head(requests))
        /\ UNCHANGED <<handshake, pipeline>>
    BY <1>10 DEF AnswerWrite, client
  <2>2. /\ Len(requests') = Len(requests) - 1 /\ Len(requests) \in Nat \ {0}
        /\ \A i \in 1 .. Len(requests) - 1 : requests'[i] = requests[i + 1]
    BY <1>1, <2>1
  <2>3. /\ Len(responses') = Len(responses) + 1 /\ Len(responses) \in Nat
        /\ \A i \in 1 .. Len(responses) : responses'[i] = responses[i]
        /\ responses'[Len(responses) + 1] = requests[1]
    BY <1>1, <2>1
  <2>4. requests[1] = pipeline[Len(responses) + 1]
    BY <1>1, <2>2 DEF WireInv
  <2>5. Len(responses') + Len(requests') = Len(responses) + Len(requests)
    BY <2>2, <2>3
  <2>6. \A i \in 1 .. Len(responses') : responses'[i] = pipeline[i]
    BY <1>1, <2>3, <2>4 DEF WireInv
  <2>7. \A i \in 1 .. Len(requests') : requests'[i] = pipeline[Len(responses') + i]
    <3>1. \A i \in 1 .. Len(requests) : requests[i] = pipeline[Len(responses) + i]
      BY <1>1 DEF WireInv
    <3>2. ASSUME NEW i \in 1 .. Len(requests')
          PROVE  requests'[i] = pipeline[Len(responses') + i]
      <4>1. i + 1 \in 1 .. Len(requests) /\ Len(responses) + (i + 1) = Len(responses') + i
        BY <2>2, <2>3
      <4>2. requests'[i] = requests[i + 1]
        BY <2>2
      <4> QED  BY <3>1, <4>1, <4>2
    <3> QED  BY <3>2
  <2> QED  BY <1>1, <2>1, <2>5, <2>6, <2>7 DEF WireInv
<1>11. CASE AnswerHandshake
  BY <1>1, <1>11 DEF AnswerHandshake, client, WireInv
<1>12. CASE BackoffElapsed \/ UNCHANGED vars
  BY <1>1, <1>12 DEF BackoffElapsed, vars, stream, client, WireInv
<1> QED  BY <1>2, <1>3, <1>4, <1>5, <1>6, <1>7, <1>8, <1>9, <1>10, <1>11, <1>12
         DEF Next, WorkerQueue, Backend

(* What the next answer says: it is about the next write to settle, which  *)
(* is refused if it is the refusal, and in the document otherwise.         *)
LEMMA FrontIsDecided ==
  ASSUME IInv, responses # <<>>
  PROVE  /\ Settled + 1 \in Refused <=> refusal /\ Len(responses) = 1
         /\ Settled + 1 \notin Refused => document >= Settled + 1
<1>1. 1 \in 1 .. Len(responses) /\ Len(responses) \in Nat
  BY DEF IInv, TypeOK
<1>2. responses[1].write = Settled + 1
  BY FrontIsAnswered
<1>3. /\ responses[1].write \in Refused <=> (refusal /\ 1 = Len(responses))
      /\ responses[1].write \notin Refused => document >= responses[1].write
  BY <1>1 DEF IInv, AnswersInv
<1> QED  BY <1>2, <1>3

LEMMA SettledType ==
  ASSUME IInv
  PROVE  Settled \in 0 .. issued /\ issued \in 0 .. MaxWrites /\ MaxWrites \in Nat
         /\ document \in Nat
  BY WritePipelineAssumption DEF IInv, TypeOK, QueueInv, Settled

(* The next request is about a write that is not settled.                  *)
LEMMA RequestIsIssued ==
  ASSUME IInv, requests # <<>>
  PROVE  /\ Head(requests) \in Batch
         /\ Head(requests).write \in (Settled + 1) .. issued
         /\ \A i \in 1 .. Len(responses) : Head(requests).write > responses[i].write
<1>1. /\ requests \in Seq(Batch) /\ responses \in Seq(Batch) /\ mutationQueue \in Seq(Batch)
      /\ pipeline \in Seq(Batch) /\ Len(requests) \in Nat \ {0} /\ Len(responses) \in Nat
      /\ Len(pipeline) \in Nat /\ Len(mutationQueue) \in Nat
  BY DEF IInv, TypeOK
<1>2. handshake = "complete" /\ Len(responses) + Len(requests) = Len(pipeline)
  BY <1>1 DEF IInv, WireInv
<1>3. pipeline # <<>> /\ running
  <2>1. state = "Open"
    BY <1>2 DEF IInv, StreamInv
  <2> QED  BY <1>1, <1>2, <2>1 DEF IInv, StreamInv
<1>4. /\ Len(pipeline) <= Len(mutationQueue)
      /\ \A i \in 1 .. Len(pipeline) : pipeline[i] = mutationQueue[i]
  BY <1>1, <1>3, WritePipelineAssumption DEF IInv, PipelineInv, IsFull, Least
<1>5. Len(responses) + 1 \in 1 .. Len(pipeline) /\ Len(responses) + 1 \in 1 .. Len(mutationQueue)
  BY <1>1, <1>2, <1>4
<1>6. Head(requests) = mutationQueue[Len(responses) + 1]
  <2>1. Head(requests) = requests[1] /\ 1 \in 1 .. Len(requests)
    BY <1>1
  <2>2. requests[1] = pipeline[Len(responses) + 1]
    BY <2>1 DEF IInv, WireInv
  <2> QED  BY <1>4, <1>5, <2>1, <2>2
<1>7. Head(requests) \in Batch /\ Head(requests).write = Settled + (Len(responses) + 1)
  BY <1>1, <1>5, <1>6, IdsArePositive DEF IInv, QueueInv
<1>8. Settled = issued - Len(mutationQueue) /\ Settled \in Nat /\ issued \in Nat
  BY SettledType DEF Settled
<1>9. ASSUME NEW i \in 1 .. Len(responses)
      PROVE  Head(requests).write > responses[i].write
  <2>1. i \in 1 .. Len(pipeline) /\ i \in 1 .. Len(mutationQueue)
    BY <1>1, <1>2, <1>4
  <2>2. responses[i] = mutationQueue[i]
    BY <1>4, <2>1 DEF IInv, WireInv
  <2>3. responses[i].write = Settled + i
    BY <2>1, <2>2 DEF IInv, QueueInv
  <2> QED  BY <1>1, <1>7, <1>8, <2>3
<1> QED  BY <1>1, <1>5, <1>7, <1>8, <1>9

(* A write is settled as stored only when the document has it.             *)
LEMMA NothingIsBehind ==
  ASSUME IInv, responses # <<>>, Settled' = Settled + 1, document' = document
  PROVE  NeverBehind'
<1>1. Settled \in Nat
  BY SettledType
<1>2. \A w \in 1 .. Settled : w \notin Refused => document >= w
  BY DEF IInv, NeverBehind
<1>3. Settled + 1 \notin Refused => document >= Settled + 1
  BY FrontIsDecided
<1>4. \A w \in 1 .. Settled' : w \notin Refused => document' >= w
  BY <1>1, <1>2, <1>3
<1> QED  BY <1>4 DEF NeverBehind

LEMMA AnswersStep ==
  ASSUME IInv, [Next]_vars
  PROVE  AnswersInv' /\ NeverBehind'
<1>1. /\ AnswersInv /\ NeverBehind
      /\ responses \in Seq(Batch) /\ Len(responses) \in Nat /\ requests \in Seq(Batch)
      /\ refusal \in BOOLEAN
  BY DEF IInv, TypeOK
<1>2. ASSUME UNCHANGED document, Settled' = Settled
      PROVE  NeverBehind'
  BY <1>1, <1>2 DEF NeverBehind
<1>3. ASSUME UNCHANGED <<mutationQueue, issued>>
      PROVE  Settled' = Settled
  BY <1>3 DEF Settled
<1>4. CASE WriteMutations
  <2>1. UNCHANGED <<responses, refusal, document>>
    BY <1>4 DEF WriteMutations
  <2> QED  BY <1>1, <1>2, <1>4, <2>1, QueueGrows DEF AnswersInv
<1>5. CASE MutationResult
  <2>1. /\ responses # <<>> /\ ~(refusal /\ Len(responses) = 1)
        /\ responses' = Tail(responses) /\ UNCHANGED <<refusal, document>>
    BY <1>5 DEF MutationResult, IsResult
  <2>2. /\ responses' \in Seq(Batch) /\ Len(responses') = Len(responses) - 1
        /\ \A i \in 1 .. Len(responses) - 1 : responses'[i] = responses[i + 1]
    BY <1>1, <2>1, TailShifts
  <2>3. refusal' => responses' # <<>>
    <3>1. refusal' => Len(responses) # 1 /\ Len(responses) # 0
      BY <1>1, <2>1
    <3>2. responses' = <<>> => Len(responses') = 0
      OBVIOUS
    <3> QED  BY <1>1, <2>2, <3>1, <3>2
  <2>4. ASSUME NEW i \in 1 .. Len(responses')
        PROVE  /\ responses'[i].write \in Refused <=> (refusal' /\ i = Len(responses'))
               /\ responses'[i].write \notin Refused => document' >= responses'[i].write
    <3>1. /\ i + 1 \in 1 .. Len(responses) /\ responses'[i] = responses[i + 1]
          /\ i = Len(responses') <=> i + 1 = Len(responses)
      BY <1>1, <2>2
    <3>2. /\ responses[i + 1].write \in Refused <=> (refusal /\ i + 1 = Len(responses))
          /\ responses[i + 1].write \notin Refused => document >= responses[i + 1].write
      BY <1>1, <3>1 DEF AnswersInv
    <3> QED  BY <2>1, <3>1, <3>2
  <2>5. NeverBehind'
    BY <1>5, <2>1, QueueSettles, NothingIsBehind DEF MutationResult
  <2> QED  BY <2>3, <2>4, <2>5 DEF AnswersInv
<1>6. CASE WriteRejected
  <2>1. responses # <<>> /\ Close /\ document' = document
    BY <1>6 DEF WriteRejected
  <2>2. NeverBehind'
    BY <1>6, <2>1, QueueSettles, NothingIsBehind DEF WriteRejected
  <2> QED  BY <2>1, <2>2, CloseForgets DEF AnswersInv
<1>7. CASE StreamFailed \/ IdleTimeout
  <2>1. Close /\ UNCHANGED <<mutationQueue, issued, document>>
    BY <1>7 DEF StreamFailed, IdleTimeout, disk
  <2> QED  BY <1>2, <1>3, <2>1, CloseForgets DEF AnswersInv
<1>8. CASE RestartNetwork
  <2>1. UNCHANGED <<mutationQueue, issued, document>>
    BY <1>8 DEF RestartNetwork, disk
  <2> QED  BY <1>2, <1>3, <1>8, <2>1, NetworkStarts DEF AnswersInv
<1>9. CASE AnswerWrite
  <2> DEFINE next == Head(requests)
  <2>1. /\ requests # <<>> /\ ~refusal
        /\ responses' = Append(responses, next)
        /\ refusal' = (next.write \in Refused)
        /\ document' = IF refusal' THEN document ELSE next.write
        /\ UNCHANGED <<mutationQueue, issued>>
    BY <1>9 DEF AnswerWrite, disk
  <2>2. /\ next \in Batch /\ next.write \in (Settled + 1) .. issued
        /\ \A i \in 1 .. Len(responses) : next.write > responses[i].write
    BY <2>1, RequestIsIssued
  <2> HIDE DEF next
  <2>3. /\ Len(responses') = Len(responses) + 1
        /\ \A i \in 1 .. Len(responses) : responses'[i] = responses[i]
        /\ responses'[Len(responses) + 1] = next
    BY <1>1, <2>1, <2>2
  <2>4. refusal' <=> next.write \in Refused
    BY <2>1, Zenon
  <2>5. Settled' = Settled /\ Settled \in Nat /\ issued \in Nat /\ document \in Nat
    BY <1>3, <2>1, SettledType
  <2>6. ASSUME NEW i \in 1 .. Len(responses')
        PROVE  /\ responses'[i].write \in Refused <=> (refusal' /\ i = Len(responses'))
               /\ responses'[i].write \notin Refused => document' >= responses'[i].write
    <3>1. CASE i = Len(responses) + 1
      <4>1. responses'[i] = next /\ i = Len(responses')
        BY <2>3, <3>1
      <4>2. next.write \notin Refused => document' = next.write /\ next.write \in Nat
        BY <2>1, <2>2, <2>4, <2>5
      <4> QED  BY <2>4, <4>1, <4>2
    <3>2. CASE i # Len(responses) + 1
      <4>1. i \in 1 .. Len(responses) /\ responses'[i] = responses[i] /\ i # Len(responses')
        BY <1>1, <2>3, <3>2
      <4>2. responses[i].write \notin Refused /\ document >= responses[i].write
        BY <1>1, <2>1, <4>1 DEF AnswersInv
      <4>3. document' = document \/ document' = next.write
        BY <2>1
      <4>4. document' >= responses[i].write
        <5>1. next.write > responses[i].write /\ next.write \in Nat /\ responses[i].write \in Nat
          BY <2>2, <2>5, <1>1, <4>1, IdsArePositive DEF Writes
        <5> QED  BY <4>2, <4>3, <5>1
      <4> QED  BY <4>1, <4>2, <4>4
    <3> QED  BY <3>1, <3>2
  <2>7. responses' # <<>>
    BY <1>1, <2>3
  <2>8. NeverBehind'
    <3>1. ASSUME NEW w \in 1 .. Settled, w \notin Refused
          PROVE  document' >= w
      <4>1. document >= w
        BY <1>1, <3>1 DEF NeverBehind
      <4>2. document' = document \/ document' = next.write
        BY <2>1
      <4> QED  BY <4>1, <4>2, <2>2, <2>5
    <3> QED  BY <2>5, <3>1 DEF NeverBehind
  <2> QED  BY <2>6, <2>7, <2>8 DEF AnswersInv
<1>10. CASE CrashInRejectedWrite
  <2>1. /\ responses # <<>> /\ UNCHANGED <<document, issued>> /\ ~running'
        /\ responses' = <<>> /\ refusal' = FALSE
    BY <1>10 DEF CrashInRejectedWrite, Die
  <2>2. NeverBehind'
    BY <1>10, <2>1, QueueSettles, NothingIsBehind DEF CrashInRejectedWrite
  <2> QED  BY <2>1, <2>2 DEF AnswersInv
<1>11. CASE Crash \/ CrashInSuccessfulWrite
  <2>1. /\ UNCHANGED <<mutationQueue, issued, document>>
        /\ responses' = <<>> /\ refusal' = FALSE
    BY <1>11 DEF Crash, CrashInSuccessfulWrite, Die, disk
  <2> QED  BY <1>2, <1>3, <2>1 DEF AnswersInv
<1>12. CASE \/ \E c \in tokenRequests : TokenAnswered(c)
            \/ HandshakeComplete
            \/ BackoffElapsed
            \/ AnswerHandshake
            \/ Launch
            \/ UNCHANGED vars
  <2>1. UNCHANGED <<mutationQueue, issued, document, responses, refusal>>
    BY <1>12 DEF TokenAnswered, HandshakeComplete, BackoffElapsed, AnswerHandshake,
                 Launch, vars, disk, stream
  <2> QED  BY <1>1, <1>2, <1>3, <2>1 DEF AnswersInv
<1> QED  BY <1>4, <1>5, <1>6, <1>7, <1>8, <1>9, <1>10, <1>11, <1>12
         DEF Next, WorkerQueue, Backend

(* The callback of the front goes when the front does.                     *)
LEMMA NotifyForgets ==
  ASSUME IInv, responses # <<>>,
         mutationQueue' = Tail(mutationQueue),
         callbacks' = callbacks \ {Head(pipeline)}
  PROVE  CallbacksPending'
<1>1. /\ mutationQueue \in Seq(Batch) /\ mutationQueue # <<>>
      /\ Head(pipeline) = mutationQueue[1]
  BY FrontIsAnswered DEF IInv, TypeOK
<1>2. /\ Len(mutationQueue') = Len(mutationQueue) - 1 /\ Len(mutationQueue) \in Nat
      /\ \A i \in 1 .. Len(mutationQueue) - 1 : mutationQueue'[i] = mutationQueue[i + 1]
  BY <1>1, TailShifts
<1>3. ASSUME NEW b \in callbacks'
      PROVE  \E i \in 1 .. Len(mutationQueue') : mutationQueue'[i] = b
  <2>1. b \in callbacks /\ b # mutationQueue[1]
    BY <1>1
  <2>2. PICK i \in 1 .. Len(mutationQueue) : mutationQueue[i] = b
    BY <2>1 DEF IInv, CallbacksPending
  <2>3. i # 1
    BY <2>1, <2>2
  <2>4. i - 1 \in 1 .. Len(mutationQueue') /\ mutationQueue'[i - 1] = b
    BY <1>2, <2>2, <2>3
  <2> QED  BY <2>4
<1> QED  BY <1>3 DEF CallbacksPending

LEMMA CallbacksStep ==
  ASSUME IInv, [Next]_vars
  PROVE  CallbacksPending'
<1>1. CallbacksPending /\ mutationQueue \in Seq(Batch)
  BY DEF IInv, TypeOK
<1>2. CASE WriteMutations
  <2>1. PICK batch \in Batch : /\ mutationQueue' = Append(mutationQueue, batch)
                               /\ callbacks' = callbacks \cup {batch}
    BY <1>2, QueueGrows
  <2>2. /\ Len(mutationQueue') = Len(mutationQueue) + 1 /\ Len(mutationQueue) \in Nat
        /\ \A i \in 1 .. Len(mutationQueue) : mutationQueue'[i] = mutationQueue[i]
        /\ mutationQueue'[Len(mutationQueue) + 1] = batch
    BY <1>1, <2>1
  <2>3. ASSUME NEW b \in callbacks'
        PROVE  \E i \in 1 .. Len(mutationQueue') : mutationQueue'[i] = b
    <3>1. CASE b = batch
      BY <2>2, <3>1
    <3>2. CASE b \in callbacks
      <4>1. PICK i \in 1 .. Len(mutationQueue) : mutationQueue[i] = b
        BY <1>1, <3>2 DEF CallbacksPending
      <4> QED  BY <2>2, <4>1
    <3> QED  BY <2>1, <3>1, <3>2
  <2> QED  BY <2>3 DEF CallbacksPending
<1>3. CASE MutationResult
  <2>1. responses # <<>>
    BY <1>3 DEF MutationResult, IsResult
  <2> QED  BY <1>3, <2>1, QueueSettles, NotifyForgets DEF MutationResult, NotifyUser
<1>4. CASE WriteRejected
  <2>1. responses # <<>>
    BY <1>4 DEF WriteRejected
  <2> QED  BY <1>4, <2>1, QueueSettles, NotifyForgets DEF WriteRejected, NotifyUser
<1>5. CASE Crash \/ CrashInSuccessfulWrite \/ CrashInRejectedWrite
  BY <1>5 DEF Crash, CrashInSuccessfulWrite, CrashInRejectedWrite, Die, CallbacksPending
<1>6. CASE \/ \E c \in tokenRequests : TokenAnswered(c)
           \/ HandshakeComplete
           \/ BackoffElapsed
           \/ StreamFailed
           \/ IdleTimeout
           \/ RestartNetwork
           \/ Backend
           \/ Launch
           \/ UNCHANGED vars
  <2>1. UNCHANGED <<mutationQueue, callbacks>>
    BY <1>6 DEF TokenAnswered, HandshakeComplete, BackoffElapsed, StreamFailed,
                IdleTimeout, RestartNetwork, Backend, AnswerHandshake, AnswerWrite,
                Launch, vars, disk, client
  <2> QED  BY <1>1, <2>1 DEF CallbacksPending
<1> QED  BY <1>2, <1>3, <1>4, <1>5, <1>6 DEF Next, WorkerQueue

(***************************************************************************)
(* Types, in three parts.                                                  *)
(***************************************************************************)

Handshakes == {"none", "sent", "answered", "complete"}

StreamTypes ==
  /\ state \in States
  /\ handshake \in Handshakes
  /\ closeCount \in Nat
  /\ tokenRequests \subseteq Nat
  /\ idleTimer \in BOOLEAN
  /\ requests \in Seq(Batch)
  /\ responses \in Seq(Batch)
  /\ refusal \in BOOLEAN

ClientTypes ==
  /\ running \in BOOLEAN
  /\ mutationQueue \in Seq(Batch)
  /\ nextBatchId \in Nat \ {0}
  /\ callbacks \subseteq Batch
  /\ pipeline \in Seq(Batch)
  /\ Len(pipeline) <= MaxPendingWrites

HistoryTypes ==
  /\ document \in 0 .. MaxWrites
  /\ issued \in 0 .. MaxWrites
  /\ told \in Seq(Writes)
  /\ faults \in 0 .. MaxFaults

LEMMA EmptyTypes == <<>> \in Seq(Batch) /\ 0 \in Nat /\ 1 \in Nat \ {0}
  OBVIOUS

LEMMA TypeParts == TypeOK <=> StreamTypes /\ ClientTypes /\ HistoryTypes
  BY Zenon DEF TypeOK, StreamTypes, ClientTypes, HistoryTypes, States, Handshakes

LEMMA FullIsBounded ==
  ASSUME NEW queue \in Seq(Batch), NEW pipe, IsFull(pipe, queue)
  PROVE  pipe \in Seq(Batch) /\ Len(pipe) <= MaxPendingWrites
  BY WritePipelineAssumption DEF IsFull, Least

LEMMA StreamTypeStep ==
  ASSUME IInv, [Next]_vars
  PROVE  StreamTypes'
<1>1. TypeOK /\ StreamInv /\ StreamTypes
  BY TypeParts DEF IInv
<1>2. ASSUME NEW n \in Nat PROVE 0 .. n \subseteq Nat
  OBVIOUS
<1>3. ASSUME Close PROVE /\ closeCount' \in Nat /\ handshake' \in Handshakes
                        /\ idleTimer' \in BOOLEAN /\ refusal' \in BOOLEAN
                        /\ requests' \in Seq(Batch) /\ responses' \in Seq(Batch)
  <2>1. closeCount' \in Nat
    BY <1>1, <1>3 DEF Close, StreamTypes
  <2> QED  BY <1>3, <2>1, EmptyTypes, Zenon DEF Close, Handshakes
<1>4. CASE WriteMutations
  <2>1. UNCHANGED <<responses, refusal>>
    BY <1>4 DEF WriteMutations
  <2>2. /\ handshake' = handshake /\ closeCount' = closeCount
        /\ state' \in States /\ tokenRequests' \subseteq 0 .. closeCount'
        /\ requests' \in Seq(Batch)
    BY <1>1, <1>4, WriteFills, FillEffect, FillSends
  <2>3. idleTimer' \in BOOLEAN
    BY <1>4, Zenon DEF WriteMutations, FillWritePipeline
  <2> QED  BY <1>1, <1>2, <2>1, <2>2, <2>3 DEF StreamTypes
<1>5. CASE MutationResult
  <2>1. responses # <<>> /\ responses' = Tail(responses) /\ UNCHANGED refusal
    BY <1>5 DEF MutationResult, IsResult
  <2>2. /\ handshake' = handshake /\ closeCount' = closeCount
        /\ state' \in States /\ tokenRequests' \subseteq 0 .. closeCount'
        /\ requests' \in Seq(Batch)
    BY <1>1, <1>5, ResultFills, FillEffect, FillSends
  <2>3. idleTimer' \in BOOLEAN
    BY <1>5, Zenon DEF MutationResult, FillWritePipeline
  <2>4. responses' \in Seq(Batch)
    BY <1>1, <2>1, TailShifts DEF StreamTypes
  <2> QED  BY <1>1, <1>2, <2>1, <2>2, <2>3, <2>4 DEF StreamTypes
<1>6. CASE WriteRejected
  <2>1. Close
    BY <1>6 DEF WriteRejected
  <2>2. state' \in States /\ tokenRequests' \subseteq 0 .. closeCount'
    BY <1>6, RejectionStarts
  <2> QED  BY <1>2, <1>3, <2>1, <2>2 DEF StreamTypes
<1>7. CASE StreamFailed \/ IdleTimeout
  <2>1. Close /\ state' \in States /\ tokenRequests' = tokenRequests
    BY <1>7 DEF StreamFailed, IdleTimeout, Start, States
  <2> QED  BY <1>1, <1>3, <2>1 DEF StreamTypes
<1>8. CASE RestartNetwork
  BY <1>2, <1>8, NetworkStarts DEF StreamTypes, Handshakes
<1>9. CASE Crash \/ CrashInSuccessfulWrite \/ CrashInRejectedWrite
  <2>1. Die
    BY <1>9 DEF Crash, CrashInSuccessfulWrite, CrashInRejectedWrite
  <2> QED  BY <2>1, EmptyTypes, Zenon DEF Die, StreamTypes, States, Handshakes
<1>10. CASE Launch
  <2>1. UNCHANGED <<responses, refusal>>
    BY <1>10 DEF Launch
  <2>2. /\ handshake' = handshake /\ closeCount' = closeCount
        /\ state' \in States /\ tokenRequests' \subseteq 0 .. closeCount'
        /\ requests' \in Seq(Batch) /\ idleTimer' \in BOOLEAN
    BY <1>1, <1>10, EmptyFills, LaunchFills, FillEffect, FillSends
  <2> QED  BY <1>1, <1>2, <2>1, <2>2 DEF StreamTypes
<1>11. ASSUME NEW c \in tokenRequests, TokenAnswered(c)
       PROVE  StreamTypes'
  <2>1. /\ UNCHANGED <<closeCount, requests, responses, refusal>>
        /\ tokenRequests' \subseteq tokenRequests
        /\ \/ state' = "Open" /\ handshake' = "sent" /\ idleTimer' = FALSE
           \/ UNCHANGED <<state, handshake, idleTimer>>
    BY <1>11 DEF TokenAnswered
  <2> QED  BY <1>1, <2>1 DEF StreamTypes, States, Handshakes
<1>12. CASE HandshakeComplete
  <2>1. pipeline \in Seq(Batch) /\ requests \in Seq(Batch)
    BY <1>1 DEF TypeOK
  <2>2. /\ handshake' \in Handshakes
        /\ requests' = requests \o pipeline
        /\ UNCHANGED <<state, closeCount, tokenRequests, responses, refusal>>
    BY <1>12 DEF HandshakeComplete, Handshakes
  <2>3. requests' \in Seq(Batch)
    BY <2>1, <2>2
  <2>4. idleTimer' \in BOOLEAN
    BY <1>12, Zenon DEF HandshakeComplete
  <2> QED  BY <1>1, <2>2, <2>3, <2>4 DEF StreamTypes
<1>13. CASE BackoffElapsed
  <2>1. /\ state' \in States /\ tokenRequests' = tokenRequests \cup {closeCount}
        /\ UNCHANGED <<handshake, closeCount, idleTimer, requests, responses, refusal>>
    BY <1>13 DEF BackoffElapsed, Start, States
  <2> QED  BY <1>1, <2>1 DEF StreamTypes
<1>14. CASE AnswerHandshake
  BY <1>1, <1>14 DEF AnswerHandshake, StreamTypes, Handshakes
<1>15. CASE AnswerWrite
  <2>1. /\ requests # <<>> /\ requests' = Tail(requests)
        /\ responses' = Append(responses, Head(requests))
        /\ UNCHANGED <<state, handshake, closeCount, tokenRequests, idleTimer>>
    BY <1>15 DEF AnswerWrite
  <2>2. requests' \in Seq(Batch) /\ responses' \in Seq(Batch)
    BY <1>1, <2>1 DEF StreamTypes
  <2>3. refusal' \in BOOLEAN
    <3>1. refusal' = (Head(requests).write \in Refused)
      BY <1>15, Zenon DEF AnswerWrite
    <3> QED  BY <3>1
  <2> QED  BY <1>1, <2>1, <2>2, <2>3 DEF StreamTypes
<1>16. CASE UNCHANGED vars
  BY <1>1, <1>16 DEF vars, stream, StreamTypes
<1> QED  BY <1>4, <1>5, <1>6, <1>7, <1>8, <1>9, <1>10, <1>11, <1>12, <1>13, <1>14,
            <1>15, <1>16 DEF Next, WorkerQueue, Backend

LEMMA ClientTypeStep ==
  ASSUME IInv, [Next]_vars
  PROVE  ClientTypes'
<1>1. TypeOK /\ StreamInv /\ ClientTypes /\ 0 <= MaxPendingWrites
  BY TypeParts, WritePipelineAssumption DEF IInv
<1>2. CASE WriteMutations
  <2>1. running' \in BOOLEAN /\ nextBatchId' \in Nat \ {0} /\ callbacks' \subseteq Batch
    BY <1>1, <1>2, QueueGrows DEF WriteMutations, ClientTypes
  <2>2. mutationQueue' \in Seq(Batch) /\ IsFull(pipeline', mutationQueue')
    BY <1>1, <1>2, WriteFills, FillEffect
  <2> QED  BY <2>1, <2>2, FullIsBounded DEF ClientTypes
<1>3. CASE MutationResult
  <2>1. UNCHANGED <<running, nextBatchId>> /\ callbacks' \subseteq callbacks
    BY <1>3 DEF MutationResult, NotifyUser
  <2>2. mutationQueue' \in Seq(Batch) /\ IsFull(pipeline', mutationQueue')
    BY <1>1, <1>3, ResultFills, FillEffect
  <2> QED  BY <1>1, <2>1, <2>2, FullIsBounded DEF ClientTypes
<1>4. CASE WriteRejected
  <2>1. UNCHANGED <<running, nextBatchId>> /\ callbacks' \subseteq callbacks
    BY <1>4 DEF WriteRejected, NotifyUser
  <2>2. mutationQueue' \in Seq(Batch) /\ IsFull(pipeline', mutationQueue')
    BY <1>4, RejectionFills, RejectionStarts
  <2> QED  BY <1>1, <2>1, <2>2, FullIsBounded DEF ClientTypes
<1>5. CASE RestartNetwork
  <2>1. UNCHANGED <<running, mutationQueue, nextBatchId, callbacks>>
    BY <1>5 DEF RestartNetwork, disk
  <2>2. IsFull(pipeline', mutationQueue)
    BY <1>5, NetworkStarts
  <2> QED  BY <1>1, <2>1, <2>2, FullIsBounded DEF ClientTypes
<1>6. CASE Launch
  <2>1. /\ running' = TRUE /\ UNCHANGED <<mutationQueue, callbacks>>
        /\ nextBatchId' = LoadNextBatchId(mutationQueue)
    BY <1>6 DEF Launch, disk
  <2>2. nextBatchId' \in Nat \ {0}
    <3>1. CASE mutationQueue = <<>>
      BY <2>1, <3>1 DEF LoadNextBatchId
    <3>2. CASE mutationQueue # <<>>
      <4>1. mutationQueue \in Seq(Batch) /\ Len(mutationQueue) \in 1 .. Len(mutationQueue)
        BY <1>1, <3>2 DEF ClientTypes
      <4>2. mutationQueue[Len(mutationQueue)].id \in Nat
        BY <4>1, IdsArePositive
      <4> QED  BY <2>1, <3>2, <4>2 DEF LoadNextBatchId
    <3> QED  BY <3>1, <3>2
  <2>3. IsFull(pipeline', mutationQueue)
    BY <1>1, <1>6, EmptyFills, LaunchFills, FillEffect
  <2> QED  BY <1>1, <2>1, <2>2, <2>3, FullIsBounded DEF ClientTypes
<1>7. CASE Crash \/ CrashInSuccessfulWrite \/ CrashInRejectedWrite
  <2>1. Die
    BY <1>7 DEF Crash, CrashInSuccessfulWrite, CrashInRejectedWrite
  <2>2. mutationQueue' \in Seq(Batch)
    <3>1. CASE CrashInRejectedWrite
      <4>1. responses # <<>> /\ ~running' /\ issued' = issued
        BY <3>1 DEF CrashInRejectedWrite, Die
      <4> QED  BY <3>1, <4>1, QueueSettles DEF CrashInRejectedWrite
    <3>2. CASE Crash \/ CrashInSuccessfulWrite
      BY <1>1, <3>2 DEF Crash, CrashInSuccessfulWrite, ClientTypes, disk
    <3> QED  BY <1>7, <3>1, <3>2
  <2>3. /\ running' = FALSE /\ nextBatchId' = 1 /\ callbacks' = {} /\ pipeline' = <<>>
        /\ Len(<<>>) <= MaxPendingWrites
    BY <1>1, <2>1 DEF Die
  <2> QED  BY <2>2, <2>3, EmptyTypes, Zenon DEF ClientTypes
<1>8. CASE \/ \E c \in tokenRequests : TokenAnswered(c)
           \/ HandshakeComplete
           \/ BackoffElapsed
           \/ StreamFailed
           \/ IdleTimeout
           \/ Backend
           \/ UNCHANGED vars
  <2>1. UNCHANGED <<running, mutationQueue, nextBatchId, callbacks, pipeline>>
    BY <1>8 DEF TokenAnswered, HandshakeComplete, BackoffElapsed, StreamFailed,
                IdleTimeout, Backend, AnswerHandshake, AnswerWrite,
                vars, disk, client
  <2> QED  BY <1>1, <2>1 DEF ClientTypes
<1> QED  BY <1>2, <1>3, <1>4, <1>5, <1>6, <1>7, <1>8 DEF Next, WorkerQueue

LEMMA HistoryTypeStep ==
  ASSUME IInv, [Next]_vars
  PROVE  HistoryTypes'
<1>1. HistoryTypes
  BY TypeParts DEF IInv
<1>2. ASSUME responses # <<>>
      PROVE  Append(told, Head(pipeline).write) \in Seq(Writes)
  <2>1. Head(pipeline).write \in Writes
    BY <1>2, FrontIsAnswered DEF Batch
  <2> QED  BY <1>1, <2>1 DEF HistoryTypes
<1>3. CASE WriteMutations
  <2>1. UNCHANGED <<document, told, faults>> /\ issued' = issued + 1 /\ issued < MaxWrites
    BY <1>3 DEF WriteMutations
  <2>2. issued' \in 0 .. MaxWrites
    BY <1>1, <2>1, WritePipelineAssumption DEF HistoryTypes
  <2> QED  BY <1>1, <2>1, <2>2 DEF HistoryTypes
<1>4. CASE MutationResult \/ WriteRejected
  <2>1. responses # <<>> /\ UNCHANGED <<document, issued, faults>>
    BY <1>4 DEF MutationResult, WriteRejected, IsResult
  <2>2. told' = Append(told, Head(pipeline).write) \/ told' = told
    BY <1>4 DEF MutationResult, WriteRejected, NotifyUser
  <2> QED  BY <1>1, <1>2, <2>1, <2>2 DEF HistoryTypes
<1>5. ASSUME faults < MaxFaults, faults' = faults + 1
      PROVE  faults' \in 0 .. MaxFaults
  BY <1>1, <1>5, WritePipelineAssumption DEF HistoryTypes
<1>6. CASE StreamFailed \/ RestartNetwork \/ Crash \/ CrashInRejectedWrite
  <2>1. faults < MaxFaults /\ faults' = faults + 1 /\ UNCHANGED <<document, issued, told>>
    BY <1>6 DEF StreamFailed, RestartNetwork, Crash, CrashInRejectedWrite, Die
  <2> QED  BY <1>1, <1>5, <2>1 DEF HistoryTypes
<1>7. CASE CrashInSuccessfulWrite
  <2>1. /\ faults < MaxFaults /\ faults' = faults + 1 /\ UNCHANGED <<document, issued>>
        /\ responses # <<>> /\ told' = Append(told, Head(pipeline).write)
    BY <1>7 DEF CrashInSuccessfulWrite, IsResult, Die
  <2> QED  BY <1>1, <1>2, <1>5, <2>1 DEF HistoryTypes
<1>8. CASE AnswerWrite
  <2>1. requests # <<>> /\ UNCHANGED <<issued, told, faults>>
        /\ (document' = document \/ document' = Head(requests).write)
    BY <1>8 DEF AnswerWrite
  <2>2. Head(requests).write \in 0 .. MaxWrites
    BY <2>1, RequestIsIssued DEF Batch, Writes
  <2> QED  BY <1>1, <2>1, <2>2 DEF HistoryTypes
<1>9. CASE \/ \E c \in tokenRequests : TokenAnswered(c)
           \/ HandshakeComplete
           \/ BackoffElapsed
           \/ IdleTimeout
           \/ AnswerHandshake
           \/ Launch
           \/ UNCHANGED vars
  <2>1. UNCHANGED <<document, issued, told, faults>>
    BY <1>9 DEF TokenAnswered, HandshakeComplete, BackoffElapsed, IdleTimeout,
                AnswerHandshake, Launch, vars
  <2> QED  BY <1>1, <2>1 DEF HistoryTypes
<1> QED  BY <1>3, <1>4, <1>6, <1>7, <1>8, <1>9 DEF Next, WorkerQueue, Backend

-----------------------------------------------------------------------------
(***************************************************************************)
(* Theorems.                                                               *)
(***************************************************************************)

LEMMA InvariantStep == IInv /\ [Next]_vars => IInv'
<1> SUFFICES ASSUME IInv, [Next]_vars PROVE IInv'
  OBVIOUS
<1>1. TypeOK'
  <2>1. (StreamTypes /\ ClientTypes /\ HistoryTypes)'
    BY StreamTypeStep, ClientTypeStep, HistoryTypeStep
  <2>2. (TypeOK <=> StreamTypes /\ ClientTypes /\ HistoryTypes)'
    BY TypeParts, PTL
  <2> QED  BY <2>1, <2>2
<1> QED  BY <1>1, QueueStep, PipelineStep, StreamStep, WireStep, AnswersStep,
            CallbacksStep DEF IInv

LEMMA Invariant == Spec => []IInv
  BY InitInv, InvariantStep, PTL DEF Spec

(* Every variable keeps its type, whatever the order of tasks, answers,    *)
(* faults and restarts.                                                    *)
THEOREM TypeCorrect == Spec => []TypeOK
<1>1. IInv => TypeOK
  BY DEF IInv
<1> QED  BY <1>1, Invariant, PTL

(* The invariant orders the five places that hold a write.                 *)
LEMMA InvariantOrders == IInv => LayersInOrder
<1> SUFFICES ASSUME IInv PROVE LayersInOrder
  OBVIOUS
<1>1. /\ mutationQueue \in Seq(Batch) /\ pipeline \in Seq(Batch)
      /\ requests \in Seq(Batch) /\ responses \in Seq(Batch)
  BY DEF IInv, TypeOK
<1>2. PipelineIsPrefix
  <2>1. Len(pipeline) <= Len(mutationQueue)
        /\ \A i \in 1 .. Len(pipeline) : pipeline[i] = mutationQueue[i]
    <3>1. CASE running
      BY <1>1, <3>1, WritePipelineAssumption DEF IInv, PipelineInv, IsFull, Least
    <3>2. CASE ~running
      BY <1>1, <3>2 DEF IInv, PipelineInv
    <3> QED  BY <3>1, <3>2
  <2>2. SubSeq(pipeline, 1, Len(pipeline)) = SubSeq(mutationQueue, 1, Len(pipeline))
    BY <1>1, <2>1
  <2> QED  BY <2>1, <2>2 DEF PipelineIsPrefix, IsPrefix
<1>3. WireFollowsPipeline
  <2>1. CASE handshake = "complete"
    <3>1. /\ Len(responses) + Len(requests) = Len(pipeline)
          /\ \A i \in 1 .. Len(responses) : responses[i] = pipeline[i]
          /\ \A i \in 1 .. Len(requests) : requests[i] = pipeline[Len(responses) + i]
      BY <2>1 DEF IInv, WireInv
    <3> DEFINE wire == responses \o requests
    <3>2. wire \in Seq(Batch) /\ Len(wire) = Len(pipeline)
          /\ \A i \in 1 .. Len(wire) :
               wire[i] = IF i <= Len(responses) THEN responses[i] ELSE requests[i - Len(responses)]
      BY <1>1, <3>1
    <3> HIDE DEF wire
    <3>3. ASSUME NEW i \in 1 .. Len(wire)
          PROVE  wire[i] = pipeline[i]
      <4>1. CASE i <= Len(responses)
        BY <1>1, <3>1, <3>2, <4>1
      <4>2. CASE ~(i <= Len(responses))
        <5>1. i - Len(responses) \in 1 .. Len(requests) /\ Len(responses) + (i - Len(responses)) = i
          BY <1>1, <3>1, <3>2, <4>2
        <5> QED  BY <3>1, <3>2, <4>2, <5>1
      <4> QED  BY <4>1, <4>2
    <3>4. wire = pipeline
      BY <1>1, <3>2, <3>3
    <3> QED  BY <2>1, <3>4 DEF WireFollowsPipeline, wire
  <2>2. CASE handshake # "complete"
    <3>1. Len(responses) + Len(requests) = 0
      BY <2>2 DEF IInv, WireInv
    <3>2. responses = <<>> /\ requests = <<>>
      BY <1>1, <3>1
    <3> QED  BY <2>2, <3>2 DEF WireFollowsPipeline
  <2> QED  BY <2>1, <2>2
<1> QED  BY <1>2, <1>3 DEF LayersInOrder, IInv, QueueInv

(* Callbacks, queue, pipeline, wire and document are one order of writes:  *)
(* an answer without an id is always about the front of the pipeline.      *)
THEOREM WritesStayInOrder == Spec => []LayersInOrder
  BY Invariant, InvariantOrders, PTL

LEMMA InvariantAttends == IInv => StreamIsAttended
<1> SUFFICES ASSUME IInv PROVE StreamIsAttended
  OBVIOUS
<1>1. NeverStalled
  <2> SUFFICES ASSUME running, mutationQueue # <<>>
               PROVE  pipeline # <<>> /\ state \in {"Starting", "Open", "Backoff"}
    BY DEF NeverStalled
  <2>1. mutationQueue \in Seq(Batch) /\ IsFull(pipeline, mutationQueue)
    BY DEF IInv, TypeOK, PipelineInv
  <2>2. pipeline # <<>>
    BY <2>1, FullIsEmpty
  <2> QED  BY <2>2 DEF IInv, StreamInv, IsStarted
<1>2. IdleWhenDone /\ OneAttempt
  BY DEF IInv, StreamInv, IdleWhenDone
<1> QED  BY <1>1, <1>2 DEF StreamIsAttended

(* While there is something to write a stream is on its way, and only one. *)
THEOREM StreamStaysAttended == Spec => []StreamIsAttended
  BY Invariant, InvariantAttends, PTL

-----------------------------------------------------------------------------
(***************************************************************************)
(* The write path implements Uploads.                                      *)
(***************************************************************************)

Listening == {b.write : b \in callbacks}

(* Among the callbacks a write has one batch, that of the queue.           *)
LEMMA FrontIsTheWrite ==
  ASSUME IInv, responses # <<>>, NEW b \in callbacks
  PROVE  b.write = Settled + 1 <=> b = Head(pipeline)
<1>1. PICK i \in 1 .. Len(mutationQueue) : mutationQueue[i] = b
  BY DEF IInv, CallbacksPending
<1>2. b.write = Settled + i /\ Settled \in Nat /\ i \in Nat
  <2>1. Settled \in Nat
    BY SettledType
  <2>2. i \in Nat
    BY DEF IInv, TypeOK
  <2> QED  BY <1>1, <2>1, <2>2 DEF IInv, QueueInv
<1>3. Head(pipeline) = mutationQueue[1] /\ Head(pipeline).write = Settled + 1
  BY FrontIsAnswered
<1>4. b.write = Settled + 1 => i = 1
  BY <1>2
<1> QED  BY <1>1, <1>3, <1>4

LEMMA ListeningSettles ==
  ASSUME IInv, responses # <<>>
  PROVE  /\ Head(pipeline) \in callbacks <=> Settled + 1 \in Listening
         /\ callbacks' = callbacks \ {Head(pipeline)} =>
              Listening' = Listening \ {Settled + 1}
<1>1. Head(pipeline) \in callbacks <=> Settled + 1 \in Listening
  BY FrontIsTheWrite, FrontIsAnswered DEF Listening
<1>2. ASSUME callbacks' = callbacks \ {Head(pipeline)}
      PROVE  Listening' = Listening \ {Settled + 1}
  <2>1. Listening' = {b.write : b \in callbacks \ {Head(pipeline)}}
    BY <1>2 DEF Listening
  <2> QED  BY <2>1, FrontIsTheWrite DEF Listening
<1> QED  BY <1>1, <1>2

(* The next write to settle is decided when its answer is there.           *)
LEMMA FrontIsPromised ==
  ASSUME IInv, responses # <<>>
  PROVE  Promise!Decided(Settled + 1) /\ Settled + 1 \in 1 .. MaxWrites
<1>1. Settled + 1 <= issued
  <2>1. mutationQueue \in Seq(Batch) /\ mutationQueue # <<>>
    BY FrontIsAnswered DEF IInv, TypeOK
  <2>2. Settled = issued - Len(mutationQueue) /\ issued \in Nat
    BY SettledType DEF Settled
  <2>3. Len(mutationQueue) \in Nat \ {0}
    BY <2>1
  <2> QED  BY <2>2, <2>3
<1>2. Settled \in Nat /\ issued \in 0 .. MaxWrites /\ MaxWrites \in Nat
  BY SettledType
<1>3. Settled + 1 \notin Refused => document >= Settled + 1
  BY FrontIsDecided
<1> QED  BY <1>1, <1>2, <1>3 DEF Promise!Decided

(* MutationResult and WriteRejected settle the front of the queue.         *)
LEMMA FrontSettles ==
  ASSUME IInv, responses # <<>>,
         mutationQueue' = Without(mutationQueue, Head(pipeline)),
         NotifyUser(Head(pipeline)),
         UNCHANGED <<running, nextBatchId, document, issued>>,
         NEW w \in 1 .. MaxWrites, w = Settled + 1
  PROVE  Promise!Settle(w)
<1>1. running /\ Promise!Decided(Settled + 1) /\ Settled' = Settled + 1
  BY FrontIsAnswered, FrontIsPromised, QueueSettles
<1>2. Listening' = Listening \ {w}
  BY ListeningSettles DEF NotifyUser
<1>3. told' = IF w \in Listening THEN Append(told, w) ELSE told
  <2>1. Head(pipeline).write = w
    BY FrontIsAnswered
  <2>2. Head(pipeline) \in callbacks <=> w \in Listening
    BY ListeningSettles
  <2> QED  BY <2>1, <2>2, Zenon DEF NotifyUser
<1>4. Promise!Decided(w)
  BY <1>1 DEF Promise!Decided
<1>5. Settled' = w /\ w = Settled + 1
  BY <1>1
<1> QED  BY <1>1, <1>2, <1>3, <1>4, <1>5, Zenon DEF Promise!Settle, Listening

LEMMA PromiseInit == Init => Promise!Init
<1> SUFFICES ASSUME Init PROVE Promise!Init
  OBVIOUS
<1>1. Settled = 0
  <2>1. issued = 0 /\ mutationQueue = <<>>
    BY DEF Init
  <2>2. Len(mutationQueue) = 0
    BY <2>1
  <2>3. Settled = issued - Len(mutationQueue)
    BY Zenon DEF Settled
  <2> QED  BY <2>1, <2>2, <2>3
<1>2. Listening = {}
  BY DEF Init, Listening
<1> QED  BY <1>1, <1>2, Zenon DEF Init, Promise!Init, Listening

LEMMA PromiseStep ==
  ASSUME IInv, [Next]_vars
  PROVE  [Promise!Next]_(Promise!vars)
<1>1. ASSUME UNCHANGED <<running, mutationQueue, callbacks, issued, told, document>>
      PROVE  UNCHANGED Promise!vars
  <2>1. Settled' = Settled /\ Listening' = Listening
    BY <1>1 DEF Settled, Listening
  <2> QED  BY <1>1, <2>1 DEF Promise!vars, Listening
<1>2. CASE WriteMutations
  <2>1. PICK batch \in Batch : /\ batch.write = issued + 1
                               /\ callbacks' = callbacks \cup {batch}
    BY <1>2, QueueGrows
  <2>2. Listening' = Listening \cup {issued + 1}
    BY <2>1 DEF Listening
  <2>3. Settled' = Settled
    BY <1>2, QueueGrows
  <2>4. /\ running /\ issued < MaxWrites /\ issued' = issued + 1
        /\ UNCHANGED <<running, told, document>>
    BY <1>2 DEF WriteMutations
  <2>5. Promise!Issue
    BY <2>2, <2>3, <2>4, Zenon DEF Promise!Issue, Listening
  <2> QED  BY <2>5 DEF Promise!Next
<1>3. CASE MutationResult \/ WriteRejected
  <2>1. /\ responses # <<>> /\ mutationQueue' = Without(mutationQueue, Head(pipeline))
        /\ NotifyUser(Head(pipeline)) /\ UNCHANGED <<running, nextBatchId, document, issued>>
    BY <1>3 DEF MutationResult, WriteRejected, IsResult
  <2>2. Settled + 1 \in 1 .. MaxWrites
    BY <2>1, FrontIsPromised
  <2>3. PICK w \in 1 .. MaxWrites : w = Settled + 1
    BY <2>2
  <2>4. Promise!Settle(w)
    BY <2>1, <2>3, FrontSettles
  <2> QED  BY <2>4 DEF Promise!Next
<1>4. CASE AnswerWrite
  <2>1. /\ requests # <<>> /\ refusal' = (Head(requests).write \in Refused)
        /\ document' = IF refusal' THEN document ELSE Head(requests).write
        /\ UNCHANGED <<running, mutationQueue, callbacks, issued, told>>
    BY <1>4 DEF AnswerWrite, disk, client
  <2>2. CASE Head(requests).write \in Refused
    <3>1. refusal'
      BY <2>1, <2>2, Zenon
    <3>2. document' = document
      BY <2>1, <3>1, Zenon
    <3>3. UNCHANGED <<running, mutationQueue, callbacks, issued, told, document>>
      BY <2>1, <3>2
    <3>4. UNCHANGED Promise!vars
      BY <1>1, <3>3, Zenon
    <3> QED  BY <3>4, Zenon
  <2>3. CASE Head(requests).write \notin Refused
    <3>1. ~refusal'
      BY <2>1, <2>3, Zenon
    <3>2. document' = Head(requests).write
      BY <2>1, <3>1, Zenon
    <3>3. Head(requests).write \in (Settled + 1) .. issued
      BY <2>1, RequestIsIssued
    <3>4. Settled' = Settled /\ Listening' = Listening
      BY <2>1 DEF Settled, Listening
    <3>5. Promise!Store(Head(requests).write)
      BY <2>1, <2>3, <3>2, <3>3, <3>4, Zenon DEF Promise!Store, Listening
    <3>6. Head(requests).write \in 1 .. MaxWrites
      BY <3>3, SettledType
    <3> QED  BY <3>5, <3>6 DEF Promise!Next
  <2> QED  BY <2>2, <2>3
<1>5. CASE Crash \/ CrashInSuccessfulWrite \/ CrashInRejectedWrite
  <2>1. /\ running /\ running' = FALSE /\ callbacks' = {}
        /\ UNCHANGED <<document, issued>>
    BY <1>5 DEF Crash, CrashInSuccessfulWrite, CrashInRejectedWrite, Die
  <2>2. Listening' = {}
    BY <2>1 DEF Listening
  <2>3. CASE Crash
    <3>1. UNCHANGED <<mutationQueue, told>>
      BY <2>3 DEF Crash, disk
    <3>2. Settled' = Settled
      BY <2>1, <3>1 DEF Settled
    <3> QED  BY <2>1, <2>2, <3>1, <3>2, Zenon DEF Promise!Next, Promise!Stop, Listening
  <2>4. CASE CrashInSuccessfulWrite
    <3>1. /\ responses # <<>> /\ ~(refusal /\ Len(responses) = 1)
          /\ Head(pipeline) \in callbacks /\ told' = Append(told, Head(pipeline).write)
          /\ mutationQueue' = mutationQueue
      BY <2>4 DEF CrashInSuccessfulWrite, IsResult, disk
    <3>2. Settled' = Settled
      BY <2>1, <3>1 DEF Settled
    <3>3. /\ Settled + 1 \in Listening \ Refused
          /\ told' = Append(told, Settled + 1)
      BY <3>1, ListeningSettles, FrontIsDecided, FrontIsAnswered
    <3>4. Promise!Decided(Settled + 1)
      BY <3>1, FrontIsPromised
    <3> QED  BY <2>1, <2>2, <3>2, <3>3, <3>4, Zenon DEF Promise!Next, Promise!Stop, Listening
  <2>5. CASE CrashInRejectedWrite
    <3>1. /\ responses # <<>> /\ refusal /\ Len(responses) = 1
          /\ mutationQueue' = Without(mutationQueue, Head(pipeline)) /\ UNCHANGED told
      BY <2>5 DEF CrashInRejectedWrite
    <3>2. Settled' = Settled + 1
      BY <2>1, <3>1, QueueSettles
    <3>3. Settled + 1 \in Refused
      BY <3>1, FrontIsDecided
    <3>4. Promise!Decided(Settled + 1)
      BY <3>1, FrontIsPromised
    <3> QED  BY <2>1, <2>2, <3>1, <3>2, <3>3, <3>4, Zenon DEF Promise!Next, Promise!Stop, Listening
  <2> QED  BY <1>5, <2>3, <2>4, <2>5
<1>6. CASE Launch
  <2>1. /\ ~running /\ running' = TRUE
        /\ UNCHANGED <<mutationQueue, callbacks, issued, told, document>>
    BY <1>6 DEF Launch, disk
  <2>2. Settled' = Settled /\ Listening' = Listening
    BY <2>1 DEF Settled, Listening
  <2> QED  BY <2>1, <2>2, Zenon DEF Promise!Next, Promise!Launch, Listening
<1>7. CASE \/ \E c \in tokenRequests : TokenAnswered(c)
           \/ HandshakeComplete
           \/ BackoffElapsed
           \/ StreamFailed
           \/ IdleTimeout
           \/ RestartNetwork
           \/ AnswerHandshake
           \/ UNCHANGED vars
  <2>1. UNCHANGED <<running, mutationQueue, callbacks, issued, told, document>>
    BY <1>7 DEF TokenAnswered, HandshakeComplete, BackoffElapsed, StreamFailed,
                IdleTimeout, RestartNetwork, AnswerHandshake, vars, disk, client
  <2> QED  BY <1>1, <2>1
<1> QED  BY <1>2, <1>3, <1>4, <1>5, <1>6, <1>7 DEF Next, WorkerQueue, Backend

(* The write path keeps the promise of setData: writes are settled one by  *)
(* one in the order of the calls, only once the backend has decided, their *)
(* callers are told at most once, and no crash loses one.                  *)
THEOREM ImplementsUploads == Spec => KeepsPromise
<1>1. IInv /\ [Next]_vars => [Promise!Next]_(Promise!vars)
  BY PromiseStep
<1> QED  BY <1>1, PromiseInit, Invariant, PTL DEF Spec, KeepsPromise, Promise!Spec

=============================================================================
