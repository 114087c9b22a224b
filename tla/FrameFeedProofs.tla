-------------------------- MODULE FrameFeedProofs --------------------------
(***************************************************************************)
(* Proofs about the frames and their classification, for any number of     *)
(* frames and any labels and depths.                                       *)
(***************************************************************************)
EXTENDS FrameFeed, Integers, TLAPS

(* A request is named after the frame that created it, which uses it.       *)
Creators ==
  /\ request # 0 => uses[request] = request
  /\ \A f \in Frames : uses[f] # 0 => uses[uses[f]] = uses[f]

(* A request that does not exist has no results.                            *)
NoEarlyResults == \A f \in Frames : uses[f] # f => results[f] = "nil"

(* The blocks of the main queue look at requests that exist.                *)
BlocksInv == \A i \in 1 .. Len(blocks) : uses[blocks[i]] = blocks[i]

(* While the label is that of no request, somebody is on the way to set it.  *)
OnTheWay ==
  Requests # {} /\ (\A r \in Requests : results[r] \in Labels) =>
    \/ \E r \in Requests : global["classification"] = results[r]
    \/ blocks # <<>>
    \/ \E f \in Frames : stage[f] = "performed"

(* Once there was a label there is one for ever.                            *)
LabelStays == seen["classification"] # "None" => global["classification"] # "None"

IInv == TypeOK /\ Creators /\ NoEarlyResults /\ BlocksInv /\ OnTheWay /\ LabelStays

-----------------------------------------------------------------------------
(***************************************************************************)
(* Lemmas.                                                                 *)
(***************************************************************************)

(* A block goes to the back of the main queue.                              *)
LEMMA Enqueue ==
  ASSUME NEW S, NEW s \in Seq(S), NEW e \in S
  PROVE  /\ Append(s, e) \in Seq(S)
         /\ Append(s, e) # <<>>
         /\ Len(Append(s, e)) = Len(s) + 1
         /\ \A i \in 1 .. Len(s) + 1 : Append(s, e)[i] = IF i = Len(s) + 1 THEN e ELSE s[i]
<1>1. Append(s, e) \in Seq(S) /\ Len(Append(s, e)) = Len(s) + 1 /\ Len(s) \in Nat
  OBVIOUS
<1>2. \A i \in 1 .. Len(s) + 1 : Append(s, e)[i] = IF i = Len(s) + 1 THEN e ELSE s[i]
  OBVIOUS
<1>3. Append(s, e) # <<>>
  BY <1>1
<1> QED  BY <1>1, <1>2, <1>3

(* The block at its head is taken.                                          *)
LEMMA Dequeue ==
  ASSUME NEW S, NEW s \in Seq(S), s # <<>>
  PROVE  /\ Tail(s) \in Seq(S)
         /\ Head(s) = s[1]
         /\ 1 \in 1 .. Len(s)
         /\ \A i \in 1 .. Len(Tail(s)) : i + 1 \in 1 .. Len(s) /\ Tail(s)[i] = s[i + 1]
  OBVIOUS

(* The initial state.                                                       *)
LEMMA InitInv == Init => IInv
<1> SUFFICES ASSUME Init PROVE IInv
  OBVIOUS
<1>1. Start["meters"] = 0 /\ Start["classification"] = "None" /\ DOMAIN Start = Fields
  BY DEF Start, Fields
<1>2. /\ text["meters"] = 0
      /\ text["classification"] = "x"
  BY <1>1 DEF Init, Start, Fields
<1>3. TypeOK
  <2>1. \A field \in Fields : Start[field] \in Values(field)
    BY <1>1 DEF Fields, Values
  <2>2. 0 \in 0 .. MaxFrames /\ \A f \in Frames : f > 0
    BY FeedAssumption DEF Frames
  <2>3. /\ [f \in Frames |-> "none"] \in [Frames -> Stages]
        /\ [f \in Frames |-> 0] \in [Frames -> 0 .. MaxFrames]
        /\ [f \in Frames |-> "nil"] \in [Frames -> Results]
    BY <2>2 DEF Stages, Results
  <2>4. text["meters"] \in Values("meters")
    BY <1>2 DEF Values
  <2> QED  BY <1>1, <1>2, <2>1, <2>2, <2>3, <2>4 DEF Init, TypeOK
<1>4. Creators /\ NoEarlyResults /\ BlocksInv /\ OnTheWay /\ LabelStays
  BY <1>1 DEF Init, Creators, NoEarlyResults, BlocksInv, OnTheWay, Requests, LabelStays
<1> QED  BY <1>3, <1>4 DEF IInv

(* What the steps below need of the types.                                  *)
LEMMA Basics ==
  ASSUME IInv
  PROVE  /\ frames \in 0 .. MaxFrames
         /\ stage \in [Frames -> Stages]
         /\ uses \in [Frames -> 0 .. MaxFrames]
         /\ \A f \in Frames : uses[f] = 0 <=> stage[f] \in {"none", "queued", "creating"}
         /\ \A f \in Frames : uses[f] # 0 => uses[f] \in Frames
         /\ \A f \in Frames : f # 0 /\ f \in Nat
         /\ request # 0 => request \in Frames
         /\ results \in [Frames -> Results]
         /\ blocks \in Seq(Frames)
         /\ MaxFrames \in Nat
  BY FeedAssumption DEF IInv, TypeOK, Frames

(* A frame arrives.                                                         *)
LEMMA DeliverInv ==
  ASSUME IInv, DeliverFrame
  PROVE  IInv'
<1>1. PICK depth \in Depths \cup {global["meters"]} : global' = [global EXCEPT !["meters"] = depth]
  BY DEF DeliverFrame
<1>2. /\ frames < MaxFrames
      /\ frames' = frames + 1
      /\ stage' = [stage EXCEPT ![frames + 1] = "queued"]
      /\ UNCHANGED <<uses, request, results, blocks, seen, text>>
  BY DEF DeliverFrame
<1>3. DOMAIN global' = Fields /\ \A field \in Fields : global'[field] \in Values(field)
  BY <1>1 DEF IInv, TypeOK, Fields, Values
<1>4. global'["classification"] = global["classification"]
  BY <1>1 DEF IInv, TypeOK, Fields
<1>5. /\ frames + 1 \in Frames
      /\ stage[frames + 1] = "none"
      /\ stage' \in [Frames -> Stages]
      /\ \A f \in Frames : stage'[f] = IF f = frames + 1 THEN "queued" ELSE stage[f]
  BY <1>2, Basics DEF IInv, TypeOK, Frames, Stages
<1>6. \A f \in Frames : stage'[f] = "none" <=> f > frames'
  BY <1>2, <1>5, Basics DEF IInv, TypeOK
<1>7. \A f \in Frames : uses'[f] = 0 <=> stage'[f] \in {"none", "queued", "creating"}
  BY <1>2, <1>5, Basics
<1>8. TypeOK'
  BY <1>2, <1>3, <1>5, <1>6, <1>7, Basics DEF IInv, TypeOK
<1>9. (Creators /\ NoEarlyResults /\ BlocksInv)'
  BY <1>2 DEF IInv, Creators, NoEarlyResults, BlocksInv
<1>10. OnTheWay'
  <2>1. \A f \in Frames : stage[f] = "performed" => stage'[f] = "performed"
    BY <1>5
  <2> QED  BY <1>2, <1>4, <2>1 DEF IInv, OnTheWay, Requests
<1>11. LabelStays'
  BY <1>2, <1>4 DEF IInv, LabelStays
<1> QED  BY <1>8, <1>9, <1>10, <1>11 DEF IInv

(* A block of a frame has the request, or sets out to create one.           *)
LEMMA ReadRequestInv ==
  ASSUME IInv, NEW f \in Frames, ReadRequest(f)
  PROVE  IInv'
<1>1. /\ stage[f] = "queued"
      /\ stage' = [stage EXCEPT ![f] = IF request = 0 THEN "creating" ELSE "ready"]
      /\ uses' = [uses EXCEPT ![f] = request]
      /\ UNCHANGED <<frames, request, results, blocks, global, seen, text>>
  BY DEF ReadRequest
<1>2. /\ stage' \in [Frames -> Stages]
      /\ uses' \in [Frames -> 0 .. MaxFrames]
      /\ uses[f] = 0 /\ uses'[f] = request
      /\ stage'[f] = IF request = 0 THEN "creating" ELSE "ready"
      /\ \A g \in Frames : g # f => uses'[g] = uses[g] /\ stage'[g] = stage[g]
  BY <1>1, Basics DEF IInv, TypeOK, Stages
<1>3. TypeOK'
  BY <1>1, <1>2 DEF IInv, TypeOK
<1>4. Creators'
  <2>1. request # 0 => uses'[request] = request
    BY <1>2, Basics DEF IInv, Creators
  <2>2. ASSUME NEW g \in Frames, uses'[g] # 0 PROVE uses'[uses'[g]] = uses'[g]
    <3>1. CASE g = f
      BY <1>2, <2>1, <2>2, <3>1
    <3>2. CASE g # f
      <4>1. uses'[g] = uses[g] /\ uses[g] \in Frames /\ uses[uses[g]] = uses[g]
        BY <1>2, <2>2, <3>2, Basics DEF IInv, Creators
      <4> QED  BY <1>2, <4>1, Basics
    <3> QED  BY <3>1, <3>2
  <2> QED  BY <1>1, <2>1, <2>2 DEF Creators
<1>5. NoEarlyResults'
  BY <1>1, <1>2, Basics DEF IInv, NoEarlyResults
<1>6. BlocksInv'
  BY <1>1, <1>2, Basics DEF IInv, BlocksInv
<1>7. OnTheWay'
  <2>1. Requests' = Requests
    <3>1. request # 0 => request \in Frames /\ uses[request] = request /\ request # f
      BY <1>2, Basics DEF IInv, Creators
    <3>2. Requests' \subseteq Requests
      BY <1>2, <3>1 DEF Requests
    <3>3. Requests \subseteq Requests'
      BY <1>2 DEF Requests
    <3> QED  BY <3>2, <3>3
  <2>2. \A g \in Frames : stage[g] = "performed" => stage'[g] = "performed"
    BY <1>1, <1>2
  <2> QED  BY <1>1, <2>1, <2>2 DEF IInv, OnTheWay
<1>8. LabelStays'
  BY <1>1 DEF IInv, LabelStays
<1> QED  BY <1>3, <1>4, <1>5, <1>6, <1>7, <1>8 DEF IInv

(* A block creates a request, perhaps not the first to do so.               *)
LEMMA CreateRequestInv ==
  ASSUME IInv, NEW f \in Frames, CreateRequest(f)
  PROVE  IInv'
<1>1. /\ stage[f] = "creating"
      /\ request' = f
      /\ stage' = [stage EXCEPT ![f] = "ready"]
      /\ uses' = [uses EXCEPT ![f] = f]
      /\ UNCHANGED <<frames, results, blocks, global, seen, text>>
  BY DEF CreateRequest
<1>2. /\ stage' \in [Frames -> Stages]
      /\ uses' \in [Frames -> 0 .. MaxFrames]
      /\ uses[f] = 0 /\ uses'[f] = f /\ f # 0
      /\ stage'[f] = "ready"
      /\ \A g \in Frames : g # f => uses'[g] = uses[g] /\ stage'[g] = stage[g]
  BY <1>1, Basics DEF IInv, TypeOK, Stages, Frames
<1>3. TypeOK'
  BY <1>1, <1>2, Basics DEF IInv, TypeOK, Frames
<1>4. Creators'
  <2>1. ASSUME NEW g \in Frames, uses'[g] # 0 PROVE uses'[uses'[g]] = uses'[g]
    <3>1. CASE g = f
      BY <1>2, <3>1
    <3>2. CASE g # f
      <4>1. uses'[g] = uses[g] /\ uses[g] \in Frames /\ uses[uses[g]] = uses[g]
        BY <1>2, <2>1, <3>2, Basics DEF IInv, Creators
      <4> QED  BY <1>2, <4>1, Basics
    <3> QED  BY <3>1, <3>2
  <2> QED  BY <1>1, <1>2, <2>1 DEF Creators
<1>5. NoEarlyResults'
  BY <1>1, <1>2, Basics DEF IInv, NoEarlyResults
<1>6. BlocksInv'
  BY <1>1, <1>2, Basics DEF IInv, BlocksInv
<1>7. f \in Requests' /\ results'[f] \notin Labels
  BY <1>1, <1>2, FeedAssumption DEF IInv, NoEarlyResults, Requests
<1>8. OnTheWay'
  BY <1>7 DEF OnTheWay
<1>9. LabelStays'
  BY <1>1 DEF IInv, LabelStays
<1> QED  BY <1>3, <1>4, <1>5, <1>6, <1>8, <1>9 DEF IInv

(* The request is performed: its block is still to come.                    *)
LEMMA PerformInv ==
  ASSUME IInv, NEW f \in Frames, Perform(f)
  PROVE  IInv'
<1>1. /\ stage[f] = "ready"
      /\ stage' = [stage EXCEPT ![f] = "performed"]
      /\ UNCHANGED <<frames, uses, request, blocks, global, seen, text>>
  BY DEF Perform
<1>2. PICK r \in Results : results' = [results EXCEPT ![uses[f]] = r]
  BY DEF Perform
<1>3. uses[f] \in Frames /\ uses[uses[f]] = uses[f]
  BY <1>1, Basics DEF IInv, Creators
<1>4. /\ stage' \in [Frames -> Stages]
      /\ results' \in [Frames -> Results]
      /\ stage'[f] = "performed"
      /\ \A g \in Frames : g # f => stage'[g] = stage[g]
      /\ \A g \in Frames : g # uses[f] => results'[g] = results[g]
  BY <1>1, <1>2, Basics DEF Stages
<1>5. TypeOK'
  BY <1>1, <1>4 DEF IInv, TypeOK
<1>6. Creators' /\ BlocksInv'
  BY <1>1 DEF IInv, Creators, BlocksInv
<1>7. NoEarlyResults'
  BY <1>1, <1>3, <1>4 DEF IInv, NoEarlyResults
<1>8. OnTheWay'
  BY <1>4 DEF OnTheWay
<1>9. LabelStays'
  BY <1>1 DEF IInv, LabelStays
<1> QED  BY <1>5, <1>6, <1>7, <1>8, <1>9 DEF IInv

(* The answer goes to the main queue.                                       *)
LEMMA CompleteInv ==
  ASSUME IInv, NEW f \in Frames, Complete(f)
  PROVE  IInv'
<1>1. /\ stage[f] = "performed"
      /\ blocks' = Append(blocks, uses[f])
      /\ stage' = [stage EXCEPT ![f] = "done"]
      /\ UNCHANGED <<frames, uses, request, results, global, seen, text>>
  BY DEF Complete
<1>2. uses[f] \in Frames /\ uses[uses[f]] = uses[f]
  BY <1>1, Basics DEF IInv, Creators
<1>3. /\ blocks' \in Seq(Frames)
      /\ blocks' # <<>>
      /\ Len(blocks') = Len(blocks) + 1
      /\ \A i \in 1 .. Len(blocks) + 1 :
           blocks'[i] = IF i = Len(blocks) + 1 THEN uses[f] ELSE blocks[i]
      /\ Len(blocks) \in Nat
  BY <1>1, <1>2, Basics, Enqueue
<1>4. /\ stage' \in [Frames -> Stages]
      /\ stage'[f] = "done"
      /\ \A g \in Frames : g # f => stage'[g] = stage[g]
  BY <1>1, Basics DEF Stages
<1>5. TypeOK'
  BY <1>1, <1>3, <1>4 DEF IInv, TypeOK
<1>6. Creators' /\ NoEarlyResults'
  BY <1>1 DEF IInv, Creators, NoEarlyResults
<1>7. BlocksInv'
  BY <1>1, <1>2, <1>3 DEF IInv, BlocksInv
<1>8. OnTheWay'
  BY <1>3 DEF OnTheWay
<1>9. LabelStays'
  BY <1>1 DEF IInv, LabelStays
<1> QED  BY <1>5, <1>6, <1>7, <1>8, <1>9 DEF IInv

(* A block of the main queue looks at the request as it is now.             *)
LEMMA ClassifiedInv ==
  ASSUME IInv, Classified
  PROVE  IInv'
<1> DEFINE result == results[Head(blocks)]
<1>1. /\ blocks # <<>>
      /\ blocks' = Tail(blocks)
      /\ global' = IF HasLabel(result) THEN [global EXCEPT !["classification"] = result] ELSE global
      /\ UNCHANGED <<frames, stage, uses, request, results, seen, text>>
  BY DEF Classified
<1>2. /\ blocks' \in Seq(Frames)
      /\ Head(blocks) = blocks[1]
      /\ 1 \in 1 .. Len(blocks)
      /\ \A i \in 1 .. Len(blocks') : i + 1 \in 1 .. Len(blocks) /\ blocks'[i] = blocks[i + 1]
  BY <1>1, Basics, Dequeue
<1>3. DOMAIN global' = Fields /\ \A field \in Fields : global'[field] \in Values(field)
  BY <1>1 DEF HasLabel, IInv, TypeOK, Fields, Values
<1>4. TypeOK'
  BY <1>1, <1>2, <1>3 DEF IInv, TypeOK
<1>5. Creators' /\ NoEarlyResults'
  BY <1>1 DEF IInv, Creators, NoEarlyResults
<1>6. BlocksInv'
  BY <1>1, <1>2 DEF IInv, BlocksInv
<1>7. OnTheWay'
  <2> SUFFICES ASSUME \A r \in Requests : results[r] \in Labels
               PROVE  \E r \in Requests : global'["classification"] = results[r]
    BY <1>1 DEF OnTheWay, Requests
  <2>1. blocks[1] \in Requests
    BY <1>2, Basics DEF IInv, BlocksInv, Requests
  <2>2. HasLabel(result) /\ result = results[blocks[1]]
    BY <1>2, <2>1 DEF HasLabel
  <2>3. global'["classification"] = result
    BY <1>1, <2>2 DEF IInv, TypeOK, Fields
  <2> QED  BY <2>1, <2>2, <2>3
<1>8. LabelStays'
  <2>1. HasLabel(result) => global'["classification"] \in Labels
    BY <1>1 DEF HasLabel, IInv, TypeOK, Fields
  <2> QED  BY <1>1, <2>1, FeedAssumption DEF IInv, LabelStays
<1> QED  BY <1>4, <1>5, <1>6, <1>7, <1>8 DEF IInv

(* The body is evaluated.                                                   *)
LEMMA EvaluateInv ==
  ASSUME IInv, EvaluateBody
  PROVE  IInv'
<1>1. /\ text' = [field \in Fields |-> Shown(field)]
      /\ seen' = global
      /\ UNCHANGED <<frames, stage, uses, request, results, blocks, global>>
  BY DEF EvaluateBody
<1>2. /\ text'["meters"] = Shown("meters")
      /\ text'["classification"] = Shown("classification")
  BY <1>1 DEF Fields
<1>3. Shown("meters") \in Values("meters")
  BY DEF Shown, IInv, TypeOK, Fields
<1>4. Shown("classification") \in Labels \cup {"x"}
  <2>1. global["classification"] \in Labels \cup {"None"}
        /\ seen["classification"] \in Labels \cup {"None"}
    BY DEF IInv, TypeOK, Fields, Values
  <2> QED  BY <2>1 DEF Shown, IInv, TypeOK, LabelStays
<1>5. TypeOK'
  BY <1>1, <1>2, <1>3, <1>4 DEF IInv, TypeOK
<1>6. (Creators /\ NoEarlyResults /\ BlocksInv /\ OnTheWay)'
  BY <1>1 DEF IInv, Creators, NoEarlyResults, BlocksInv, OnTheWay, Requests
<1>7. LabelStays'
  BY <1>1 DEF LabelStays
<1> QED  BY <1>5, <1>6, <1>7 DEF IInv

(* Every step keeps the invariant.                                          *)
LEMMA NextInv == IInv /\ [Next]_vars => IInv'
<1> SUFFICES ASSUME IInv, [Next]_vars PROVE IInv'
  OBVIOUS
<1>1. CASE DeliverFrame
  BY <1>1, DeliverInv
<1>2. ASSUME NEW f \in Frames, Background(f) PROVE IInv'
  BY <1>2, ReadRequestInv, CreateRequestInv, PerformInv, CompleteInv DEF Background
<1>3. CASE Classified
  BY <1>3, ClassifiedInv
<1>4. CASE EvaluateBody
  BY <1>4, EvaluateInv
<1>5. CASE UNCHANGED vars
  BY <1>5 DEF vars, IInv, TypeOK, Creators, NoEarlyResults, BlocksInv, OnTheWay, Requests,
              LabelStays
<1> QED  BY <1>1, <1>2, <1>3, <1>4, <1>5 DEF Next

THEOREM Inductive == Spec => []IInv
BY InitInv, NextInv, PTL DEF Spec

-----------------------------------------------------------------------------
(***************************************************************************)
(* Theorems.                                                               *)
(***************************************************************************)

(* Every variable keeps its type, for any number of frames.                 *)
THEOREM TypeCorrect == Spec => []TypeOK
<1>1. IInv => TypeOK
  BY DEF IInv
<1> QED  BY Inductive, <1>1, PTL

(* However the background blocks of any number of frames interleave, the    *)
(* race to create the request included (CustomARView.swift:32), when all is *)
(* done the label is that of the last image one of the requests was         *)
(* performed on: of the last image classified, if there was no race.        *)
THEOREM LastImageIsShown == Spec => []LastImageWins
<1>1. IInv => LastImageWins
  BY DEF IInv, OnTheWay, LastImageWins, AtRest
<1> QED  BY Inductive, <1>1, PTL

=============================================================================
