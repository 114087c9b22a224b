----------------------------- MODULE FrameFeed -----------------------------
(***************************************************************************)
(* What the app makes of the camera's frames (ARViewExtension.swift,       *)
(* ContentView.swift).  ARKit delivers frames on the main thread; each one *)
(* leaves its depth in the global `meters` and starts a block on a         *)
(* concurrent background queue that classifies the image.  All blocks of a *)
(* view share one lazily created classification request, whose results     *)
(* are those of the last image it was performed on.  The completion        *)
(* handler goes back to the main queue, reads the results of the request   *)
(* there and sets the global `classification`.  ContentView shows both     *)
(* globals through onChange, which looks at them when the body is          *)
(* evaluated, as the 0.1 s timer makes happen again and again.             *)
(*                                                                         *)
(* One view, in its first session.  Images, depths and labels are members  *)
(* of small sets; what a request answers is any of its possible results.   *)
(***************************************************************************)
EXTENDS Naturals, Sequences

CONSTANTS
  MaxFrames,  \* bound on the frames delivered
  Labels,     \* identifiers a classification may put last
  Depths      \* distances the depth map may hold at the index read

ASSUME FeedAssumption ==
  /\ MaxFrames \in Nat
  /\ {"None", "x", "nil", "empty"} \cap Labels = {}

VARIABLES
  frames,   \* frames delivered so far
  stage,    \* how far the background block of each frame is
  uses,     \* the request the block of each frame performs, 0 before it has one
  request,  \* classificationRequest: the frame that created it, 0 if none yet
  results,  \* results of each request
  blocks,   \* the main queue: the request each block looks at
  global,   \* meters and classification
  seen,     \* both, when the body was last evaluated
  text      \* distance and classify, on the screen

vars == <<frames, stage, uses, request, results, blocks, global, seen, text>>

Frames == 1 .. MaxFrames
Stages == {"none", "queued", "creating", "ready", "performed", "done"}
Fields == {"meters", "classification"}

(* "nil": results is nil; "empty": an empty array. *)
Results == Labels \cup {"nil", "empty"}

Values(field) == IF field = "meters" THEN Depths \cup {0} ELSE Labels \cup {"None"}

Start == [field \in Fields |-> IF field = "meters" THEN 0 ELSE "None"]

TypeOK ==
  /\ frames \in 0 .. MaxFrames
  /\ stage \in [Frames -> Stages] /\ \A f \in Frames : stage[f] = "none" <=> f > frames
  /\ uses \in [Frames -> 0 .. MaxFrames]
  /\ \A f \in Frames : uses[f] = 0 <=> stage[f] \in {"none", "queued", "creating"}
  /\ request \in 0 .. MaxFrames
  /\ results \in [Frames -> Results]
  /\ blocks \in Seq(Frames)
  /\ DOMAIN global = Fields /\ \A field \in Fields : global[field] \in Values(field)
  /\ DOMAIN seen = Fields /\ \A field \in Fields : seen[field] \in Values(field)
  /\ text["meters"] \in Values("meters")
  /\ text["classification"] \in Labels \cup {"x"}

Init ==
  /\ frames = 0
  /\ stage = [f \in Frames |-> "none"]
  /\ uses = [f \in Frames |-> 0]
  /\ request = 0
  /\ results = [f \in Frames |-> "nil"]
  /\ blocks = <<>>
  /\ global = Start
  /\ seen = Start
  /\ text = [Start EXCEPT !["classification"] = "x"]

-----------------------------------------------------------------------------
(***************************************************************************)
(* Frames and their background blocks.                                     *)
(***************************************************************************)

(* session(_:didUpdate:): not every frame has a depth map. *)
DeliverFrame ==
  /\ frames < MaxFrames
  /\ frames' = frames + 1
  /\ stage' = [stage EXCEPT ![frames + 1] = "queued"]
  /\ \E depth \in Depths \cup {global["meters"]} : global' = [global EXCEPT !["meters"] = depth]
  /\ UNCHANGED <<uses, request, results, blocks, seen, text>>

(* The block reads the lazy variable: it takes the request if there is one, *)
(* and otherwise starts to create one, as other blocks may at the same time.*)
ReadRequest(f) ==
  /\ stage[f] = "queued"
  /\ stage' = [stage EXCEPT ![f] = IF request = 0 THEN "creating" ELSE "ready"]
  /\ uses' = [uses EXCEPT ![f] = request]
  /\ UNCHANGED <<frames, request, results, blocks, global, seen, text>>

CreateRequest(f) ==
  /\ stage[f] = "creating"
  /\ request' = f
  /\ stage' = [stage EXCEPT ![f] = "ready"]
  /\ uses' = [uses EXCEPT ![f] = f]
  /\ UNCHANGED <<frames, results, blocks, global, seen, text>>

(* The request is performed on the image. *)
Perform(f) ==
  /\ stage[f] = "ready"
  /\ \E r \in Results : results' = [results EXCEPT ![uses[f]] = r]
  /\ stage' = [stage EXCEPT ![f] = "performed"]
  /\ UNCHANGED <<frames, uses, request, blocks, global, seen, text>>

(* processClassifications, called by the request. *)
Complete(f) ==
  /\ stage[f] = "performed"
  /\ blocks' = Append(blocks, uses[f])
  /\ stage' = [stage EXCEPT ![f] = "done"]
  /\ UNCHANGED <<frames, uses, request, results, global, seen, text>>

-----------------------------------------------------------------------------
(***************************************************************************)
(* The main queue and the screen.                                          *)
(***************************************************************************)

AnyResult(result) == TRUE

FirstLabel(result) == result \in Labels /\ global["classification"] = "None"

(* guard let results, and not empty. *)
HasLabel(result) == result \in Labels

(* The block of processClassifications. *)
Classified ==
  /\ blocks # <<>>
  /\ blocks' = Tail(blocks)
  /\ LET result == results[Head(blocks)]
     IN  global' = IF HasLabel(result)
                     THEN [global EXCEPT !["classification"] = result]
                     ELSE global
  /\ UNCHANGED <<frames, stage, uses, request, results, seen, text>>

ShownAsSeen(field) == IF global[field] # seen[field] THEN seen[field] ELSE text[field]

Shown(field) == IF global[field] # seen[field] THEN global[field] ELSE text[field]

(* The body of ContentView is evaluated; onChange compares with the values  *)
(* of the last time.                                                        *)
EvaluateBody ==
  /\ text' = [field \in Fields |-> Shown(field)]
  /\ seen' = global
  /\ UNCHANGED <<frames, stage, uses, request, results, blocks, global>>

Background(f) == ReadRequest(f) \/ CreateRequest(f) \/ Perform(f) \/ Complete(f)

Next ==
  \/ DeliverFrame
  \/ \E f \in Frames : Background(f)
  \/ Classified
  \/ EvaluateBody

(* Blocks that were dispatched are run; the timer evaluates the body again. *)
Fairness ==
  /\ \A f \in Frames : WF_vars(Background(f))
  /\ WF_vars(Classified)
  /\ WF_vars(EvaluateBody)

Spec == Init /\ [][Next]_vars /\ Fairness

-----------------------------------------------------------------------------
(***************************************************************************)
(* Properties.                                                             *)
(***************************************************************************)

AtRest == blocks = <<>> /\ \A f \in Frames : stage[f] \in {"none", "done"}

(* The requests in use: one, or several if blocks raced to create it. *)
Requests == {uses[f] : f \in Frames} \ {0}

(* The blocks of several frames perform the same request, or several that   *)
(* were created in a race, and the answers may overtake each other on the   *)
(* way to the main queue; but the last to arrive reads what its request     *)
(* holds by then.  When all are done the label is that of the last image    *)
(* one of the requests was performed on: with a single request, that of the *)
(* last image of all; after a race, it may be the other request that was    *)
(* performed last.                                                          *)
LastImageWins ==
  AtRest /\ Requests # {} /\ (\A r \in Requests : results[r] \in Labels)
    => \E r \in Requests : global["classification"] = results[r]

(* When no more frames come, the screen shows the globals: a value set      *)
(* between two evaluations of the body is not missed.                       *)
ScreenCatchesUp ==
  <>[](\A field \in Fields : global[field] # Start[field] => text[field] = global[field])

=============================================================================
