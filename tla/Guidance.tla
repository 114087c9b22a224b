------------------------------ MODULE Guidance ------------------------------
(***************************************************************************)
(* The audio guidance of ARViewExtension.swift.  Every anchor that ARKit   *)
(* reports as added makes `addAnchorEntityToScene` append one box per      *)
(* stored transformation to the global array `entities`, and give each box *)
(* two repeating one-second timers: one that starts the box's sound when   *)
(* the global `step` reaches the box, and one that silences the box and    *)
(* advances `step` when the camera is within 1.1 m of it.  A global        *)
(* `coolDown` flag, cleared by a delayed block, separates two advances.    *)
(*                                                                         *)
(* All of it runs on the main run loop, one callback at a time.  A timer   *)
(* that fires is due again one second later, after every timer that is due *)
(* now: the run loop is the sequence `ring`, whose head fires and goes to  *)
(* the back.  The ring also holds the camera timer of CustomARView.setup,  *)
(* which is older than every box: one second passes per turn of the ring.  *)
(*                                                                         *)
(* A box is named by its index in `entities`, so `entities[step] == box`   *)
(* is `step = box`.  Distances are not computed: each time a distance      *)
(* timer fires, the box is close or it is not.                             *)
(***************************************************************************)
EXTENDS Naturals, Sequences, FiniteSets

CONSTANTS
  MaxBoxes,      \* bound on entities.count
  MaxAnchors,    \* bound on the anchors reported by ARKit
  MaxStep,       \* bound on step: the walk stays within that many advances
  CoolDownTicks  \* camera ticks that surely pass during the 5 s cool-down

ASSUME GuidanceAssumption ==
  /\ MaxBoxes \in Nat
  /\ MaxAnchors \in Nat
  /\ MaxStep \in Nat
  /\ CoolDownTicks \in Nat

(* The cool-down is longer than two turns of the one-second timers. *)
ASSUME CoolDownIsLong == CoolDownTicks >= 2

VARIABLES
  count,     \* entities.count
  ring,      \* the timers of the main run loop, in the order they are due
  step,      \* index of the current box, never reset
  coolDown,  \* an advance happened less than 5 s ago
  resets,    \* the pending `coolDown = false` blocks: ticks each still waits
  audio,     \* state of the audio controller of each box
  anchors    \* anchors handled so far

vars == <<count, ring, step, coolDown, resets, audio, anchors>>

BoxIds == 0 .. MaxBoxes - 1
Timers == [kind : {"camera", "play", "near"}, box : BoxIds \cup {0}]

(* "none": no such box, or its sound failed to load, so it has no timers. *)
AudioStates == {"none", "idle", "playing", "stopped"}

CameraTimer  == [kind |-> "camera", box |-> 0]
PlayTimer(b) == [kind |-> "play", box |-> b]
NearTimer(b) == [kind |-> "near", box |-> b]

(* What a listener can tell of a box's audio controller. *)
SoundOf(state) ==
  CASE state = "playing" -> "sounding"
    [] state = "stopped" -> "over"
    [] OTHER -> "silent"

TypeOK ==
  /\ count \in 0 .. MaxBoxes
  /\ ring \in Seq(Timers)
  /\ step \in Nat
  /\ coolDown \in BOOLEAN
  /\ resets \in Seq(0 .. CoolDownTicks)
  /\ audio \in [BoxIds -> AudioStates]
  /\ anchors \in 0 .. MaxAnchors

Init ==
  /\ count = 0
  /\ ring = <<CameraTimer>>
  /\ step = 0
  /\ coolDown = FALSE
  /\ resets = <<>>
  /\ audio = [b \in BoxIds |-> "none"]
  /\ anchors = 0

-----------------------------------------------------------------------------
(***************************************************************************)
(* A new anchor.                                                           *)
(***************************************************************************)

(* Boxes first .. last, in order, without those whose sound does not load. *)
LoadedBoxes(first, last) ==
  UNION {{s \in [1 .. k -> first .. last] : \A i, j \in 1 .. k : i < j => s[i] < s[j]} :
         k \in 0 .. last - first + 1}

(* The two timers of each loaded box, in the order the loop creates them. *)
TimersOf(loaded) ==
  [k \in 1 .. 2 * Len(loaded) |->
     IF k % 2 = 1 THEN PlayTimer(loaded[(k + 1) \div 2]) ELSE NearTimer(loaded[k \div 2])]

(* didAdd reports an anchor while there are n transformations.  A box whose *)
(* sound does not load stays in `entities`, without timers.                 *)
AddAnchor(n) ==
  /\ anchors < MaxAnchors
  /\ count + n <= MaxBoxes
  /\ \E loaded \in LoadedBoxes(count, count + n - 1) :
       /\ ring' = ring \o TimersOf(loaded)
       /\ audio' = [b \in BoxIds |->
                      IF \E i \in DOMAIN loaded : loaded[i] = b THEN "idle" ELSE audio[b]]
  /\ count' = count + n
  /\ anchors' = anchors + 1
  /\ UNCHANGED <<step, coolDown, resets>>

-----------------------------------------------------------------------------
(***************************************************************************)
(* The timers.                                                             *)
(***************************************************************************)

Rotate == Append(Tail(ring), Head(ring))

IsCurrentBeforeStep(b) == b <= step

(* entities.count > step && entities[step] == box *)
IsCurrent(b) == count > step /\ b = step

KeepPlayTimer == Rotate

DropUnplayed == Tail(ring)

(* The timer goes on firing until its box is the current one. *)
WaitForTurn == Rotate

(* timer.invalidate() once the sound has been started. *)
DropPlayTimer == Tail(ring)

FirePlay(b) ==
  /\ Head(ring) = PlayTimer(b)
  /\ \/ /\ IsCurrent(b)
        /\ audio' = [audio EXCEPT ![b] = "playing"]
        /\ ring' = DropPlayTimer
     \/ /\ ~ IsCurrent(b)
        /\ ring' = WaitForTurn
        /\ UNCHANGED audio
  /\ UNCHANGED <<count, step, coolDown, resets, anchors>>

(* stop() silences a sound that plays and does nothing to one that does not. *)
Silenced(b) ==
  [audio EXCEPT ![b] = IF @ = "playing" THEN "stopped" ELSE @]

MayAlwaysAdvance == TRUE

(* if !coolDown *)
MayAdvance == ~ coolDown

ResetAtOnce == Append(resets, 0)

(* DispatchQueue.main.asyncAfter(deadline: .now() + 5.0) *)
ScheduleReset == Append(resets, CoolDownTicks)

(* The distance timer finds the camera near box b, or does not.  Any box    *)
(* advances `step`, not only the current one.                               *)
FireNear(b) ==
  /\ Head(ring) = NearTimer(b)
  /\ ring' = Rotate
  /\ \/ UNCHANGED <<step, coolDown, resets, audio>>
     \/ /\ audio' = Silenced(b)
        /\ \/ /\ MayAdvance
              /\ step < MaxStep
              /\ step' = step + 1
              /\ coolDown' = TRUE
              /\ resets' = ScheduleReset
           \/ /\ ~ MayAdvance
              /\ UNCHANGED <<step, coolDown, resets>>
  /\ UNCHANGED <<count, anchors>>

CameraTickOverdue ==
  /\ Head(ring) = CameraTimer
  /\ ring' = Rotate
  /\ resets' = [i \in DOMAIN resets |-> resets[i] - 1]
  /\ UNCHANGED <<count, step, coolDown, audio, anchors>>

(* The camera timer: a second has passed since it last fired. *)
CameraTick ==
  /\ Head(ring) = CameraTimer
  /\ ring' = Rotate
  /\ resets' = [i \in DOMAIN resets |-> IF resets[i] = 0 THEN 0 ELSE resets[i] - 1]
  /\ UNCHANGED <<count, step, coolDown, audio, anchors>>

(* A delayed block runs: coolDown = false. *)
CoolDownOver ==
  /\ resets # <<>>
  /\ Head(resets) = 0
  /\ resets' = Tail(resets)
  /\ coolDown' = FALSE
  /\ UNCHANGED <<count, ring, step, audio, anchors>>

-----------------------------------------------------------------------------

RunLoop ==
  \/ CameraTick
  \/ \E b \in BoxIds : FirePlay(b) \/ FireNear(b)

Next ==
  \/ \E n \in 1 .. MaxBoxes : AddAnchor(n)
  \/ RunLoop
  \/ CoolDownOver

(* The main run loop keeps firing due timers and keeps draining the main    *)
(* queue; nothing obliges ARKit to report an anchor.                        *)
Fairness ==
  /\ WF_vars(RunLoop)
  /\ WF_vars(CoolDownOver)

Spec == Init /\ [][Next]_vars /\ Fairness

-----------------------------------------------------------------------------
(***************************************************************************)
(* Properties.                                                             *)
(***************************************************************************)

(* `coolDown` is set exactly while one delayed block that clears it is      *)
(* pending: the flag shared by all distance timers can neither stay set for *)
(* ever nor be cleared early by the block of an earlier advance.            *)
CoolDownHasItsReset ==
  /\ coolDown => Len(resets) = 1
  /\ ~ coolDown => resets = <<>>

(* While the boxes come from a single anchor, `step` never passes a box     *)
(* whose sound is loaded before that sound has been started: the cool-down  *)
(* leaves each one-second timer the time to see every value of `step`.      *)
NoStopSkipped ==
  anchors <= 1 => \A b \in BoxIds : audio[b] = "idle" => step <= b

(* The timers of all boxes together implement the announcement of a route:  *)
(* a sound starts for the current `step` only, never again once it has been *)
(* silenced, and `step` moves by one, when the walker reaches a box.        *)
Route == INSTANCE Announcements
           WITH Stops <- BoxIds,
                current <- step,
                sound <- [b \in BoxIds |-> SoundOf(audio[b])]
AnnouncesRoute == Route!Spec

(* The current box, if its sound is loaded, is eventually announced, unless *)
(* the route has moved past it.                                             *)
CurrentIsAnnounced ==
  \A b \in BoxIds :
    (step = b /\ audio[b] = "idle") ~> (audio[b] # "idle" \/ step > b)

=============================================================================
