---------------------------- MODULE FocusEntity ----------------------------
(***************************************************************************)
(* The focus square (Foucs/FocusEntity*.swift): a square that lies on the  *)
(* surface the camera looks at and floats before the camera when there is  *)
(* none.  A view creates one in its initialiser; RealityKit then calls     *)
(* updateFocusEntity on every scene update while the square subscribes to  *)
(* them.  A frame casts one ray, whose result is a surface or nothing.     *)
(*                                                                         *)
(* Kept: the state machine initializing/tracking, the plane bookkeeping,   *)
(* the histories that smooth position and alignment, opening and closing   *)
(* of the segments, and the subscription.  The eight segments are changed  *)
(* together and alike, so one stands for all.  Left out: the rotation and  *)
(* isChangingAlignment, which only paces it; the delegate, which the app   *)
(* does not set; the coloured style, which it does not choose.             *)
(***************************************************************************)
EXTENDS Integers, Sequences, FiniteSets

CONSTANTS
  Views,           \* the AR views of the process
  NoView,          \* nil
  Home,            \* the view the square is created on
  AlignWindow,     \* recent alignments kept, 20 in the code
  PositionWindow   \* recent positions kept, 10 in the code

ASSUME FocusAssumption ==
  /\ Home \in Views
  /\ NoView \notin Views
  /\ AlignWindow \in Nat \ {0, 1}
  /\ PositionWindow \in Nat \ {0}

VARIABLES
  phase,         \* state: "initializing" or "tracking"
  onPlane,       \* the square lies on a plane anchor
  isOpen,        \* its corners are drawn apart
  segment,       \* a segment: its length, and its shift outwards
  scale,         \* positioningEntity.scale: "closed" or "full"
  alignment,     \* currentAlignment
  planeAnchor,   \* currentPlaneAnchor: its alignment, None if nil
  alignments,    \* recentFocusEntityAlignments
  positions,     \* recentFocusEntityPositions: where each one comes from
  arView,        \* the view of the square
  scene,         \* the view in whose scene the square is
  subscription,  \* the view whose scene updates arrive
  isAutoUpdating,
  hit,           \* result of the last ray (history)
  turned,        \* the last frame turned the square on an estimate (history)
  tick           \* changes with every frame (history)

shape   == <<phase, onPlane, isOpen, segment, scale, alignment, planeAnchor, alignments, positions>>
feed    == <<arView, scene, subscription, isAutoUpdating>>
history == <<hit, turned, tick>>
vars    == <<shape, feed, history>>

None       == "none"
Alignments == {"horizontal", "vertical"}

(* Ray results: a plane anchor with its alignment, or an estimated surface  *)
(* with a target alignment, which may be neither of the two.                *)
Surfaces == [plane : {TRUE}, alignment : Alignments]
              \cup [plane : {FALSE}, alignment : Alignments \cup {"any"}]
NoHit    == [plane |-> FALSE, alignment |-> None]

(* Segment lengths in tenths; shifts count half tenths. *)
Length        == 5
OpenLength    == 2
ClosedSegment == [length |-> Length, shift |-> 0]
OpenSegment   == [length |-> OpenLength, shift |-> Length - OpenLength]

(* Segment.open and Segment.close: open moves outwards whatever the length  *)
(* is, close moves back by what the old length says.                        *)
Opened(s) == [length |-> OpenLength, shift |-> s.shift + (Length - OpenLength)]
Closed(s) == [length |-> Length, shift |-> s.shift - (Length - s.length)]

TypeOK ==
  /\ phase \in {"initializing", "tracking"}
  /\ onPlane \in BOOLEAN
  /\ isOpen \in BOOLEAN
  /\ segment \in [length : {Length, OpenLength}, shift : Int]
  /\ scale \in {"closed", "full"}
  /\ alignment \in Alignments \cup {None}
  /\ planeAnchor \in Alignments \cup {None}
  /\ alignments \in Seq(Alignments) /\ Len(alignments) <= AlignWindow
  /\ positions \in Seq({"camera", "surface"}) /\ Len(positions) <= PositionWindow
  /\ arView \in Views \cup {NoView}
  /\ scene \in Views \cup {NoView}
  /\ subscription \in Views \cup {NoView}
  /\ isAutoUpdating \in BOOLEAN
  /\ hit \in Surfaces \cup {NoHit}
  /\ turned \in BOOLEAN
  /\ tick \in BOOLEAN

(* init(on:focus:) with the classic style: setupClassic opens the segments  *)
(* it has just made.                                                        *)
Init ==
  /\ phase = "initializing"
  /\ onPlane = FALSE
  /\ isOpen = TRUE
  /\ segment = Opened(ClosedSegment)
  /\ scale = "closed"
  /\ alignment = None
  /\ planeAnchor = None
  /\ alignments = <<>>
  /\ positions = <<>>
  /\ arView = Home
  /\ scene = Home
  /\ subscription = Home
  /\ isAutoUpdating = TRUE
  /\ hit = NoHit
  /\ turned = FALSE
  /\ tick = FALSE

-----------------------------------------------------------------------------
(***************************************************************************)
(* One scene update.                                                       *)
(***************************************************************************)

Oldest(s, n) == SubSeq(s, 1, IF Len(s) <= n THEN Len(s) ELSE n)

KeepAll(s, n) == s

(* The last n elements of s. *)
Recent(s, n) == SubSeq(s, IF Len(s) <= n THEN 1 ELSE Len(s) - n + 1, Len(s))

Count(s, a) == Cardinality({i \in DOMAIN s : s[i] = a})

MostOrHalf(a, recent) ==
  \/ a = "horizontal" /\ Count(recent, a) >= (Len(recent) * 3) \div 4
  \/ a = "vertical" /\ Count(recent, a) >= Len(recent) \div 2

(* The alignment a is that of most of the recent ones. *)
Most(a, recent) ==
  \/ a = "horizontal" /\ Count(recent, a) > (Len(recent) * 3) \div 4
  \/ a = "vertical" /\ Count(recent, a) > Len(recent) \div 2

RedrawAlways(open) ==
  /\ isOpen' = open
  /\ segment' = IF open THEN Opened(segment) ELSE Closed(segment)
  /\ scale' = IF open THEN "full" ELSE scale

(* offPlaneAniation and onPlaneAnimation. *)
Redraw(open) ==
  /\ isOpen' = open
  /\ IF open = isOpen
       THEN UNCHANGED <<segment, scale>>
       ELSE /\ segment' = IF open THEN Opened(segment) ELSE Closed(segment)
            /\ scale' = IF open THEN "full" ELSE scale

(* The position added for a surface: in front of the camera until the       *)
(* square has an alignment.                                                 *)
Place(source) == positions' = Recent(Append(positions, source), PositionWindow)

(* updateAlignment. *)
Align(h) ==
  LET recent == IF h.alignment \in Alignments
                  THEN Recent(Append(alignments, h.alignment), AlignWindow)
                  ELSE alignments
  IN  /\ alignments' = recent
      /\ alignment' = IF h.plane \/ Most(h.alignment, recent) THEN h.alignment ELSE alignment

(* A surface was hit: entityOnPlane or entityOffPlane. *)
Track(h) ==
  /\ phase' = "tracking"
  /\ onPlane' = h.plane
  /\ Redraw(~ h.plane)
  /\ Place(IF alignment = None THEN "camera" ELSE "surface")
  /\ Align(h)
  /\ planeAnchor' = IF h.plane THEN h.alignment ELSE None

(* Nothing was hit, or ARKit's tracking is not normal: the square goes      *)
(* before the camera; if it was tracking it becomes a billboard.            *)
Lose ==
  /\ phase' = "initializing"
  /\ Place("camera")
  /\ IF phase = "tracking"
       THEN onPlane' = FALSE /\ alignment' = None /\ Redraw(TRUE)
       ELSE UNCHANGED <<onPlane, alignment, isOpen, segment, scale>>
  /\ UNCHANGED <<planeAnchor, alignments>>

(* updateFocusEntity, called with the updates the square subscribes to. *)
Frame ==
  /\ subscription # NoView
  /\ \E h \in Surfaces \cup {NoHit} :
       /\ IF h = NoHit THEN Lose ELSE Track(h)
       /\ hit' = h
       /\ turned' = (~ h.plane /\ {alignment, alignment'} = Alignments)
       /\ tick' = ~ tick
  /\ UNCHANGED feed

-----------------------------------------------------------------------------
(***************************************************************************)
(* Public operations.                                                      *)
(***************************************************************************)

SetAutoUpdate(on) ==
  /\ on # isAutoUpdating
  /\ arView # NoView
  /\ subscription' = IF on THEN arView ELSE NoView
  /\ isAutoUpdating' = on
  /\ UNCHANGED <<shape, arView, scene, history>>

MoveWithoutResubscribing(view) ==
  /\ arView' = view
  /\ scene' = view
  /\ UNCHANGED <<shape, subscription, isAutoUpdating, history>>

(* moveTo: the updates of the old view are cancelled first. *)
MoveTo(view) ==
  /\ arView' = view
  /\ scene' = view
  /\ subscription' = IF isAutoUpdating THEN view ELSE NoView
  /\ UNCHANGED <<shape, isAutoUpdating, history>>

(* destroy: the square leaves its scene. *)
Destroy ==
  /\ arView' = NoView
  /\ scene' = NoView
  /\ subscription' = NoView
  /\ isAutoUpdating' = FALSE
  /\ UNCHANGED <<shape, history>>

Next ==
  \/ Frame
  \/ \E on \in BOOLEAN : SetAutoUpdate(on)
  \/ \E view \in Views : MoveTo(view)
  \/ Destroy

(* A running session goes on updating the scene. *)
Spec == Init /\ [][Next]_vars /\ WF_vars(Frame)

-----------------------------------------------------------------------------
(***************************************************************************)
(* Properties.                                                             *)
(***************************************************************************)

(* The parts agree however surfaces come and go: a square that is not       *)
(* tracking floats, open and without alignment; it is closed exactly on a   *)
(* plane, and then has the alignment of that plane.                         *)
Consistent ==
  /\ phase = "initializing" => ~ onPlane /\ alignment = None
  /\ isOpen = ~ onPlane
  /\ onPlane => planeAnchor # None /\ alignment = planeAnchor

(* Opening moves a segment by a fixed amount and closing by what its length *)
(* says; after any sequence of the two the segments are where they belong.  *)
SegmentInPlace == segment = IF isOpen THEN OpenSegment ELSE ClosedSegment

(* The square shows what it has found.                                      *)
SquareIsRight == Consistent /\ SegmentInPlace

(* Through every move between views the square is in the scene of its view; *)
(* updates arrive from that scene, and only while it asks for them.         *)
FollowsItsView ==
  /\ scene = arView
  /\ isAutoUpdating => arView # NoView
  /\ subscription = IF isAutoUpdating THEN arView ELSE NoView

(* The smoothing keeps the square from flickering: two frames in a row      *)
(* never turn it back and forth between floor and wall on estimates alone.  *)
NoFlicker == [][turned /\ turned' => tick' = tick]_vars

(* The smoothing never keeps the square from following: when the ray goes   *)
(* on hitting the same kind of surface, the square settles on it, whatever  *)
(* the histories held; when it hits nothing the square settles before the   *)
(* camera.                                                                  *)
SettlesOn(h, a, source) ==
  <>[](subscription # NoView /\ hit = h)
    => <>[](alignment = a /\ \A i \in DOMAIN positions : positions[i] = source)

Settles ==
  /\ \A h \in Surfaces : h.alignment # "any" => SettlesOn(h, h.alignment, "surface")
  /\ SettlesOn(NoHit, None, "camera")

=============================================================================
