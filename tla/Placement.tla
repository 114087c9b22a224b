----------------------------- MODULE Placement -----------------------------
(***************************************************************************)
(* Placing anchors and points (Gestures.swift).  The buttons of            *)
(* ContentView only set the globals addAudio and placeIntitialAnchor; a    *)
(* one-second timer of CustomARView.setupGestures casts a ray and places   *)
(* the point or the anchor.  The timer is never invalidated and keeps its  *)
(* view alive, so every view that was ever opened takes part, in its own   *)
(* AR session.  A tap places an anchor directly, and loading a world map   *)
(* resets the session and brings the anchors of the map back.              *)
(*                                                                         *)
(* A ray hits a plane or it does not.  The places themselves, and what is  *)
(* saved of them, are the subject of MapStore and WorldMap.                *)
(***************************************************************************)
EXTENDS Naturals

CONSTANTS
  MaxViews,   \* bound on the views opened by the process
  MaxAsked,   \* bound on the requests of each kind
  MaxAnchors  \* bound on the anchors of a session

ASSUME PlacementAssumption ==
  /\ MaxViews \in Nat
  /\ MaxAsked \in Nat
  /\ MaxAnchors \in Nat

VARIABLES
  opened,        \* views opened so far: they are 1 .. opened
  current,       \* the view on screen, 0 if none
  addAudio,      \* the global of that name
  placeInitial,  \* the global placeIntitialAnchor
  placed,        \* the global of that name
  showInitial,   \* ContentView.showInitial of the view on screen
  object,        \* virtualObjectAnchor # nil, for each view
  added,         \* anchors placed in each session since it was run
  session,       \* state of each view's AR session
  asked,         \* requests made (history)
  made           \* points appended to transformations and anchors added for
                 \* a request (history)

world   == <<object, added, session>>
history == <<asked, made>>
vars == <<opened, current, addAudio, placeInitial, placed, showInitial, world, history>>

Views == 1 .. MaxViews
Kinds == {"point", "anchor"}

TypeOK ==
  /\ opened \in 0 .. MaxViews
  /\ current \in {0, opened}
  /\ addAudio \in BOOLEAN
  /\ placeInitial \in BOOLEAN
  /\ placed \in BOOLEAN
  /\ showInitial \in BOOLEAN
  /\ object \in [Views -> BOOLEAN] /\ \A v \in Views : v > opened => ~ object[v]
  /\ added \in [Views -> 0 .. MaxAnchors]
  /\ session \in [Views -> {"mapping", "relocalizing", "relocalized"}]
  /\ asked \in [Kinds -> 0 .. MaxAsked]
  /\ made \in [Kinds -> Nat]

Init ==
  /\ opened = 0
  /\ current = 0
  /\ addAudio = FALSE
  /\ placeInitial = FALSE
  /\ placed = FALSE
  /\ showInitial = TRUE
  /\ object = [v \in Views |-> FALSE]
  /\ added = [v \in Views |-> 0]
  /\ session = [v \in Views |-> "mapping"]
  /\ asked = [k \in Kinds |-> 0]
  /\ made = [k \in Kinds |-> 0]

-----------------------------------------------------------------------------
(***************************************************************************)
(* ContentView.                                                            *)
(***************************************************************************)

OpenView ==
  /\ current = 0
  /\ opened < MaxViews
  /\ opened' = opened + 1
  /\ current' = opened + 1
  /\ showInitial' = TRUE
  /\ UNCHANGED <<addAudio, placeInitial, placed, world, history>>

(* onDisappear: addAudio and placed keep their values. *)
CloseView ==
  /\ current # 0
  /\ current' = 0
  /\ placeInitial' = FALSE
  /\ UNCHANGED <<opened, addAudio, placed, showInitial, world, history>>

(* "Place Initial Anchor". *)
AskAnchor ==
  /\ current # 0
  /\ showInitial
  /\ asked["anchor"] < MaxAsked
  /\ placeInitial' = TRUE
  /\ asked' = [asked EXCEPT !["anchor"] = @ + 1]
  /\ UNCHANGED <<opened, current, addAudio, placed, showInitial, world, made>>

(* An item of the "Place Audio" menu. *)
AskPoint ==
  /\ current # 0
  /\ asked["point"] < MaxAsked
  /\ addAudio' = TRUE
  /\ asked' = [asked EXCEPT !["point"] = @ + 1]
  /\ UNCHANGED <<opened, current, placeInitial, placed, showInitial, world, made>>

(* The 0.1 s timer of the view on screen. *)
Refresh ==
  /\ current # 0
  /\ showInitial' = ~ placed
  /\ UNCHANGED <<opened, current, addAudio, placeInitial, placed, world, history>>

-----------------------------------------------------------------------------
(***************************************************************************)
(* CustomARView.                                                           *)
(***************************************************************************)

MarkedByHit(v, hit) == hit

(* What `placed` becomes when view v casts a ray for a point: FALSE without *)
(* a hit, TRUE with a point, unchanged if there is no anchor to measure     *)
(* from.                                                                    *)
MarkedByPoint(v, hit) == hit /\ (object[v] \/ placed)

PointAlwaysAsked(anchorHit) == TRUE

(* addAudio after the firing: cleared before the ray for the anchor is cast.*)
PointStillAsked(anchorHit) == FALSE

AnchorNeverRetried(anchorHit) == FALSE

(* placeIntitialAnchor after the firing: the next one tries again. *)
AnchorStillAsked(anchorHit) == ~ anchorHit

AnyView(v) == TRUE

(* setup() has started the timer of view v. *)
HasTimer(v) == v <= opened

(* The gesture timer of view v: rayCastingMethod for a point, then a ray    *)
(* for the initial anchor.                                                  *)
GestureTimer(v) ==
  \E hit, anchorHit \in BOOLEAN :
    LET gets    == addAudio /\ hit /\ object[v]
        marked  == IF addAudio THEN MarkedByPoint(v, hit) ELSE placed
        anchors == placeInitial /\ anchorHit
    IN  /\ HasTimer(v)
        /\ anchors => added[v] < MaxAnchors
        /\ addAudio' = (addAudio /\ PointStillAsked(anchorHit))
        /\ placeInitial' = (placeInitial /\ AnchorStillAsked(anchorHit))
        /\ placed' = IF placeInitial THEN anchorHit ELSE marked
        /\ object' = [object EXCEPT ![v] = @ \/ anchors]
        /\ added' = [added EXCEPT ![v] = IF anchors THEN @ + 1 ELSE @]
        /\ made' = [made EXCEPT !["point"]  = IF gets THEN @ + 1 ELSE @,
                               !["anchor"] = IF anchors THEN @ + 1 ELSE @]
        /\ UNCHANGED <<opened, current, showInitial, session, asked>>

(* handleTap, with a plane under the finger. *)
Tap ==
  /\ current # 0
  /\ added[current] < MaxAnchors
  /\ object' = [object EXCEPT ![current] = TRUE]
  /\ added' = [added EXCEPT ![current] = @ + 1]
  /\ UNCHANGED <<opened, current, addAudio, placeInitial, placed, showInitial, session,
                 history>>

(* loadExperience: the session runs again, without its anchors. *)
Load ==
  /\ current # 0
  /\ object' = [object EXCEPT ![current] = FALSE]
  /\ added' = [added EXCEPT ![current] = 0]
  /\ session' = [session EXCEPT ![current] = "relocalizing"]
  /\ UNCHANGED <<opened, current, addAudio, placeInitial, placed, showInitial, history>>

(* ARKit recognises the place; the anchors of the map, if any, are added,   *)
(* and the first becomes the object anchor if there is none.                *)
Relocalize(v) ==
  /\ session[v] = "relocalizing"
  /\ session' = [session EXCEPT ![v] = "relocalized"]
  /\ \E any \in BOOLEAN : object' = [object EXCEPT ![v] = @ \/ any]
  /\ UNCHANGED <<opened, current, addAudio, placeInitial, placed, showInitial, added,
                 history>>

-----------------------------------------------------------------------------

Next ==
  \/ OpenView
  \/ CloseView
  \/ AskAnchor
  \/ AskPoint
  \/ Refresh
  \/ Tap
  \/ Load
  \/ \E v \in Views : GestureTimer(v) \/ Relocalize(v)

(* The timers of all views go on firing. *)
Fairness == \A v \in Views : WF_vars(GestureTimer(v))

Spec == Init /\ [][Next]_vars /\ Fairness

-----------------------------------------------------------------------------
(***************************************************************************)
(* Properties.                                                             *)
(***************************************************************************)

(* However many views are alive, a request places at most one point or      *)
(* anchor: the first timer that fires takes it from the others.             *)
NeverMoreThanAsked ==
  /\ made["point"] + (IF addAudio THEN 1 ELSE 0) <= asked["point"]
  /\ made["anchor"] + (IF placeInitial THEN 1 ELSE 0) <= asked["anchor"]

(* In the first view of the process the button "Place Initial Anchor" is    *)
(* hidden only when there is an anchor, until a map is loaded; without one  *)
(* no point could ever be placed.  (`placed` outlives its view, so later    *)
(* views may hide it from the start.)                                       *)
HiddenWithAnchor ==
  opened = 1 /\ current = 1 /\ session[1] = "mapping" /\ ~ showInitial => object[1]

(* A request for the initial anchor that is not answered was withdrawn by   *)
(* closing the view: a ray that misses leaves it to the next second.        *)
AnchorIsRetried ==
  [][placeInitial /\ ~ placeInitial' => current' = 0 \/ made'["anchor"] > made["anchor"]]_vars

(* A request for a point never waits for ever, even while the ray for the   *)
(* initial anchor keeps missing and ends the handler early.                 *)
PointRequestEnds == addAudio ~> ~ addAudio

=============================================================================
