-------------------------- MODULE PlacementProofs --------------------------
(***************************************************************************)
(* Proofs about placing anchors and points, for any number of views,       *)
(* requests and anchors.                                                   *)
(***************************************************************************)
EXTENDS Placement, TLAPS

(* Until a second view is opened or a map is loaded, `placed` and the hidden *)
(* button both mean that the first view has an anchor.                      *)
FirstViewInv ==
  opened <= 1 /\ 1 \in Views /\ session[1] = "mapping" =>
    /\ placed => object[1]
    /\ current = 1 /\ ~ showInitial => object[1]

(* A view that was never opened has run no session. *)
FreshSessions == \A v \in Views : v > opened => session[v] = "mapping"

IInv == TypeOK /\ NeverMoreThanAsked /\ FirstViewInv /\ FreshSessions

-----------------------------------------------------------------------------

(* The initial state.                                                       *)
LEMMA InitInv == Init => IInv
<1> SUFFICES ASSUME Init PROVE IInv
  OBVIOUS
<1>1. TypeOK
  <2>1. 0 \in 0 .. MaxViews /\ 0 \in 0 .. MaxAnchors /\ 0 \in 0 .. MaxAsked
    BY PlacementAssumption
  <2>2. /\ [v \in Views |-> FALSE] \in [Views -> BOOLEAN]
        /\ [v \in Views |-> 0] \in [Views -> 0 .. MaxAnchors]
        /\ [v \in Views |-> "mapping"] \in [Views -> {"mapping", "relocalizing", "relocalized"}]
        /\ [k \in Kinds |-> 0] \in [Kinds -> 0 .. MaxAsked]
        /\ [k \in Kinds |-> 0] \in [Kinds -> Nat]
    BY <2>1
  <2> QED  BY <2>1, <2>2 DEF Init, TypeOK
<1>2. NeverMoreThanAsked /\ FirstViewInv /\ FreshSessions
  BY DEF Init, NeverMoreThanAsked, FirstViewInv, FreshSessions, Kinds
<1> QED  BY <1>1, <1>2 DEF IInv

(* What one firing of a gesture timer does to the counters.                 *)
LEMMA GestureInv ==
  ASSUME IInv, NEW v \in Views, GestureTimer(v)
  PROVE  IInv'
<1> USE DEF Kinds
<1>1. PICK hit \in BOOLEAN, anchorHit \in BOOLEAN :
        LET gets    == addAudio /\ hit /\ object[v]
            marked  == IF addAudio THEN MarkedByPoint(v, hit) ELSE placed
            anchors == placeInitial /\ anchorHit
        IN  /\ HasTimer(v)
            /\ anchors => added[v] < MaxAnchors
            /\ addAudio' = (addAudio /\ PointStillAsked(anchorHit))
            /\ placeInitial' = (placeInitial /\ AnchorStillAsked(anchorHit))
            /\ placed' = IF placeInitial THEN anchorHit ELSE marked
            /\ object' = [object EXCEPT ![v] = @ \/ anchors]
            /\ added' = [added EXCEPT ![v] = IF anchors THEN @ + 1 ELSE @]
            /\ made' = [made EXCEPT !["point"]  = IF gets THEN @ + 1 ELSE @,
                                   !["anchor"] = IF anchors THEN @ + 1 ELSE @]
            /\ UNCHANGED <<opened, current, showInitial, session, asked>>
  BY DEF GestureTimer
<1> DEFINE gets    == addAudio /\ hit /\ object[v]
           marked  == IF addAudio THEN MarkedByPoint(v, hit) ELSE placed
           anchors == placeInitial /\ anchorHit
<1>2. /\ HasTimer(v)
      /\ anchors => added[v] < MaxAnchors
      /\ addAudio' = FALSE
      /\ placeInitial' = (placeInitial /\ ~ anchorHit)
      /\ placed' = IF placeInitial THEN anchorHit ELSE marked
      /\ object' = [object EXCEPT ![v] = @ \/ anchors]
      /\ added' = [added EXCEPT ![v] = IF anchors THEN @ + 1 ELSE @]
      /\ made' = [made EXCEPT !["point"]  = IF gets THEN @ + 1 ELSE @,
                             !["anchor"] = IF anchors THEN @ + 1 ELSE @]
      /\ UNCHANGED <<opened, current, showInitial, session, asked>>
  BY <1>1, Zenon DEF PointStillAsked, AnchorStillAsked
<1>3. gets \in BOOLEAN /\ anchors \in BOOLEAN /\ marked \in BOOLEAN
  BY DEF MarkedByPoint, IInv, TypeOK
<1>4. /\ made'["point"] = IF gets THEN made["point"] + 1 ELSE made["point"]
      /\ made'["anchor"] = IF anchors THEN made["anchor"] + 1 ELSE made["anchor"]
  BY <1>2 DEF IInv, TypeOK
<1>5. NeverMoreThanAsked'
  <2>1. made["point"] \in Nat /\ made["anchor"] \in Nat
        /\ asked["point"] \in Nat /\ asked["anchor"] \in Nat
    BY PlacementAssumption DEF IInv, TypeOK
  <2>2. gets => addAudio
    OBVIOUS
  <2>3. anchors => placeInitial /\ ~ placeInitial'
    BY <1>2
  <2>4. ~ placeInitial => ~ placeInitial'
    BY <1>2
  <2>5. made'["point"] + (IF addAudio' THEN 1 ELSE 0) <= asked'["point"]
    BY <1>2, <1>4, <2>1, <2>2 DEF IInv, NeverMoreThanAsked
  <2> HIDE DEF gets, anchors, marked
  <2>6. made'["anchor"] + (IF placeInitial' THEN 1 ELSE 0) <= asked'["anchor"]
    <3>1. asked' = asked
      BY <1>2
    <3>2. made["anchor"] + (IF placeInitial THEN 1 ELSE 0) <= asked["anchor"]
      BY DEF IInv, NeverMoreThanAsked
    <3> QED  BY <1>3, <1>4, <2>1, <2>3, <2>4, <3>1, <3>2
  <2> QED  BY <2>5, <2>6 DEF NeverMoreThanAsked
<1>6. TypeOK'
  <2>1. placed' \in BOOLEAN /\ addAudio' \in BOOLEAN /\ placeInitial' \in BOOLEAN
    BY <1>2, <1>3
  <2>2. object' \in [Views -> BOOLEAN]
    BY <1>2, <1>3 DEF IInv, TypeOK
  <2>3. \A w \in Views : w > opened' => ~ object'[w]
    <3>1. v <= opened /\ opened' = opened
      BY <1>2 DEF HasTimer
    <3>2. opened \in Nat /\ v \in Nat
      BY PlacementAssumption DEF IInv, TypeOK, Views
    <3>3. \A w \in Views : w # v => object'[w] = object[w]
      BY <1>2 DEF IInv, TypeOK
    <3> QED  BY <3>1, <3>2, <3>3 DEF IInv, TypeOK, Views
  <2>4. added' \in [Views -> 0 .. MaxAnchors]
    BY <1>2, <1>3, PlacementAssumption DEF IInv, TypeOK
  <2>5. made' \in [Kinds -> Nat]
    BY <1>2, <1>3 DEF IInv, TypeOK
  <2> QED  BY <1>2, <2>1, <2>2, <2>3, <2>4, <2>5 DEF IInv, TypeOK
<1>7. FirstViewInv'
  <2> SUFFICES ASSUME opened' <= 1, 1 \in Views, session'[1] = "mapping"
               PROVE  /\ placed' => object'[1]
                      /\ current' = 1 /\ ~ showInitial' => object'[1]
    BY DEF FirstViewInv
  <2>1. v = 1
    BY <1>2, PlacementAssumption DEF HasTimer, IInv, TypeOK, Views
  <2>2. object'[1] = (object[1] \/ anchors)
    BY <1>2, <2>1 DEF IInv, TypeOK
  <2>3. /\ placed => object[1]
        /\ current = 1 /\ ~ showInitial => object[1]
    BY <1>2 DEF IInv, FirstViewInv
  <2>4. placed' => object'[1]
    BY <1>2, <2>1, <2>2, <2>3, Zenon DEF MarkedByPoint
  <2> QED  BY <1>2, <2>2, <2>3, <2>4
<1>8. FreshSessions'
  BY <1>2 DEF IInv, FreshSessions
<1> QED  BY <1>5, <1>6, <1>7, <1>8 DEF IInv

(* Every step keeps the invariant.                                          *)
LEMMA NextInv == IInv /\ [Next]_vars => IInv'
<1> SUFFICES ASSUME IInv, [Next]_vars PROVE IInv'
  OBVIOUS
<1> USE DEF IInv
<1>t. /\ opened \in Nat /\ MaxViews \in Nat
      /\ asked \in [Kinds -> 0 .. MaxAsked] /\ made \in [Kinds -> Nat]
      /\ asked["point"] \in Nat /\ asked["anchor"] \in Nat
      /\ made["point"] \in Nat /\ made["anchor"] \in Nat
  BY PlacementAssumption DEF TypeOK, Kinds
<1>1. CASE OpenView
  <2>1. TypeOK'
    <3>1. opened' \in 0 .. MaxViews /\ current' \in {0, opened'}
      BY <1>1, <1>t DEF OpenView
    <3>2. \A w \in Views : w > opened' => w > opened
      BY <1>1, <1>t DEF OpenView, Views
    <3> QED  BY <1>1, <3>1, <3>2 DEF OpenView, TypeOK, world, history
  <2>2. NeverMoreThanAsked'
    BY <1>1 DEF OpenView, NeverMoreThanAsked, history
  <2>3. FirstViewInv'
    BY <1>1, <1>t DEF OpenView, FirstViewInv, world
  <2>4. FreshSessions'
    BY <1>1, <1>t DEF OpenView, FreshSessions, world, Views
  <2> QED  BY <2>1, <2>2, <2>3, <2>4
<1>2. CASE CloseView
  <2>1. TypeOK'
    BY <1>2 DEF CloseView, TypeOK, world, history
  <2>2. NeverMoreThanAsked'
    BY <1>2, <1>t DEF CloseView, NeverMoreThanAsked, history
  <2>3. FirstViewInv'
    BY <1>2 DEF CloseView, FirstViewInv, world
  <2>4. FreshSessions'
    BY <1>2 DEF CloseView, FreshSessions, world
  <2> QED  BY <2>1, <2>2, <2>3, <2>4
<1>3. CASE AskAnchor
  <2>1. asked' = [asked EXCEPT !["anchor"] = asked["anchor"] + 1] /\ asked["anchor"] < MaxAsked
    BY <1>3 DEF AskAnchor
  <2>2. asked' \in [Kinds -> 0 .. MaxAsked]
    BY <2>1, <1>t, PlacementAssumption DEF Kinds
  <2>3. asked'["anchor"] = asked["anchor"] + 1 /\ asked'["point"] = asked["point"]
    BY <2>1, <1>t DEF Kinds
  <2>4. TypeOK'
    BY <1>3, <2>2 DEF AskAnchor, TypeOK, world
  <2>5. NeverMoreThanAsked'
    BY <1>3, <1>t, <2>3 DEF AskAnchor, NeverMoreThanAsked
  <2>6. FirstViewInv'
    BY <1>3 DEF AskAnchor, FirstViewInv, world
  <2>7. FreshSessions'
    BY <1>3 DEF AskAnchor, FreshSessions, world
  <2> QED  BY <2>4, <2>5, <2>6, <2>7
<1>4. CASE AskPoint
  <2>1. asked' = [asked EXCEPT !["point"] = asked["point"] + 1] /\ asked["point"] < MaxAsked
    BY <1>4 DEF AskPoint
  <2>2. asked' \in [Kinds -> 0 .. MaxAsked]
    BY <2>1, <1>t, PlacementAssumption DEF Kinds
  <2>3. asked'["point"] = asked["point"] + 1 /\ asked'["anchor"] = asked["anchor"]
    BY <2>1, <1>t DEF Kinds
  <2>4. TypeOK'
    BY <1>4, <2>2 DEF AskPoint, TypeOK, world
  <2>5. NeverMoreThanAsked'
    BY <1>4, <1>t, <2>3 DEF AskPoint, NeverMoreThanAsked
  <2>6. FirstViewInv'
    BY <1>4 DEF AskPoint, FirstViewInv, world
  <2>7. FreshSessions'
    BY <1>4 DEF AskPoint, FreshSessions, world
  <2> QED  BY <2>4, <2>5, <2>6, <2>7
<1>5. CASE Refresh
  <2>1. TypeOK'
    BY <1>5 DEF Refresh, TypeOK, world, history
  <2>2. NeverMoreThanAsked'
    BY <1>5 DEF Refresh, NeverMoreThanAsked, history
  <2>3. FirstViewInv'
    BY <1>5 DEF Refresh, FirstViewInv, world, TypeOK
  <2>4. FreshSessions'
    BY <1>5 DEF Refresh, FreshSessions, world
  <2> QED  BY <2>1, <2>2, <2>3, <2>4
<1>6. CASE Tap
  <2>1. current \in Views /\ current = opened
    BY <1>6, <1>t DEF Tap, TypeOK, Views
  <2>2. object' = [object EXCEPT ![current] = TRUE]
        /\ added' = [added EXCEPT ![current] = added[current] + 1]
        /\ added[current] < MaxAnchors
    BY <1>6 DEF Tap
  <2>3. object' \in [Views -> BOOLEAN] /\ \A w \in Views : w > opened => ~ object'[w]
    BY <2>1, <2>2, <1>t DEF TypeOK, Views
  <2>4. added' \in [Views -> 0 .. MaxAnchors]
    BY <2>1, <2>2, PlacementAssumption DEF TypeOK
  <2>5. TypeOK'
    BY <1>6, <2>3, <2>4 DEF Tap, TypeOK, history
  <2>6. NeverMoreThanAsked'
    BY <1>6 DEF Tap, NeverMoreThanAsked, history
  <2>7. FirstViewInv'
    <3>1. \A w \in Views : object[w] => object'[w]
      BY <2>1, <2>2 DEF TypeOK
    <3> QED  BY <1>6, <3>1 DEF Tap, FirstViewInv
  <2>8. FreshSessions'
    BY <1>6 DEF Tap, FreshSessions
  <2> QED  BY <2>5, <2>6, <2>7, <2>8
<1>7. CASE Load
  <2>1. current \in Views
    BY <1>7, <1>t DEF Load, TypeOK, Views
  <2>2. object' = [object EXCEPT ![current] = FALSE]
        /\ added' = [added EXCEPT ![current] = 0]
        /\ session' = [session EXCEPT ![current] = "relocalizing"]
    BY <1>7 DEF Load
  <2>3. object' \in [Views -> BOOLEAN] /\ \A w \in Views : w > opened => ~ object'[w]
    BY <2>1, <2>2 DEF TypeOK
  <2>4. added' \in [Views -> 0 .. MaxAnchors]
    BY <2>1, <2>2, PlacementAssumption DEF TypeOK
  <2>5. session' \in [Views -> {"mapping", "relocalizing", "relocalized"}]
    BY <2>1, <2>2 DEF TypeOK
  <2>6. TypeOK'
    BY <1>7, <2>3, <2>4, <2>5 DEF Load, TypeOK, history
  <2>7. NeverMoreThanAsked'
    BY <1>7 DEF Load, NeverMoreThanAsked, history
  <2>8. FirstViewInv'
    <3>1. opened <= 1 => current = 1
      BY <1>7, <2>1, <1>t DEF Load, TypeOK, Views
    <3> QED  BY <1>7, <2>1, <2>2, <3>1 DEF Load, FirstViewInv, TypeOK
  <2>9. FreshSessions'
    <3>1. current = opened
      BY <1>7 DEF Load, TypeOK
    <3> QED  BY <1>7, <2>1, <2>2, <3>1, <1>t DEF Load, FreshSessions, TypeOK, Views
  <2> QED  BY <2>6, <2>7, <2>8, <2>9
<1>8. ASSUME NEW v \in Views, GestureTimer(v) PROVE IInv'
  BY <1>8, GestureInv
<1>9. ASSUME NEW v \in Views, Relocalize(v) PROVE IInv'
  <2>1. PICK any \in BOOLEAN : object' = [object EXCEPT ![v] = object[v] \/ any]
    BY <1>9 DEF Relocalize
  <2>2. /\ session[v] = "relocalizing"
        /\ session' = [session EXCEPT ![v] = "relocalized"]
    BY <1>9 DEF Relocalize
  <2>3. v <= opened
    BY <2>2, <1>t DEF FreshSessions, Views
  <2>4. object' \in [Views -> BOOLEAN] /\ \A w \in Views : w > opened => ~ object'[w]
    <3>1. object[v] \/ any \in BOOLEAN
      BY DEF TypeOK
    <3>2. object' \in [Views -> BOOLEAN] /\ \A w \in Views : w # v => object'[w] = object[w]
      BY <2>1, <3>1 DEF TypeOK
    <3> QED  BY <2>3, <3>2, <1>t DEF TypeOK, Views
  <2>5. session' \in [Views -> {"mapping", "relocalizing", "relocalized"}]
    BY <2>2 DEF TypeOK
  <2>6. TypeOK'
    BY <1>9, <2>4, <2>5 DEF Relocalize, TypeOK, history
  <2>7. NeverMoreThanAsked'
    BY <1>9 DEF Relocalize, NeverMoreThanAsked, history
  <2>8. FirstViewInv'
    <3>1. \A w \in Views : object[w] => object'[w]
      BY <2>1, Zenon DEF TypeOK
    <3>2. 1 \in Views /\ session'[1] = "mapping" => session[1] = "mapping"
      BY <2>2 DEF TypeOK
    <3> QED  BY <1>9, <3>1, <3>2 DEF Relocalize, FirstViewInv
  <2>9. FreshSessions'
    BY <1>9, <2>2, <2>3, <1>t DEF Relocalize, FreshSessions, TypeOK, Views
  <2> QED  BY <2>6, <2>7, <2>8, <2>9
<1>10. CASE UNCHANGED vars
  BY <1>10 DEF vars, world, history, TypeOK, NeverMoreThanAsked, FirstViewInv,
               FreshSessions
<1> QED  BY <1>1, <1>2, <1>3, <1>4, <1>5, <1>6, <1>7, <1>8, <1>9, <1>10 DEF Next

THEOREM Inductive == Spec => []IInv
BY InitInv, NextInv, PTL DEF Spec

-----------------------------------------------------------------------------
(***************************************************************************)
(* Theorems.                                                               *)
(***************************************************************************)

(* Every variable keeps its type, whatever the bounds.                      *)
THEOREM TypeCorrect == Spec => []TypeOK
<1>1. IInv => TypeOK
  BY DEF IInv
<1> QED  BY Inductive, <1>1, PTL

(* The timers of any number of views never place more than was asked for.   *)
THEOREM OnePerRequest == Spec => []NeverMoreThanAsked
<1>1. IInv => NeverMoreThanAsked
  BY DEF IInv
<1> QED  BY Inductive, <1>1, PTL

(* In the first view the button is hidden only when there is an anchor.     *)
THEOREM HiddenOnlyWithAnchor == Spec => []HiddenWithAnchor
<1>1. IInv => HiddenWithAnchor
  BY DEF IInv, HiddenWithAnchor, FirstViewInv, TypeOK, Views
<1> QED  BY Inductive, <1>1, PTL

(* A request for the initial anchor is answered, withdrawn, or kept.        *)
THEOREM AnchorRequestKept == Spec => AnchorIsRetried
<1>1. IInv /\ [Next]_vars =>
        [placeInitial /\ ~ placeInitial' => current' = 0 \/ made'["anchor"] > made["anchor"]]_vars
  <2> SUFFICES ASSUME IInv, Next, placeInitial, ~ placeInitial'
               PROVE  current' = 0 \/ made'["anchor"] > made["anchor"]
    OBVIOUS
  <2>1. CASE CloseView
    BY <2>1 DEF CloseView
  <2>2. ASSUME NEW v \in Views, GestureTimer(v) PROVE made'["anchor"] > made["anchor"]
    <3>1. PICK hit \in BOOLEAN, anchorHit \in BOOLEAN :
            /\ placeInitial' = (placeInitial /\ AnchorStillAsked(anchorHit))
            /\ made' = [made EXCEPT
                  !["point"]  = IF addAudio /\ hit /\ object[v] THEN @ + 1 ELSE @,
                  !["anchor"] = IF placeInitial /\ anchorHit THEN @ + 1 ELSE @]
      BY <2>2 DEF GestureTimer
    <3>2. anchorHit
      BY <3>1, Zenon DEF AnchorStillAsked
    <3>3. made'["anchor"] = made["anchor"] + 1
      BY <3>1, <3>2 DEF IInv, TypeOK, Kinds
    <3> QED  BY <3>3 DEF IInv, TypeOK, Kinds
  <2>3. CASE OpenView \/ AskAnchor \/ AskPoint \/ Refresh \/ Tap \/ Load
             \/ \E v \in Views : Relocalize(v)
    BY <2>3 DEF OpenView, AskAnchor, AskPoint, Refresh, Tap, Load, Relocalize
  <2> QED  BY <2>1, <2>2, <2>3 DEF Next
<1> QED  BY Inductive, <1>1, PTL DEF Spec, AnchorIsRetried

=============================================================================
