------------------------------ MODULE WorldMap ------------------------------
(***************************************************************************)
(* Saving and loading the ARKit world map of a place: the Save and Load    *)
(* buttons, whose states are shared by all views (SaveLoadState), the      *)
(* handling of their flags in ARViewContainer.updateUIView, and the        *)
(* asynchronous saveExperience of SaveLoadMap.swift, whose completion may  *)
(* arrive when the place is closed or another one is open.                 *)
(*                                                                         *)
(* SwiftUI may update a view at any time, not only after a press.  Blocks  *)
(* sent to the main queue run in order.  A tap is handled in a later turn  *)
(* of the run loop than the reset of the press before it, so a button is   *)
(* pressed, and a sheet opened or closed, only while no press is pending.  *)
(* The contents of a map are left out, and with them the unarchiving.      *)
(***************************************************************************)
EXTENDS Naturals, Sequences

CONSTANTS
  Places,       \* ids of the places
  NoPlace,
  MaxInFlight,  \* bound on the saves that wait for ARKit, for each place
  MaxQueue,     \* bound on the blocks of the main queue
  MaxPresses    \* bound on the presses of Load

ASSUME WorldMapAssumption ==
  /\ NoPlace \notin Places
  /\ MaxInFlight \in Nat
  /\ MaxQueue \in Nat
  /\ MaxPresses \in Nat

VARIABLES
  app,          \* "running", or why it does not run
  stored,       \* places that have a world map in UserDefaults
  open,         \* the place whose view is on screen
  saving,       \* for each place, calls of getCurrentWorldMap in flight
  mainQueue,    \* blocks sent to the main queue
  savePressed,  \* saveButton.isPressed
  loadPressed,  \* loadButton.isPressed
  loadHidden,   \* loadButton.isHidden
  shownBy,      \* the place whose map made the Load button appear (history)
  presses,      \* presses of Load (history)
  loads         \* maps loaded (history)

buttons == <<savePressed, loadPressed, loadHidden, shownBy>>
history == <<presses, loads>>
vars == <<app, stored, open, saving, mainQueue, buttons, history>>

Blocks == [kind : {"reset"}, place : {NoPlace}] \cup [kind : {"unhide"}, place : Places]
ResetBlock     == [kind |-> "reset", place |-> NoPlace]
UnhideBlock(p) == [kind |-> "unhide", place |-> p]

TypeOK ==
  /\ app \in {"running", "killed", "load failed", "snapshot failed"}
  /\ stored \subseteq Places
  /\ open \in Places \cup {NoPlace}
  /\ saving \in [Places -> 0 .. MaxInFlight]
  /\ mainQueue \in Seq(Blocks)
  /\ savePressed \in BOOLEAN
  /\ loadPressed \in BOOLEAN
  /\ loadHidden \in BOOLEAN
  /\ shownBy \in Places \cup {NoPlace}
  /\ presses \in 0 .. MaxPresses
  /\ loads \in Nat

Init ==
  /\ app = "running"
  /\ stored = {}
  /\ open = NoPlace
  /\ saving = [p \in Places |-> 0]
  /\ mainQueue = <<>>
  /\ savePressed = FALSE
  /\ loadPressed = FALSE
  /\ loadHidden = TRUE
  /\ shownBy = NoPlace
  /\ presses = 0
  /\ loads = 0

-----------------------------------------------------------------------------
(***************************************************************************)
(* The user.                                                               *)
(***************************************************************************)

NoPressPending == app = "running" /\ ~ savePressed /\ ~ loadPressed

MapNeverFound(p) == FALSE

(* arView.worldMapData != nil *)
HasMap(p) == p \in stored

(* makeUIView: the Load button is shown if the place has a map, and left as *)
(* it is if not.                                                            *)
OpenPlace(p) ==
  /\ NoPressPending
  /\ open = NoPlace
  /\ open' = p
  /\ IF HasMap(p)
     THEN loadHidden' = FALSE /\ shownBy' = p
     ELSE UNCHANGED <<loadHidden, shownBy>>
  /\ UNCHANGED <<app, stored, saving, mainQueue, savePressed, loadPressed, history>>

(* ContentView.onDisappear.  A save that is in flight stays so. *)
ClosePlace ==
  /\ NoPressPending
  /\ open # NoPlace
  /\ open' = NoPlace
  /\ loadHidden' = TRUE
  /\ UNCHANGED <<app, stored, saving, mainQueue, savePressed, loadPressed, shownBy, history>>

PressSave ==
  /\ NoPressPending
  /\ open # NoPlace
  /\ savePressed' = TRUE
  /\ UNCHANGED <<app, stored, open, saving, mainQueue, loadPressed, loadHidden, shownBy,
                 history>>

PressLoad ==
  /\ NoPressPending
  /\ open # NoPlace
  /\ ~ loadHidden
  /\ presses < MaxPresses
  /\ loadPressed' = TRUE
  /\ presses' = presses + 1
  /\ UNCHANGED <<app, stored, open, saving, mainQueue, savePressed, loadHidden, shownBy,
                 loads>>

-----------------------------------------------------------------------------
(***************************************************************************)
(* updateUIView.                                                           *)
(***************************************************************************)

(* DispatchQueue.main.async { saveButton.isPressed = false } *)
ScheduleReset == Append(mainQueue, ResetBlock)

(* saveExperience asks ARKit for the map and returns. *)
UpdateSaves ==
  /\ app = "running"
  /\ open # NoPlace
  /\ savePressed
  /\ saving[open] < MaxInFlight
  /\ Len(mainQueue) < MaxQueue
  /\ saving' = [saving EXCEPT ![open] = @ + 1]
  /\ mainQueue' = ScheduleReset
  /\ UNCHANGED <<app, stored, open, buttons, history>>

ResetLater == loadPressed

(* loadButton.isPressed after the map was loaded. *)
LoadHandled == FALSE

(* loadExperience: without stored data, the program ends in fatalError. *)
UpdateLoads ==
  /\ app = "running"
  /\ open # NoPlace
  /\ loadPressed
  /\ IF open \in stored
     THEN /\ loads < MaxPresses + 1
          /\ loads' = loads + 1
          /\ loadPressed' = LoadHandled
          /\ UNCHANGED app
     ELSE /\ app' = "load failed"
          /\ UNCHANGED <<loadPressed, loads>>
  /\ UNCHANGED <<stored, open, saving, mainQueue, savePressed, loadHidden, shownBy, presses>>

-----------------------------------------------------------------------------
(***************************************************************************)
(* Completion of saveExperience, and the main queue.                       *)
(***************************************************************************)

StoreUnderOpen(p) == stored \cup {open}

(* storedData.set(data, forKey: self.location.id.uuidString) *)
Store(p) == stored \cup {p}

(* ARKit has no map, or has one that is stored under the id of the place    *)
(* the save was asked for; the Load button is to be shown whatever is open. *)
SaveCompletes(p) ==
  /\ app = "running"
  /\ saving[p] > 0
  /\ saving' = [saving EXCEPT ![p] = @ - 1]
  /\ \/ UNCHANGED <<stored, mainQueue>>
     \/ /\ Len(mainQueue) < MaxQueue
        /\ stored' = Store(p)
        /\ mainQueue' = Append(mainQueue, UnhideBlock(p))
  /\ UNCHANGED <<app, open, buttons, history>>

(* No current frame, or no orientation: the program ends. *)
SnapshotFails(p) ==
  /\ app = "running"
  /\ saving[p] > 0
  /\ app' = "snapshot failed"
  /\ UNCHANGED <<stored, open, saving, mainQueue, buttons, history>>

RunBlock ==
  /\ app = "running"
  /\ mainQueue # <<>>
  /\ mainQueue' = Tail(mainQueue)
  /\ IF Head(mainQueue) = ResetBlock
     THEN savePressed' = FALSE /\ UNCHANGED <<loadHidden, shownBy>>
     ELSE /\ loadHidden' = FALSE
          /\ shownBy' = Head(mainQueue).place
          /\ UNCHANGED savePressed
  /\ UNCHANGED <<app, stored, open, saving, loadPressed, history>>

-----------------------------------------------------------------------------
(***************************************************************************)
(* The process.                                                            *)
(***************************************************************************)

Kill ==
  /\ app = "running"
  /\ app' = "killed"
  /\ UNCHANGED <<stored, open, saving, mainQueue, buttons, history>>

(* A new process finds what UserDefaults holds. *)
Relaunch ==
  /\ app # "running"
  /\ app' = "running"
  /\ open' = NoPlace
  /\ saving' = [p \in Places |-> 0]
  /\ mainQueue' = <<>>
  /\ savePressed' = FALSE
  /\ loadPressed' = FALSE
  /\ loadHidden' = TRUE
  /\ shownBy' = NoPlace
  /\ UNCHANGED <<stored, history>>

Next ==
  \/ \E p \in Places : OpenPlace(p) \/ SaveCompletes(p) \/ SnapshotFails(p)
  \/ ClosePlace
  \/ PressSave
  \/ PressLoad
  \/ UpdateSaves
  \/ UpdateLoads
  \/ RunBlock
  \/ Kill
  \/ Relaunch

(* SwiftUI updates a view whose state has changed, the main queue is        *)
(* drained, and ARKit answers every request.                                *)
Fairness ==
  /\ WF_vars(UpdateSaves)
  /\ WF_vars(UpdateLoads)
  /\ WF_vars(RunBlock)
  /\ \A p \in Places : WF_vars(SaveCompletes(p))

Spec == Init /\ [][Next]_vars /\ Fairness

-----------------------------------------------------------------------------
(***************************************************************************)
(* Properties.                                                             *)
(***************************************************************************)

(* "Map data should already be verified to exist before Load button is      *)
(* enabled" (SaveLoadMap.swift:24): loadExperience never meets a place      *)
(* without a map.  The code breaks it when the block that shows the Load    *)
(* button runs after its place was closed: ContentView.onDisappear has      *)
(* hidden the button already, and makeUIView never hides it.                *)
LoadIsVerified == app # "load failed"

(* What does hold of the Load button: some stored map made it appear, the   *)
(* map of the open place or of a place whose save was late.  The program    *)
(* can fail in loadExperience for no other reason.                          *)
ShownForAMap ==
  /\ ~ loadHidden => shownBy \in stored
  /\ app = "load failed" => shownBy \notin {open, NoPlace}

(* One press of Load loads one map, however often the view is updated while *)
(* the press is pending: the reason for the synchronous reset of            *)
(* ContentView.swift:245.                                                   *)
OneLoadPerPress == loads <= presses

(* The Load button is shown for a map, and loads it when it is pressed.     *)
LoadButtonIsRight == ShownForAMap /\ OneLoadPerPress

(* A place that has a map and stays open is eventually offered to load it:  *)
(* makeUIView, or the block sent after the map was stored, shows the button.*)
StoredIsOffered ==
  \A p \in Places :
    (open = p /\ p \in stored) ~> (~ loadHidden \/ open # p \/ app # "running")

(* A press of Save ends: the flag that makes every update of the view save  *)
(* again is reset.                                                          *)
SavePressEnds == savePressed ~> (~ savePressed \/ app # "running")

(* Both buttons come to rest: maps are offered and presses of Save end.     *)
ButtonsComeToRest == StoredIsOffered /\ SavePressEnds

=============================================================================
