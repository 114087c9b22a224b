--------------------------- MODULE WorldMapProofs ---------------------------
(***************************************************************************)
(* Theorems about the Save and Load buttons.                               *)
(***************************************************************************)
EXTENDS WorldMap, TLAPS

(* Every block that will show the Load button is for a place with a map. *)
UnhidesAreStored ==
  \A i \in 1 .. Len(mainQueue) :
    mainQueue[i].kind = "unhide" => mainQueue[i].place \in stored

(* While a press of Load is pending, its button and its view stay.  Without *)
(* this part the press that fails could be one of a hidden button, which no *)
(* map made appear.                                                         *)
PressedIsShown == loadPressed => ~ loadHidden /\ open # NoPlace

(* The press that is pending has been counted and has not loaded yet. *)
PressToCome ==
  /\ loads <= presses
  /\ loadPressed => loads < presses

IInv == TypeOK /\ UnhidesAreStored /\ PressedIsShown /\ ShownForAMap /\ PressToCome

-----------------------------------------------------------------------------

(* What the main queue gets from each sender. *)
LEMMA BlockTypes ==
  /\ ResetBlock \in Blocks /\ ResetBlock.kind = "reset"
  /\ \A p \in Places : /\ UnhideBlock(p) \in Blocks
                       /\ UnhideBlock(p).kind = "unhide" /\ UnhideBlock(p).place = p
  /\ \A b \in Blocks : b # ResetBlock => b.kind = "unhide" /\ b.place \in Places
BY DEF Blocks, ResetBlock, UnhideBlock

LEMMA CountersTyped == TypeOK => loads \in Nat /\ presses \in Nat
<1> SUFFICES ASSUME TypeOK PROVE loads \in Nat /\ presses \in Nat
  OBVIOUS
<1>1. loads \in Nat /\ presses \in 0 .. MaxPresses
  BY Zenon DEF TypeOK
<1>2. MaxPresses \in Nat
  BY WorldMapAssumption DEF WorldMapAssumption
<1> QED  BY <1>1, <1>2

LEMMA NothingSent == <<>> \in Seq(Blocks)
  OBVIOUS

(* Appending a block whose place has a map keeps UnhidesAreStored. *)
LEMMA BlockAppended ==
  ASSUME mainQueue \in Seq(Blocks), UnhidesAreStored,
         NEW b \in Blocks, mainQueue' = Append(mainQueue, b),
         stored \subseteq stored', b.kind = "unhide" => b.place \in stored'
  PROVE  UnhidesAreStored'
<1> SUFFICES ASSUME NEW i \in 1 .. Len(mainQueue'), mainQueue'[i].kind = "unhide"
             PROVE  mainQueue'[i].place \in stored'
  BY DEF UnhidesAreStored
<1>1. CASE i = Len(mainQueue) + 1
  BY <1>1
<1>2. CASE i # Len(mainQueue) + 1
  <2>1. i \in 1 .. Len(mainQueue) /\ mainQueue'[i] = mainQueue[i]
    BY <1>2
  <2> QED  BY <2>1 DEF UnhidesAreStored
<1> QED  BY <1>1, <1>2

(* Running the first block keeps it, too. *)
LEMMA BlockRemoved ==
  ASSUME mainQueue \in Seq(Blocks), mainQueue # <<>>, UnhidesAreStored,
         mainQueue' = Tail(mainQueue), stored' = stored
  PROVE  /\ mainQueue' \in Seq(Blocks)
         /\ UnhidesAreStored'
<1>1. mainQueue' \in Seq(Blocks)
  OBVIOUS
<1>2. ASSUME NEW i \in 1 .. Len(mainQueue'), mainQueue'[i].kind = "unhide"
      PROVE  mainQueue'[i].place \in stored'
  <2>1. i + 1 \in 1 .. Len(mainQueue) /\ mainQueue'[i] = mainQueue[i + 1]
    OBVIOUS
  <2> QED  BY <1>2, <2>1 DEF UnhidesAreStored
<1> QED  BY <1>1, <1>2 DEF UnhidesAreStored

LEMMA InitIInv == Init => IInv
<1> SUFFICES ASSUME Init PROVE IInv
  OBVIOUS
<1> USE WorldMapAssumption DEF WorldMapAssumption, Init
<1>1. TypeOK
  <2>1. 0 \in 0 .. MaxInFlight /\ 0 \in 0 .. MaxPresses
    OBVIOUS
  <2>2. [p \in Places |-> 0] \in [Places -> 0 .. MaxInFlight]
    BY <2>1
  <2>3. saving \in [Places -> 0 .. MaxInFlight] /\ mainQueue \in Seq(Blocks)
    BY <2>2, NothingSent, Zenon
  <2>4. presses \in 0 .. MaxPresses /\ loads \in Nat
    BY <2>1
  <2> QED  BY <2>3, <2>4, Zenon DEF TypeOK
<1>2. UnhidesAreStored
  BY DEF UnhidesAreStored
<1>3. PressedIsShown /\ ShownForAMap
  BY DEF PressedIsShown, ShownForAMap
<1>4. PressToCome
  BY DEF PressToCome
<1> QED  BY <1>1, <1>2, <1>3, <1>4 DEF IInv


LEMMA StepIInv == IInv /\ [Next]_vars => IInv'
<1> SUFFICES ASSUME IInv, [Next]_vars PROVE IInv'
  OBVIOUS
<1> USE WorldMapAssumption DEF WorldMapAssumption, IInv
<1>1. ASSUME NEW p \in Places, OpenPlace(p) PROVE IInv'
  <2> USE <1>1 DEF OpenPlace, HasMap, NoPressPending, history
  <2>1. TypeOK'
    BY DEF TypeOK
  <2>2. UnhidesAreStored'
    BY DEF UnhidesAreStored
  <2>3. PressedIsShown' /\ PressToCome'
    BY DEF PressedIsShown, PressToCome
  <2>4. ShownForAMap'
    BY DEF ShownForAMap
  <2> QED  BY <2>1, <2>2, <2>3, <2>4
<1>2. CASE ClosePlace
  <2> USE <1>2 DEF ClosePlace, NoPressPending, history
  <2>1. TypeOK'
    BY DEF TypeOK
  <2>2. UnhidesAreStored'
    BY DEF UnhidesAreStored
  <2>3. PressedIsShown' /\ PressToCome'
    BY DEF PressedIsShown, PressToCome
  <2>4. ShownForAMap'
    BY DEF ShownForAMap
  <2> QED  BY <2>1, <2>2, <2>3, <2>4
<1>3. CASE PressSave
  <2> USE <1>3 DEF PressSave, NoPressPending, history
  <2>1. TypeOK'
    BY DEF TypeOK
  <2>2. UnhidesAreStored'
    BY DEF UnhidesAreStored
  <2>3. PressedIsShown' /\ PressToCome' /\ ShownForAMap'
    BY DEF PressedIsShown, PressToCome, ShownForAMap
  <2> QED  BY <2>1, <2>2, <2>3
<1>4. CASE PressLoad
  <2> USE <1>4 DEF PressLoad, NoPressPending, history
  <2>1. TypeOK'
    BY DEF TypeOK
  <2>2. UnhidesAreStored'
    BY DEF UnhidesAreStored
  <2>3. PressedIsShown' /\ ShownForAMap'
    BY DEF PressedIsShown, ShownForAMap
  <2>4. PressToCome'
    BY DEF PressToCome, TypeOK
  <2> QED  BY <2>1, <2>2, <2>3, <2>4
<1>5. CASE UpdateSaves
  <2> USE <1>5 DEF UpdateSaves, buttons, history
  <2>1. TypeOK'
    <3>1. saving' \in [Places -> 0 .. MaxInFlight]
      BY DEF TypeOK
    <3>2. mainQueue' \in Seq(Blocks)
      BY BlockTypes DEF TypeOK, ScheduleReset
    <3> QED  BY <3>1, <3>2 DEF TypeOK
  <2>2. UnhidesAreStored'
    BY BlockTypes, BlockAppended DEF TypeOK, ScheduleReset
  <2>3. PressedIsShown' /\ PressToCome' /\ ShownForAMap'
    BY DEF PressedIsShown, PressToCome, ShownForAMap
  <2> QED  BY <2>1, <2>2, <2>3
<1>6. CASE UpdateLoads
  <2> USE <1>6 DEF UpdateLoads
  <2>1. /\ loadPressed /\ open # NoPlace
        /\ UNCHANGED <<stored, open, saving, mainQueue, savePressed, loadHidden, shownBy, presses>>
    OBVIOUS
  <2>2. UnhidesAreStored'
    BY <2>1 DEF UnhidesAreStored
  <2>3. ~ loadHidden /\ loads < presses
    BY <2>1, Zenon DEF PressedIsShown, PressToCome
  <2>4. loads \in Nat /\ presses \in Nat
    BY CountersTyped, Zenon
  <2>5. CASE open \in stored
    <3>1. loads' = loads + 1 /\ ~ loadPressed' /\ loadPressed' \in BOOLEAN /\ app' = app
      BY <2>5 DEF LoadHandled
    <3>2. loads' \in Nat /\ loads' <= presses
      BY <2>1, <2>3, <2>4, <3>1
    <3>3. TypeOK'
      BY <2>1, <3>1, <3>2, Zenon DEF TypeOK
    <3>4. PressedIsShown' /\ PressToCome'
      BY <2>1, <3>1, <3>2, Zenon DEF PressedIsShown, PressToCome
    <3>5. ShownForAMap'
      <4>1. app = "running"
        OBVIOUS
      <4> QED  BY <2>1, <3>1, <4>1 DEF ShownForAMap
    <3> QED  BY <2>2, <3>3, <3>4, <3>5
  <2>6. CASE open \notin stored
    <3>1. loads' = loads /\ loadPressed' = loadPressed /\ app' = "load failed"
      BY <2>6
    <3>2. TypeOK'
      BY <2>1, <3>1, Zenon DEF TypeOK
    <3>3. PressedIsShown' /\ PressToCome'
      <4>1. loads' < presses' /\ loads' <= presses'
        BY <2>1, <2>3, <3>1, Zenon DEF PressToCome
      <4>2. loadHidden' = loadHidden /\ open' = open
        BY <2>1
      <4>3. loadHidden' = FALSE
        <5>1. loadHidden = FALSE
          BY <2>3, Zenon DEF TypeOK
        <5> QED  BY <4>2, <5>1, Zenon
      <4>4. open' # NoPlace
        BY <2>1, <4>2
      <4>5. PressedIsShown'
        BY <4>3, <4>4, Zenon DEF PressedIsShown
      <4> QED  BY <4>1, <4>5, Zenon DEF PressToCome
    <3>4. shownBy \in stored /\ NoPlace \notin stored
      BY <2>3 DEF ShownForAMap, TypeOK
    <3>5. ShownForAMap'
      BY <2>1, <2>6, <3>1, <3>4 DEF ShownForAMap
    <3> QED  BY <2>2, <3>2, <3>3, <3>5
  <2> QED  BY <2>5, <2>6
<1>7. ASSUME NEW p \in Places, SaveCompletes(p) PROVE IInv'
  <2> USE <1>7 DEF SaveCompletes, buttons, history
  <2>1. stored' \subseteq Places /\ stored \subseteq stored'
    BY DEF Store, TypeOK
  <2>2. saving' \in [Places -> 0 .. MaxInFlight]
    BY DEF TypeOK
  <2>3. mainQueue' \in Seq(Blocks) /\ UnhidesAreStored'
    <3>1. CASE UNCHANGED <<stored, mainQueue>>
      BY <3>1 DEF TypeOK, UnhidesAreStored
    <3>2. CASE stored' = Store(p) /\ mainQueue' = Append(mainQueue, UnhideBlock(p))
      <4>1. UnhideBlock(p) \in Blocks /\ UnhideBlock(p).place \in stored'
        BY <3>2, BlockTypes DEF Store
      <4> QED  BY <2>1, <3>2, <4>1, BlockAppended DEF TypeOK
    <3> QED  BY <3>1, <3>2
  <2>4. TypeOK'
    BY <2>1, <2>2, <2>3 DEF TypeOK
  <2>5. PressedIsShown' /\ PressToCome'
    BY DEF PressedIsShown, PressToCome
  <2>6. ShownForAMap'
    BY <2>1 DEF ShownForAMap
  <2> QED  BY <2>3, <2>4, <2>5, <2>6
<1>8. CASE RunBlock
  <2> USE <1>8 DEF RunBlock, history
  <2>1. mainQueue' \in Seq(Blocks) /\ UnhidesAreStored'
    BY BlockRemoved DEF TypeOK
  <2>2. Head(mainQueue) \in Blocks /\ 1 \in 1 .. Len(mainQueue) /\ Head(mainQueue) = mainQueue[1]
    BY DEF TypeOK
  <2>3. Head(mainQueue) # ResetBlock => Head(mainQueue).place \in stored \cap Places
    BY <2>2, BlockTypes DEF UnhidesAreStored
  <2>4. TypeOK'
    BY <2>1, <2>3 DEF TypeOK
  <2>5. PressedIsShown' /\ PressToCome'
    BY DEF PressedIsShown, PressToCome
  <2>6. ShownForAMap'
    BY <2>3 DEF ShownForAMap
  <2> QED  BY <2>1, <2>4, <2>5, <2>6
<1>9. CASE Kill \/ \E p \in Places : SnapshotFails(p)
  <2> USE <1>9 DEF Kill, SnapshotFails, buttons, history
  <2>1. TypeOK'
    BY DEF TypeOK
  <2>2. UnhidesAreStored'
    BY DEF UnhidesAreStored
  <2>3. PressedIsShown' /\ PressToCome'
    <3>1. UNCHANGED <<loadPressed, loadHidden, open, loads, presses>>
      OBVIOUS
    <3> QED  BY <3>1, Zenon DEF PressedIsShown, PressToCome
  <2>4. ShownForAMap'
    <3>1. app' \in {"killed", "snapshot failed"}
      OBVIOUS
    <3> QED  BY <3>1 DEF ShownForAMap
  <2> QED  BY <2>1, <2>2, <2>3, <2>4
<1>10. CASE Relaunch
  <2> USE <1>10 DEF Relaunch, history
  <2>1. TypeOK'
    <3>1. 0 \in 0 .. MaxInFlight
      OBVIOUS
    <3>2. [p \in Places |-> 0] \in [Places -> 0 .. MaxInFlight]
      BY <3>1
    <3>3. saving' \in [Places -> 0 .. MaxInFlight] /\ mainQueue' \in Seq(Blocks)
      BY <3>2, NothingSent, Zenon
    <3> QED  BY <3>3, Zenon DEF TypeOK
  <2>2. UnhidesAreStored'
    BY DEF UnhidesAreStored
  <2>3. PressedIsShown' /\ PressToCome' /\ ShownForAMap'
    BY DEF PressedIsShown, PressToCome, ShownForAMap
  <2> QED  BY <2>1, <2>2, <2>3
<1>11. CASE UNCHANGED vars
  <2> USE <1>11 DEF vars, buttons, history
  <2>1. TypeOK'
    BY DEF TypeOK
  <2>2. UnhidesAreStored'
    BY DEF UnhidesAreStored
  <2>3. PressedIsShown' /\ PressToCome' /\ ShownForAMap'
    BY DEF PressedIsShown, PressToCome, ShownForAMap
  <2> QED  BY <2>1, <2>2, <2>3
<1> QED
  BY <1>1, <1>2, <1>3, <1>4, <1>5, <1>6, <1>7, <1>8, <1>9, <1>10, <1>11 DEF Next

LEMMA Invariant == Spec => []IInv
  BY InitIInv, StepIInv, PTL DEF Spec

-----------------------------------------------------------------------------

(* Every variable keeps its type, the saves in flight and the presses their *)
(* bounds (SaveLoadState, saveExperience, updateUIView).                    *)
THEOREM TypeCorrect == Spec => []TypeOK
<1>1. IInv => TypeOK
  BY DEF IInv
<1> QED  BY <1>1, Invariant, PTL

(* However late saves complete: the Load button is on screen only for a map *)
(* that was stored, loadExperience fails only where the button was shown    *)
(* for another place, and one press of Load loads at most one map.          *)
THEOREM LoadButtonStaysRight == Spec => []LoadButtonIsRight
<1>1. IInv => LoadButtonIsRight
  BY DEF IInv, LoadButtonIsRight, PressToCome, OneLoadPerPress
<1> QED  BY <1>1, Invariant, PTL

=============================================================================
