------------------------------ MODULE MapStore ------------------------------
(***************************************************************************)
(* Where the mapped places live: the array `locations` of SelectView, the  *)
(* file locations.txt, the Firestore collection "locations", and the       *)
(* global `directions` and `transformations` that the open place is edited *)
(* through.  SelectView reads the file and appends the nearby places when  *)
(* Firestore answers; AddView appends a draft, rewrites the file at every  *)
(* change of the array and uploads the draft when its map is closed;       *)
(* ContentView copies the open place into the globals, and back every      *)
(* 0.1 s, by a timer that nothing ever invalidates and that keeps writing  *)
(* to the index it was created with.                                       *)
(*                                                                         *)
(* Everything runs on the main queue, one callback at a time, and the      *)
(* process may end between any two.  SwiftUI calls onChange and onAppear    *)
(* when it next brings the screen up to date: blocks of the main queue and *)
(* timers may come before, an event of the user comes after.  A failed     *)
(* read or write of the file is not modelled.  Positions of points are     *)
(* fresh numbers; the title, the coordinates and the (always empty)        *)
(* worldData of a place are left out.                                      *)
(***************************************************************************)
EXTENDS Integers, Sequences, SequencesExt

CONSTANTS
  Words,          \* the directions of the menu
  NoDoc,          \* no document
  MaxId,          \* bound on the drafts that are opened
  MaxPlaces,      \* bound on Len(locations)
  MaxDirections,  \* bound on the directions of a place
  MaxPoints       \* bound on the points ever placed

ASSUME MapStoreAssumption ==
  /\ MaxId \in Nat
  /\ MaxPlaces \in Nat
  /\ MaxDirections \in Nat
  /\ MaxPoints \in Nat

VARIABLES
  running,          \* the app runs
  locations,        \* SelectView.locations
  file,             \* contents of locations.txt
  cloud,            \* the documents of the collection "locations"
  fetch,            \* the query of loadNearby
  sheet,            \* what the sheet of SelectView shows; "next" is the
                    \* form of AddView once its `next` is set
  seen,             \* the array when the onChange of AddView last compared it
  draft,            \* id of AddView.location
  isPublic,         \* AddView.isPublic
  i3,               \* index of the row that was opened
  timers,           \* indices the ContentView timers were created with
  directions,       \* the global of that name
  transformations,  \* the global of that name
  addAudio,         \* the global of that name
  lastId,           \* drafts opened so far
  lastPoint,        \* points placed so far
  clean             \* the open place was opened on clean globals (history)

memory == <<locations, fetch, sheet, seen, draft, isPublic, i3, timers,
            directions, transformations, addAudio, clean>>
vars == <<running, memory, file, cloud, lastId, lastPoint>>

Foreign  == 0             \* id of a place another user has shared
PlaceIds == 0 .. MaxId
Points   == 0 .. MaxPoints
Location == [id : PlaceIds, dirs : Seq(Words), pts : Seq(Points)]

TypeOK ==
  /\ running \in BOOLEAN
  /\ locations \in Seq(Location)
  /\ file \in Seq(Location)
  /\ cloud \in [PlaceIds -> Location \cup {NoDoc}]
  /\ fetch \in {"none", "pending", "done"}
  /\ sheet \in {"closed", "add", "next", "mapping", "config"}
  /\ seen \in Seq(Location)
  /\ draft \in PlaceIds
  /\ isPublic \in BOOLEAN
  /\ i3 \in Nat \ {0}
  /\ timers \subseteq Nat \ {0}
  /\ directions \in Seq(Words)
  /\ transformations \in Seq(Points)
  /\ addAudio \in BOOLEAN
  /\ lastId \in PlaceIds
  /\ lastPoint \in Points
  /\ clean \in BOOLEAN

(* The memory of a process that has just started. *)
FreshMemory(list) ==
  /\ locations' = list
  /\ fetch' = "none"
  /\ sheet' = "closed"
  /\ seen' = <<>>
  /\ draft' = Foreign
  /\ isPublic' = TRUE
  /\ i3' = 1
  /\ timers' = {}
  /\ directions' = <<>>
  /\ transformations' = <<>>
  /\ addAudio' = FALSE
  /\ clean' = FALSE

Init ==
  /\ running = FALSE
  /\ locations = <<>>
  /\ file = <<>>
  /\ \E w \in Words :
       cloud = [id \in PlaceIds |->
                  IF id = Foreign
                  THEN [id |-> Foreign, dirs |-> <<w>>, pts |-> <<0>>]
                  ELSE NoDoc]
  /\ fetch = "none"
  /\ sheet = "closed"
  /\ seen = <<>>
  /\ draft = Foreign
  /\ isPublic = TRUE
  /\ i3 = 1
  /\ timers = {}
  /\ directions = <<>>
  /\ transformations = <<>>
  /\ addAudio = FALSE
  /\ lastId = 0
  /\ lastPoint = 0
  /\ clean = FALSE

-----------------------------------------------------------------------------
(***************************************************************************)
(* Helpers.                                                                *)
(***************************************************************************)

(* The array without the elements that occurred earlier; elements are       *)
(* compared as whole records.                                               *)
RemoveDuplicates(list) ==
  LET result[n \in 0 .. Len(list)] ==
        IF n = 0
        THEN <<>>
        ELSE LET sofar == result[n - 1]
             IN  IF Contains(sofar, list[n]) THEN sofar ELSE Append(sofar, list[n])
  IN  result[Len(list)]

Ids(list) == {list[i].id : i \in DOMAIN list}

(* The process is gone: it was killed, or an index was out of range. *)
Gone ==
  /\ running' = FALSE
  /\ FreshMemory(<<>>)
  /\ UNCHANGED <<file, cloud, lastId, lastPoint>>

(* The place the open ContentView is bound to: AddView binds the last one. *)
Cur == IF sheet = "mapping" THEN Len(locations) ELSE i3

(* Globals equal to the place once it has appeared, and no more points than *)
(* directions.                                                              *)
OpensClean(list, idx) ==
  /\ transformations = <<>>
  /\ ~ addAudio
  /\ Len(list[idx].pts) <= Len(list[idx].dirs)

AppearStale(list, idx) ==
  /\ UNCHANGED directions
  /\ transformations' = transformations \o list[idx].pts
  /\ timers' = timers \cup {idx}

(* ContentView.onAppear: directions replaced, transformations appended to,  *)
(* one more timer.                                                          *)
Appear(list, idx) ==
  /\ directions' = list[idx].dirs
  /\ transformations' = transformations \o list[idx].pts
  /\ timers' = timers \cup {idx}

(* AddView has not seen the array as it is: its onChange is due. *)
ChangeIsDue == sheet \in {"add", "next", "mapping"} /\ locations # seen

(* The user sees, and acts on, a screen that is up to date. *)
UpToDate == ~ ChangeIsDue /\ sheet # "next"

-----------------------------------------------------------------------------
(***************************************************************************)
(* SelectView.                                                             *)
(***************************************************************************)

(* onAppear: read the file, ask Firestore for the places. *)
Launch ==
  /\ ~ running
  /\ running' = TRUE
  /\ locations' = file
  /\ fetch' = "pending"
  /\ UNCHANGED <<file, cloud, sheet, seen, draft, isPublic, i3, timers, directions,
                 transformations, addAudio, lastId, lastPoint, clean>>

(* Documents that could be read, in any order; none after an error. *)
Answers ==
  UNION {SetToSeqs(docs) :
         docs \in SUBSET {cloud[id] : id \in {d \in PlaceIds : cloud[d] # NoDoc}}}

MergedAnswerOnly(got) == RemoveDuplicates(got)

(* The array once the answer has come. *)
Merged(got) == RemoveDuplicates(locations \o got)

(* Firestore answers: its places are appended and duplicates removed. *)
NearbyArrives ==
  /\ running
  /\ fetch = "pending"
  /\ \E got \in Answers :
       LET list == Merged(got)
       IN  /\ Len(list) <= MaxPlaces
           /\ IF sheet = "config" /\ i3 > Len(list)
              THEN Gone
              ELSE /\ locations' = list
                   /\ fetch' = "done"
                   /\ clean' = (clean /\ list = locations)
                   /\ UNCHANGED <<running, file, cloud, sheet, seen, draft, isPublic, i3,
                                  timers, directions, transformations, addAudio,
                                  lastId, lastPoint>>

(* The plus button and the AddView that it presents, with a draft that has *)
(* a fresh UUID.  Nothing else looks at what the button sets.              *)
OpenAdd ==
  /\ running
  /\ sheet = "closed"
  /\ lastId < MaxId
  /\ lastId' = lastId + 1
  /\ sheet' = "add"
  /\ seen' = locations
  /\ draft' = lastId + 1
  /\ isPublic' \in BOOLEAN
  /\ clean' = FALSE
  /\ UNCHANGED <<running, locations, file, cloud, fetch, i3, timers, directions,
                 transformations, addAudio, lastPoint>>

RowIndexFromZero(i) == i - 1
RowIndex(i) == i

(* A row of the list and the ContentView that it presents.  Nothing else   *)
(* looks at what the button sets.                                          *)
OpenRow(i) ==
  /\ running
  /\ sheet = "closed"
  /\ i \in DOMAIN locations
  /\ sheet' = "config"
  /\ i3' = RowIndex(i)
  /\ Appear(locations, i)
  /\ clean' = OpensClean(locations, i)
  /\ UNCHANGED <<running, locations, file, cloud, fetch, seen, draft, isPublic, addAudio,
                 lastId, lastPoint>>

(* Rows that disappear write the file. *)
RowsDisappear ==
  /\ running
  /\ locations # <<>>
  /\ file' = locations
  /\ UNCHANGED <<running, memory, cloud, lastId, lastPoint>>

-----------------------------------------------------------------------------
(***************************************************************************)
(* AddView and ContentView.                                                *)
(***************************************************************************)

NewLocation == [id |-> draft, dirs |-> <<>>, pts |-> <<>>]

(* Begin Mapping: the draft is appended to the array, and no more. *)
BeginMapping ==
  /\ running
  /\ sheet = "add"
  /\ UpToDate
  /\ Len(locations) < MaxPlaces
  /\ locations' = Append(locations, NewLocation)
  /\ UNCHANGED <<running, file, cloud, fetch, sheet, seen, draft, isPublic, i3, timers,
                 directions, transformations, addAudio, lastId, lastPoint, clean>>

(* The array has changed while AddView is on screen, whoever changed it:   *)
(* the form is left for the map.                                           *)
ShowsMap ==
  /\ running
  /\ ChangeIsDue
  /\ seen' = locations
  /\ sheet' = IF sheet = "add" THEN "next" ELSE sheet
  /\ UNCHANGED <<running, locations, cloud, fetch, draft, isPublic, i3, timers,
                 directions, transformations, addAudio, lastId, lastPoint, clean>>

OnChangeUnsaved == ShowsMap /\ UNCHANGED file

(* onChange of AddView: the file is rewritten, the map is to be shown. *)
OnChange == ShowsMap /\ file' = locations

(* The last place is the draft, unless something else than Begin Mapping   *)
(* has led to the map.                                                     *)
BindsDraft == draft \in Ids(locations) => locations[Len(locations)].id = draft

(* ContentView appears in AddView, bound to the last place. *)
MapAppears ==
  /\ running
  /\ sheet = "next"
  /\ sheet' = "mapping"
  /\ Appear(locations, Len(locations))
  /\ clean' = (OpensClean(locations, Len(locations)) /\ BindsDraft)
  /\ UNCHANGED <<running, locations, file, cloud, fetch, seen, draft, isPublic, i3,
                 addAudio, lastId, lastPoint>>

(* A request for a point is dropped, whether or not the ray hit a plane. *)
RequestAfterRay == FALSE

(* An item of the "Place Audio" menu. *)
AddDirection(w) ==
  /\ running
  /\ sheet \in {"mapping", "config"}
  /\ UpToDate
  /\ Len(directions) < MaxDirections
  /\ Len(locations[Cur].dirs) < MaxDirections
  /\ locations' = [locations EXCEPT ![Cur].dirs = Append(@, w)]
  /\ directions' = Append(directions, w)
  /\ addAudio' = TRUE
  /\ UNCHANGED <<running, file, cloud, fetch, sheet, seen, draft, isPublic, i3, timers,
                 transformations, lastId, lastPoint, clean>>

(* The gesture timer of any view opened since launch casts its ray: with    *)
(* or without a hit, the request is dropped.                                *)
PlacePoint ==
  /\ running
  /\ addAudio
  /\ timers # {}
  /\ addAudio' = RequestAfterRay
  /\ \/ UNCHANGED <<transformations, lastPoint>>
     \/ /\ lastPoint < MaxPoints
        /\ lastPoint' = lastPoint + 1
        /\ transformations' = Append(transformations, lastPoint')
  /\ UNCHANGED <<running, locations, file, cloud, fetch, sheet, seen, draft, isPublic, i3,
                 timers, directions, lastId, clean>>

CopiedDirections(t) == [locations EXCEPT ![t].dirs = directions]

(* The array with the globals copied into place t. *)
Copied(t) == [locations EXCEPT ![t].dirs = directions, ![t].pts = transformations]

(* The 0.1 s timer created with index t: the globals are copied there,      *)
(* whichever place is open, or none.                                        *)
Tick(t) ==
  /\ running
  /\ t \in timers
  /\ IF t > Len(locations)
     THEN Gone
     ELSE /\ locations' = Copied(t)
          /\ UNCHANGED <<running, file, cloud, fetch, sheet, seen, draft, isPublic, i3,
                         timers, directions, transformations, addAudio, lastId,
                         lastPoint, clean>>

UploadKeyOfLast == locations[Len(locations)].id

(* setData(from: locations[locations.count - 1]) *)
Uploaded == locations[Len(locations)]

(* document(location.id.uuidString): the id of the draft. *)
UploadKey == draft

(* The sheet is dismissed: ContentView.onDisappear empties the globals and, *)
(* in AddView, a public place is uploaded under the id of the draft.        *)
CloseSheet ==
  /\ running
  /\ sheet # "closed"
  /\ UpToDate
  /\ sheet' = "closed"
  /\ seen' = <<>>
  /\ IF sheet = "add"
     THEN UNCHANGED <<directions, transformations>>
     ELSE directions' = <<>> /\ transformations' = <<>>
  /\ cloud' = IF sheet = "mapping" /\ isPublic
              THEN [cloud EXCEPT ![UploadKey] = Uploaded]
              ELSE cloud
  /\ clean' = FALSE
  /\ draft' = Foreign    \* AddView is gone with its state
  /\ isPublic' = TRUE
  /\ UNCHANGED <<running, locations, file, fetch, i3, timers, addAudio, lastId, lastPoint>>

(* The app is terminated. *)
Kill == running /\ Gone

-----------------------------------------------------------------------------

Next ==
  \/ Launch
  \/ NearbyArrives
  \/ OpenAdd
  \/ \E i \in 1 .. MaxPlaces : OpenRow(i)
  \/ RowsDisappear
  \/ BeginMapping
  \/ OnChange
  \/ MapAppears
  \/ \E w \in Words : AddDirection(w)
  \/ PlacePoint
  \/ \E t \in 1 .. MaxPlaces : Tick(t)
  \/ CloseSheet
  \/ Kill

(* A repeating timer goes on firing, and SwiftUI brings the screen up to   *)
(* date.                                                                   *)
Fairness == (\A t \in 1 .. MaxPlaces : WF_vars(Tick(t))) /\ WF_vars(OnChange)

Spec == Init /\ [][Next]_vars /\ Fairness

-----------------------------------------------------------------------------
(***************************************************************************)
(* Properties.                                                             *)
(***************************************************************************)

SharedIds == {cloud[d].id : d \in {c \in PlaceIds : cloud[c] # NoDoc}}
PointsOf(list, i) == {list[i].pts[k] : k \in DOMAIN list[i].pts}

(* Every place on screen survives the end of the process, at whatever      *)
(* moment: it is in locations.txt, or Firestore has it.  The one exception *)
(* is the draft, from the tap on Begin Mapping to the onChange that saves   *)
(* it; once the map is shown, it is safe.  No other change of the array,   *)
(* seen by AddView or not, holds a place that would be lost.               *)
PlacesAreSafe ==
  LET unsaved == IF sheet = "add" /\ ChangeIsDue THEN {draft} ELSE {}
  IN  Ids(locations) \ unsaved \subseteq Ids(file) \cup SharedIds

(* Whoever writes locations.txt - AddView, or rows that disappear - never   *)
(* drops a place that is in it, whatever Firestore answered and whenever.   *)
FileIdsKept == [][Ids(file) \subseteq Ids(file')]_vars

(* A place opened on clean globals and its copy in `directions` agree, in   *)
(* spite of the timers that other places have left behind: the user edits   *)
(* both, and every timer that writes to this place writes the same list.    *)
OpenPlaceIsMirrored == clean => locations[Cur].dirs = directions

(* A place opened on clean globals never gets more points than directions,  *)
(* though any view that was ever opened may place the point: box i is       *)
(* announced with direction i.                                              *)
PointsCovered ==
  clean => Len(transformations) + (IF addAudio THEN 1 ELSE 0) <= Len(directions)

(* A place opened on clean globals is what the user has made of it.         *)
OpenPlaceIsRight == OpenPlaceIsMirrored /\ PointsCovered

(* What is uploaded when a map that was opened on clean globals is closed   *)
(* is the draft, with every direction that was added.                       *)
UploadIsWhatWasMapped ==
  [][ (clean /\ cloud' # cloud /\ draft \in Ids(locations)) =>
        cloud'[draft].id = draft /\ cloud'[draft].dirs = directions ]_vars

(* An upload never replaces a document, although the place it takes from    *)
(* the end of the array may be somebody else's.                             *)
UploadsNeverOverwrite ==
  [][\A d \in PlaceIds : cloud[d] # NoDoc => cloud'[d] = cloud[d]]_vars

(* An upload stores the place that was mapped, and nothing in its stead.    *)
UploadIsRight == UploadIsWhatWasMapped /\ UploadsNeverOverwrite

(* A point placed while a new place is being mapped reaches the file, by    *)
(* the timer and the onChange it triggers, unless the map is closed, the    *)
(* app ends, or a late answer of Firestore moves the end of the array.      *)
PointReachesFile ==
  \A p \in 1 .. MaxPoints :
    (/\ sheet = "mapping" /\ clean
     /\ \E k \in DOMAIN transformations : transformations[k] = p)
      ~> \/ sheet # "mapping" \/ ~ clean
         \/ p \in PointsOf(file, Len(file))

=============================================================================
