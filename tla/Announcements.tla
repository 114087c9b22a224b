--------------------------- MODULE Announcements ---------------------------
(***************************************************************************)
(* What the audio guidance of a route promises, whatever timers carry it   *)
(* out: there is one current stop, it only moves forward, one stop at a    *)
(* time; the sound of a stop is started while that stop is the current one *)
(* and, once it has been silenced, it is never started again.              *)
(* Guidance.tla, the model of the timers in ARViewExtension.swift,         *)
(* implements this specification.                                          *)
(***************************************************************************)
EXTENDS Naturals

CONSTANT Stops  \* the stops of the route, numbered in route order

VARIABLES
  current,  \* index of the current stop (the global `step`)
  sound     \* sound of each stop: "silent" before, "sounding", "over" after

Init ==
  /\ current = 0
  /\ sound = [s \in Stops |-> "silent"]

(* The sound of the current stop is started. *)
Announce ==
  /\ current \in Stops
  /\ sound[current] = "silent"
  /\ sound' = [sound EXCEPT ![current] = "sounding"]
  /\ UNCHANGED current

(* The walker reaches a stop: its sound ends, the route may move on. *)
Reach ==
  /\ \E s \in Stops :
       sound' = [sound EXCEPT ![s] = IF @ = "sounding" THEN "over" ELSE @]
  /\ current' \in {current, current + 1}

Next == Announce \/ Reach

Spec == Init /\ [][Next]_<<current, sound>>

=============================================================================
