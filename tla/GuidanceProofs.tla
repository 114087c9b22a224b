--------------------------- MODULE GuidanceProofs ---------------------------
(***************************************************************************)
(* Proofs about the audio guidance: type correctness, the pairing of the   *)
(* cool-down flag with its delayed reset, the fact that the timers         *)
(* implement the specification Announcements, and that no loaded stop of a *)
(* single anchor is skipped.                                               *)
(***************************************************************************)
EXTENDS Guidance, Integers, TLAPS

(* The timers of the run loop: the camera timer, and at most one play timer *)
(* and one near timer of each box created so far; a box whose play timer is *)
(* still alive has not been announced.                                      *)
RingInv ==
  /\ \A i \in 1 .. Len(ring) : ring[i] = CameraTimer \/ ring[i].box < count
  /\ \A i, j \in 1 .. Len(ring) : ring[i] = ring[j] => i = j
  /\ \E i \in 1 .. Len(ring) : ring[i] = CameraTimer
  /\ \A i \in 1 .. Len(ring) : ring[i].kind = "play" => audio[ring[i].box] = "idle"

(* The boxes that do not exist yet have no sound. *)
FreshBoxes == \A b \in BoxIds : b >= count => audio[b] = "none"

IInv == TypeOK /\ RingInv /\ FreshBoxes

-----------------------------------------------------------------------------
(***************************************************************************)
(* Lemmas about the operators of the model.                                *)
(***************************************************************************)

(* Letting the head of the run loop go to its back shifts every timer. *)
LEMMA RotateShifts ==
  ASSUME NEW S, NEW s \in Seq(S), s # <<>>
  PROVE  /\ Append(Tail(s), Head(s)) \in Seq(S)
         /\ Len(Append(Tail(s), Head(s))) = Len(s)
         /\ \A i \in 1 .. Len(s) :
              Append(Tail(s), Head(s))[i] = s[IF i = Len(s) THEN 1 ELSE i + 1]
  OBVIOUS

(* The queue of delayed blocks keeps its type. *)
LEMMA QueueTypes ==
  ASSUME NEW S, NEW s \in Seq(S)
  PROVE  /\ \A e \in S : Append(s, e) \in Seq(S)
         /\ s # <<>> => Tail(s) \in Seq(S)
  OBVIOUS

(* LoadedBoxes(first, last) contains increasing sequences of boxes. *)
LEMMA LoadedIncrease ==
  ASSUME NEW first \in Nat, NEW last \in Nat,
         NEW s \in LoadedBoxes(first, last)
  PROVE  /\ s \in Seq(first .. last)
         /\ \A i \in 1 .. Len(s) : i \in DOMAIN s /\ s[i] \in first .. last
         /\ \A i, j \in 1 .. Len(s) : i < j => s[i] < s[j]
  BY DEF LoadedBoxes

(* A box that is loaded gets its own two timers, and no other box does. *)
LEMMA TimersOfLoaded ==
  ASSUME NEW first \in Nat, NEW last \in Nat, last < MaxBoxes,
         NEW s \in LoadedBoxes(first, last)
  PROVE  /\ TimersOf(s) \in Seq(Timers)
         /\ Len(TimersOf(s)) = 2 * Len(s)
         /\ \A i \in 1 .. Len(TimersOf(s)) :
              /\ TimersOf(s)[i].kind \in {"play", "near"}
              /\ TimersOf(s)[i].box \in first .. last
              /\ \E k \in 1 .. Len(s) : TimersOf(s)[i].box = s[k]
         /\ \A i, j \in 1 .. Len(TimersOf(s)) :
              TimersOf(s)[i] = TimersOf(s)[j] => i = j
<1>1. /\ s \in Seq(first .. last)
      /\ \A i, j \in 1 .. Len(s) : i < j => s[i] < s[j]
  BY LoadedIncrease
<1>2. first .. last \subseteq BoxIds
  BY GuidanceAssumption DEF BoxIds, GuidanceAssumption
<1>3. \A k \in 1 .. 2 * Len(s) :
        IF k % 2 = 1
        THEN (k + 1) \div 2 \in 1 .. Len(s) /\ k = 2 * ((k + 1) \div 2) - 1
        ELSE k \div 2 \in 1 .. Len(s) /\ k = 2 * (k \div 2)
  BY <1>1
<1>4. \A k \in 1 .. 2 * Len(s) :
        \/ \E m \in 1 .. Len(s) :
             k = 2 * m - 1 /\ TimersOf(s)[k] = [kind |-> "play", box |-> s[m]]
        \/ \E m \in 1 .. Len(s) :
             k = 2 * m /\ TimersOf(s)[k] = [kind |-> "near", box |-> s[m]]
  BY <1>3 DEF TimersOf, PlayTimer, NearTimer
<1>5. /\ TimersOf(s) \in Seq(Timers)
      /\ Len(TimersOf(s)) = 2 * Len(s)
  <2>0. \A m \in 1 .. Len(s) : /\ [kind |-> "play", box |-> s[m]] \in Timers
                                /\ [kind |-> "near", box |-> s[m]] \in Timers
    <3>1. \A m \in 1 .. Len(s) : s[m] \in BoxIds
      BY <1>1, <1>2
    <3> QED
      BY <3>1 DEF Timers
  <2>1. \A k \in 1 .. 2 * Len(s) : TimersOf(s)[k] \in Timers
    BY <1>4, <2>0
  <2>2. 2 * Len(s) \in Nat
    BY <1>1
  <2> QED
    BY <2>1, <2>2 DEF TimersOf
<1>6. ASSUME NEW i \in 1 .. Len(TimersOf(s))
      PROVE  /\ TimersOf(s)[i].kind \in {"play", "near"}
             /\ TimersOf(s)[i].box \in first .. last
             /\ \E k \in 1 .. Len(s) : TimersOf(s)[i].box = s[k]
  BY <1>1, <1>4, <1>5
<1>7. ASSUME NEW i \in 1 .. Len(TimersOf(s)), NEW j \in 1 .. Len(TimersOf(s)),
             TimersOf(s)[i] = TimersOf(s)[j]
      PROVE  i = j
  <2>1. \A k, m \in 1 .. Len(s) : s[k] = s[m] => k = m
    BY <1>1
  <2> QED
    BY <1>4, <1>5, <1>7, <2>1
<1> QED
  BY <1>5, <1>6, <1>7

-----------------------------------------------------------------------------
(***************************************************************************)
(* The inductive invariant.                                                *)
(***************************************************************************)

LEMMA InitInv == Init => IInv
<1> SUFFICES ASSUME Init PROVE IInv
  OBVIOUS
<1>1. TypeOK
  <2>1. <<CameraTimer>> \in Seq(Timers)
    BY DEF CameraTimer, Timers
  <2>2. count \in 0 .. MaxBoxes /\ anchors \in 0 .. MaxAnchors
    BY GuidanceAssumption DEF GuidanceAssumption, Init
  <2>3. audio \in [BoxIds -> AudioStates]
    BY DEF Init, AudioStates
  <2>4. resets \in Seq(0 .. CoolDownTicks)
    BY DEF Init
  <2> QED
    BY <2>1, <2>2, <2>3, <2>4 DEF Init, TypeOK
<1>2. RingInv
  BY DEF Init, RingInv, CameraTimer
<1>3. FreshBoxes
  BY DEF Init, FreshBoxes
<1> QED
  BY <1>1, <1>2, <1>3 DEF IInv

(* Letting the head fire and go to the back of the ring keeps RingInv. *)
LEMMA RotateKeepsRing ==
  ASSUME TypeOK, RingInv, ring' = Rotate, count' = count,
         \A b \in BoxIds : audio[b] = "idle" => audio'[b] = "idle"
  PROVE  ring' \in Seq(Timers) /\ RingInv'
<1> DEFINE n == Len(ring)
           from == [i \in 1 .. n |-> IF i = n THEN 1 ELSE i + 1]
<1>1. ring \in Seq(Timers) /\ ring # <<>> /\ n \in Nat \ {0}
  BY DEF TypeOK, RingInv
<1>2. /\ ring' \in Seq(Timers)
      /\ Len(ring') = n
      /\ \A i \in 1 .. n : ring'[i] = ring[from[i]]
  BY <1>1, RotateShifts DEF Rotate
<1>3. /\ \A i \in 1 .. n : from[i] \in 1 .. n
      /\ \A i, j \in 1 .. n : from[i] = from[j] => i = j
  BY <1>1
<1>4. \A j \in 1 .. n : \E i \in 1 .. n : from[i] = j
  <2> TAKE j \in 1 .. n
  <2> DEFINE i == IF j = 1 THEN n ELSE j - 1
  <2>1. i \in 1 .. n /\ from[i] = j
    BY <1>1
  <2> QED
    BY <2>1
<1> HIDE DEF n, from
<1>5. \A i \in 1 .. n : ring'[i] = CameraTimer \/ ring'[i].box < count'
  BY <1>2, <1>3 DEF RingInv, n
<1>6. \A i, j \in 1 .. n : ring'[i] = ring'[j] => i = j
  <2> SUFFICES ASSUME NEW i \in 1 .. n, NEW j \in 1 .. n, ring'[i] = ring'[j]
               PROVE  i = j
    OBVIOUS
  <2>1. from[i] = from[j]
    BY <1>2, <1>3 DEF RingInv, n
  <2> QED
    BY <1>3, <2>1
<1>8. \E i \in 1 .. n : ring'[i] = CameraTimer
  <2>1. PICK j \in 1 .. n : ring[j] = CameraTimer
    BY DEF RingInv, n
  <2>2. PICK i \in 1 .. n : from[i] = j
    BY <1>4
  <2> QED
    BY <1>2, <2>1, <2>2
<1>7. \A i \in 1 .. n : ring'[i].kind = "play" => audio'[ring'[i].box] = "idle"
  <2> SUFFICES ASSUME NEW i \in 1 .. n, ring'[i].kind = "play"
               PROVE  audio'[ring'[i].box] = "idle"
    OBVIOUS
  <2>1. /\ ring'[i] = ring[from[i]]
        /\ from[i] \in 1 .. n
    BY <1>2, <1>3
  <2>2. audio[ring'[i].box] = "idle"
    BY <2>1 DEF RingInv, n
  <2>3. ring'[i].box \in Nat /\ ring'[i].box < count
    <3>1. ring'[i] \in Timers
      BY <1>2
    <3>2. ring'[i].box \in Nat
      BY <3>1 DEF Timers, BoxIds
    <3>3. ring'[i] # CameraTimer
      BY DEF CameraTimer
    <3> QED
      BY <1>5, <3>2, <3>3
  <2>4. ring'[i].box \in BoxIds
    BY <2>3, GuidanceAssumption DEF TypeOK, BoxIds, GuidanceAssumption
  <2> QED
    BY <2>2, <2>4
<1> QED
  BY <1>2, <1>5, <1>6, <1>7, <1>8 DEF RingInv

(* A new anchor adds timers of new boxes only. *)
LEMMA AddAnchorInv ==
  ASSUME IInv, NEW n \in 1 .. MaxBoxes, AddAnchor(n)
  PROVE  IInv'
<1> USE DEF IInv
<1>1. PICK s \in LoadedBoxes(count, count + n - 1) :
        /\ ring' = ring \o TimersOf(s)
        /\ audio' = [b \in BoxIds |->
                       IF \E i \in DOMAIN s : s[i] = b THEN "idle" ELSE audio[b]]
  BY DEF AddAnchor
<1>2. /\ count \in Nat /\ count + n - 1 \in Nat
      /\ count + n - 1 < MaxBoxes /\ count' = count + n
  BY GuidanceAssumption DEF GuidanceAssumption, AddAnchor, TypeOK
<1> DEFINE t == TimersOf(s)
<1>3. /\ t \in Seq(Timers)
      /\ \A i \in 1 .. Len(t) : /\ t[i].kind \in {"play", "near"}
                                /\ t[i].box \in count .. count + n - 1
                                /\ \E k \in 1 .. Len(s) : t[i].box = s[k]
      /\ \A i, j \in 1 .. Len(t) : t[i] = t[j] => i = j
  BY <1>2, TimersOfLoaded
<1>4. /\ s \in Seq(count .. count + n - 1)
      /\ \A i \in 1 .. Len(s) : i \in DOMAIN s /\ s[i] \in count .. count + n - 1
  BY <1>2, LoadedIncrease
<1>5. ring \in Seq(Timers) /\ Len(ring) \in Nat /\ Len(t) \in Nat
  BY <1>3 DEF TypeOK
<1> HIDE DEF t
<1>6. /\ ring' \in Seq(Timers)
      /\ Len(ring') = Len(ring) + Len(t)
      /\ \A i \in 1 .. Len(ring) : ring'[i] = ring[i]
      /\ \A i \in 1 .. Len(ring') :
           i > Len(ring) => i - Len(ring) \in 1 .. Len(t) /\ ring'[i] = t[i - Len(ring)]
  BY <1>1, <1>3, <1>5 DEF t
<1>7. TypeOK'
  <2>1. audio' \in [BoxIds -> AudioStates]
    BY <1>1 DEF TypeOK, AudioStates
  <2>2. count' \in 0 .. MaxBoxes /\ anchors' \in 0 .. MaxAnchors
    BY <1>2, GuidanceAssumption DEF GuidanceAssumption, AddAnchor, TypeOK
  <2> QED
    BY <1>6, <2>1, <2>2 DEF TypeOK, AddAnchor
<1>8. RingInv'
  <2>1. \A i \in 1 .. Len(ring') : ring'[i] = CameraTimer \/ ring'[i].box < count'
    <3> SUFFICES ASSUME NEW i \in 1 .. Len(ring'), ring'[i] # CameraTimer
                 PROVE  ring'[i].box < count + n
      BY <1>2
    <3>1. CASE i <= Len(ring)
      <4>1. ring[i].box < count /\ ring[i] \in Timers /\ ring'[i] = ring[i]
        BY <1>5, <1>6, <3>1 DEF RingInv
      <4>2. ring[i].box \in Int
        BY <4>1 DEF Timers, BoxIds
      <4> QED
        BY <1>2, <4>1, <4>2
    <3>2. CASE i > Len(ring)
      <4>1. ring'[i].box \in count .. count + n - 1
        BY <1>3, <1>6, <3>2
      <4> QED
        BY <1>2, <4>1
    <3> QED
      BY <1>5, <1>6, <3>1, <3>2
  <2>2. ASSUME NEW i \in 1 .. Len(ring), NEW j \in 1 .. Len(t)
        PROVE  ring[i] # t[j]
    <3>1. t[j].kind \in {"play", "near"} /\ t[j].box >= count /\ t[j].box \in Nat
      BY <1>2, <1>3
    <3>2. t[j] # CameraTimer
      BY <3>1 DEF CameraTimer
    <3> QED
      BY <1>2, <3>1, <3>2 DEF RingInv
  <2>3. ASSUME NEW i \in 1 .. Len(ring'), NEW j \in 1 .. Len(ring'), ring'[i] = ring'[j]
        PROVE  i = j
    <3>1. CASE i <= Len(ring) /\ j <= Len(ring)
      BY <1>5, <1>6, <2>3, <3>1 DEF RingInv
    <3>2. CASE i > Len(ring) /\ j > Len(ring)
      <4>1. /\ i - Len(ring) \in 1 .. Len(t) /\ j - Len(ring) \in 1 .. Len(t)
            /\ t[i - Len(ring)] = t[j - Len(ring)]
        BY <1>6, <2>3, <3>2
      <4>2. i - Len(ring) = j - Len(ring)
        BY <1>3, <4>1
      <4> QED
        BY <1>5, <1>6, <4>2
    <3>3. CASE i <= Len(ring) /\ j > Len(ring)
      BY <1>5, <1>6, <2>2, <2>3, <3>3
    <3>4. CASE i > Len(ring) /\ j <= Len(ring)
      BY <1>5, <1>6, <2>2, <2>3, <3>4
    <3> QED
      BY <1>5, <1>6, <3>1, <3>2, <3>3, <3>4
  <2>4. \E i \in 1 .. Len(ring') : ring'[i] = CameraTimer
    BY <1>5, <1>6 DEF RingInv
  <2>5. ASSUME NEW i \in 1 .. Len(ring'), ring'[i].kind = "play"
        PROVE  audio'[ring'[i].box] = "idle"
    <3>1. CASE i <= Len(ring)
      <4>1. ring'[i] = ring[i] /\ i \in 1 .. Len(ring)
        BY <1>5, <1>6, <3>1
      <4>2. audio[ring[i].box] = "idle" /\ ring[i] \in Timers /\ ring[i].box < count
        BY <1>5, <2>5, <4>1 DEF RingInv, CameraTimer
      <4>3. ring[i].box \in BoxIds
        BY <4>2, <1>2, GuidanceAssumption
        DEF TypeOK, Timers, BoxIds, GuidanceAssumption
      <4> QED
        BY <1>1, <4>1, <4>2, <4>3
    <3>2. CASE i > Len(ring)
      <4>0. i - Len(ring) \in 1 .. Len(t) /\ ring'[i] = t[i - Len(ring)]
        BY <1>6, <3>2
      <4>1. PICK k \in 1 .. Len(s) : ring'[i].box = s[k]
        BY <1>3, <4>0, Zenon
      <4>2. s[k] \in BoxIds /\ k \in DOMAIN s
        <5>1. k \in DOMAIN s /\ s[k] \in count .. count + n - 1
          BY <1>4
        <5> QED
          BY <1>2, <5>1, GuidanceAssumption DEF BoxIds, GuidanceAssumption
      <4> QED
        BY <1>1, <4>1, <4>2
    <3> QED
      BY <1>5, <1>6, <3>1, <3>2
  <2> QED
    BY <2>1, <2>3, <2>4, <2>5 DEF RingInv
<1>9. FreshBoxes'
  <2> SUFFICES ASSUME NEW b \in BoxIds, b >= count + n
               PROVE  audio'[b] = "none"
    BY <1>2 DEF FreshBoxes
  <2>1. \A i \in DOMAIN s : s[i] # b
    BY <1>2, <1>4 DEF BoxIds
  <2>2. audio[b] = "none"
    BY <1>2 DEF FreshBoxes, BoxIds
  <2> QED
    BY <1>1, <2>1, <2>2
<1> QED
  BY <1>7, <1>8, <1>9

(* The head of the ring is one of its timers. *)
LEMMA HeadOfRing ==
  ASSUME TypeOK, RingInv
  PROVE  /\ ring \in Seq(Timers) /\ ring # <<>> /\ Len(ring) \in Nat \ {0}
         /\ Head(ring) = ring[1] /\ ring[1] \in Timers /\ 1 \in 1 .. Len(ring)
  BY DEF TypeOK, RingInv

LEMMA FirePlayInv ==
  ASSUME IInv, NEW b \in BoxIds, FirePlay(b)
  PROVE  IInv'
<1> USE DEF IInv
<1>0. ring \in Seq(Timers) /\ ring # <<>> /\ Len(ring) \in Nat \ {0} /\ ring[1] = PlayTimer(b)
  BY HeadOfRing DEF FirePlay
<1>1. CASE IsCurrent(b) /\ audio' = [audio EXCEPT ![b] = "playing"] /\ ring' = DropPlayTimer
  <2>1. /\ ring' \in Seq(Timers)
        /\ Len(ring') = Len(ring) - 1
        /\ \A i \in 1 .. Len(ring') : ring'[i] = ring[i + 1]
    BY <1>0, <1>1 DEF DropPlayTimer
  <2>2. TypeOK'
    BY <1>1, <2>1 DEF TypeOK, FirePlay, AudioStates
  <2>3. \A i \in 1 .. Len(ring') : ring'[i] = CameraTimer \/ ring'[i].box < count'
    BY <1>0, <2>1 DEF RingInv, FirePlay
  <2>4. \A i, j \in 1 .. Len(ring') : ring'[i] = ring'[j] => i = j
    <3> SUFFICES ASSUME NEW i \in 1 .. Len(ring'), NEW j \in 1 .. Len(ring'),
                        ring'[i] = ring'[j]
                 PROVE  i = j
      OBVIOUS
    <3>1. i + 1 \in 1 .. Len(ring) /\ j + 1 \in 1 .. Len(ring) /\ ring[i + 1] = ring[j + 1]
      BY <1>0, <2>1
    <3>2. i + 1 = j + 1
      BY <3>1 DEF RingInv
    <3> QED
      BY <3>2, <1>0, <2>1
  <2>5. \E i \in 1 .. Len(ring') : ring'[i] = CameraTimer
    <3>1. PICK i \in 1 .. Len(ring) : ring[i] = CameraTimer
      BY DEF RingInv
    <3>2. i # 1
      BY <1>0, <3>1 DEF PlayTimer, CameraTimer
    <3>3. i - 1 \in 1 .. Len(ring') /\ ring'[i - 1] = CameraTimer
      BY <1>0, <2>1, <3>1, <3>2
    <3> QED
      BY <3>3
  <2>6. ASSUME NEW i \in 1 .. Len(ring'), ring'[i].kind = "play"
        PROVE  audio'[ring'[i].box] = "idle"
    <3>1. /\ i + 1 \in 1 .. Len(ring) /\ ring'[i] = ring[i + 1]
          /\ i + 1 # 1 /\ ring[i + 1] \in Timers
      BY <1>0, <2>1
    <3>2. audio[ring[i + 1].box] = "idle"
      BY <2>6, <3>1 DEF RingInv
    <3>3. ring[i + 1] # PlayTimer(b)
      BY <1>0, <3>1 DEF RingInv
    <3>4. ring[i + 1] = PlayTimer(ring[i + 1].box)
      BY <2>6, <3>1 DEF PlayTimer, Timers
    <3>5. ring[i + 1].box # b
      BY <3>3, <3>4
    <3>6. audio'[ring[i + 1].box] = audio[ring[i + 1].box]
      BY <1>1, <3>5 DEF TypeOK
    <3> QED
      BY <3>1, <3>2, <3>6
  <2>7. FreshBoxes'
    BY <1>1 DEF FreshBoxes, FirePlay, IsCurrent, TypeOK, BoxIds
  <2> QED
    BY <2>2, <2>3, <2>4, <2>5, <2>6, <2>7 DEF RingInv
<1>2. CASE ring' = WaitForTurn /\ UNCHANGED audio
  <2>1. ring' \in Seq(Timers) /\ RingInv'
    BY <1>2, RotateKeepsRing DEF WaitForTurn, Rotate, FirePlay
  <2> QED
    BY <1>2, <2>1 DEF FirePlay, TypeOK, FreshBoxes
<1> QED
  BY <1>1, <1>2 DEF FirePlay

LEMMA FireNearInv ==
  ASSUME IInv, NEW b \in BoxIds, FireNear(b)
  PROVE  IInv'
<1> USE DEF IInv
<1>1. ring' = Rotate /\ count' = count /\ anchors' = anchors
  BY DEF FireNear
<1>2. audio' = audio \/ audio' = Silenced(b)
  BY DEF FireNear
<1>3. /\ audio' \in [BoxIds -> AudioStates]
      /\ \A c \in BoxIds : audio[c] = "idle" => audio'[c] = "idle"
      /\ \A c \in BoxIds : audio[c] = "none" => audio'[c] = "none"
  BY <1>2 DEF Silenced, TypeOK, AudioStates
<1>4. ring' \in Seq(Timers) /\ RingInv'
  BY <1>1, <1>3, RotateKeepsRing
<1>5. step' \in Nat /\ coolDown' \in BOOLEAN /\ resets' \in Seq(0 .. CoolDownTicks)
  <2>1. CoolDownTicks \in 0 .. CoolDownTicks
    BY GuidanceAssumption DEF GuidanceAssumption
  <2>2. resets \in Seq(0 .. CoolDownTicks) /\ ScheduleReset \in Seq(0 .. CoolDownTicks)
    BY <2>1, QueueTypes DEF TypeOK, ScheduleReset
  <2>3. resets' \in {resets, ScheduleReset}
    BY DEF FireNear
  <2>4. step' \in Nat /\ coolDown' \in BOOLEAN
    <3>1. \/ step' = step + 1 /\ coolDown' = TRUE
          \/ step' = step /\ coolDown' = coolDown
      BY DEF FireNear
    <3>2. step' \in Nat
      BY <3>1 DEF TypeOK
    <3>3. coolDown' \in BOOLEAN
      BY <3>1, Zenon DEF TypeOK
    <3> QED
      BY <3>2, <3>3
  <2>5. resets' \in Seq(0 .. CoolDownTicks)
    BY <2>2, <2>3
  <2> QED
    BY <2>4, <2>5
<1>6. FreshBoxes'
  BY <1>1, <1>3 DEF FreshBoxes
<1> QED
  BY <1>1, <1>3, <1>4, <1>5, <1>6 DEF TypeOK

LEMMA CameraTickInv ==
  ASSUME IInv, CameraTick
  PROVE  IInv'
<1> USE DEF IInv
<1>1. ring' \in Seq(Timers) /\ RingInv'
  BY RotateKeepsRing DEF CameraTick
<1>2. resets' \in Seq(0 .. CoolDownTicks)
  <2>1. \A i \in DOMAIN resets :
          (IF resets[i] = 0 THEN 0 ELSE resets[i] - 1) \in 0 .. CoolDownTicks
    BY GuidanceAssumption DEF GuidanceAssumption, TypeOK
  <2>2. DOMAIN resets = 1 .. Len(resets) /\ Len(resets) \in Nat
    BY DEF TypeOK
  <2> QED
    BY <2>1, <2>2 DEF CameraTick
<1> QED
  BY <1>1, <1>2 DEF CameraTick, TypeOK, FreshBoxes

LEMMA NextInv == IInv /\ [Next]_vars => IInv'
<1> SUFFICES ASSUME IInv, [Next]_vars PROVE IInv'
  OBVIOUS
<1>1. CASE \E n \in 1 .. MaxBoxes : AddAnchor(n)
  BY <1>1, AddAnchorInv
<1>2. CASE \E b \in BoxIds : FirePlay(b)
  BY <1>2, FirePlayInv
<1>3. CASE \E b \in BoxIds : FireNear(b)
  BY <1>3, FireNearInv
<1>4. CASE CameraTick
  BY <1>4, CameraTickInv
<1>5. CASE CoolDownOver
  <2>1. resets' \in Seq(0 .. CoolDownTicks) /\ coolDown' \in BOOLEAN
    BY <1>5, QueueTypes DEF CoolDownOver, IInv, TypeOK
  <2> QED
    BY <1>5, <2>1 DEF CoolDownOver, IInv, TypeOK, RingInv, FreshBoxes
<1>6. CASE UNCHANGED vars
  BY <1>6 DEF vars, IInv, TypeOK, RingInv, FreshBoxes
<1> QED
  BY <1>1, <1>2, <1>3, <1>4, <1>5, <1>6 DEF Next, RunLoop

LEMMA Inductive == Spec => []IInv
  BY InitInv, NextInv, PTL DEF Spec

(* Every variable of the guidance keeps its type, for any number of boxes,  *)
(* anchors and advances.                                                    *)
THEOREM TypeCorrect == Spec => []TypeOK
  BY Inductive, PTL DEF IInv

-----------------------------------------------------------------------------
(* The cool-down flag is set exactly while one block that clears it is      *)
(* pending.  It is inductive with the types: only a step that finds the     *)
(* flag clear schedules a block, and only the block clears the flag.        *)
THEOREM CoolDownPaired == Spec => []CoolDownHasItsReset
<1>1. Init => CoolDownHasItsReset
  BY DEF Init, CoolDownHasItsReset
<1>2. ASSUME TypeOK, CoolDownHasItsReset, [Next]_vars
      PROVE  CoolDownHasItsReset'
  <2>1. resets \in Seq(0 .. CoolDownTicks) /\ coolDown \in BOOLEAN
    BY <1>2 DEF TypeOK
  <2>2. CASE \E b \in BoxIds : FireNear(b)
    <3>1. CASE UNCHANGED <<coolDown, resets>>
      BY <1>2, <3>1 DEF CoolDownHasItsReset
    <3>2. CASE ~ coolDown /\ coolDown' = TRUE /\ resets' = Append(resets, CoolDownTicks)
      <4>1. resets = <<>>
        BY <1>2, <3>2 DEF CoolDownHasItsReset
      <4>2. Len(resets') = 1
        BY <3>2, <4>1
      <4> QED
        BY <3>2, <4>2 DEF CoolDownHasItsReset
    <3> QED
      BY <2>2, <3>1, <3>2 DEF FireNear, MayAdvance, ScheduleReset
  <2>3. CASE CameraTick
    <3>1. coolDown' = coolDown /\ DOMAIN resets' = 1 .. Len(resets) /\ Len(resets) \in Nat
      BY <2>1, <2>3 DEF CameraTick
    <3>2. resets' \in Seq(Int)
      <4>1. \A i \in DOMAIN resets : resets[i] \in Int
        BY <2>1, GuidanceAssumption DEF GuidanceAssumption
      <4>2. DOMAIN resets = 1 .. Len(resets)
        BY <2>1
      <4>3. resets' \in [1 .. Len(resets) -> Int]
        BY <2>3, <4>1, <4>2 DEF CameraTick
      <4> QED
        BY <3>1, <4>3
    <3>3. Len(resets') = Len(resets)
      BY <3>1, <3>2
    <3> QED
      BY <1>2, <2>1, <3>1, <3>2, <3>3 DEF CoolDownHasItsReset
  <2>4. CASE CoolDownOver
    BY <1>2, <2>1, <2>4 DEF CoolDownOver, CoolDownHasItsReset
  <2>5. CASE UNCHANGED <<coolDown, resets>>
    BY <1>2, <2>5 DEF CoolDownHasItsReset
  <2> QED
    BY <1>2, <2>2, <2>3, <2>4, <2>5 DEF Next, RunLoop, AddAnchor, FirePlay, vars
<1> QED
  BY <1>1, <1>2, TypeCorrect, PTL DEF Spec

-----------------------------------------------------------------------------
(* The timers implement Announcements: a sound starts for the current step  *)
(* only, never after it was silenced, and the step moves by one.            *)
THEOREM ImplementsAnnouncements == Spec => AnnouncesRoute
<1> DEFINE snd == [b \in BoxIds |-> SoundOf(audio[b])]
<1>1. Init => Route!Init
  BY DEF Init, Route!Init, SoundOf
<1>2. ASSUME IInv, [Next]_vars
      PROVE  [Route!Next]_<<step, snd>>
  <2>1. CASE \E n \in 1 .. MaxBoxes : AddAnchor(n)
    <3>1. PICK n \in 1 .. MaxBoxes : AddAnchor(n)
      BY <2>1
    <3>2. PICK s \in LoadedBoxes(count, count + n - 1) :
            audio' = [b \in BoxIds |->
                        IF \E i \in DOMAIN s : s[i] = b THEN "idle" ELSE audio[b]]
      BY <3>1 DEF AddAnchor
    <3>3. count \in Nat /\ count + n - 1 \in Nat
      BY <1>2, GuidanceAssumption DEF IInv, TypeOK, GuidanceAssumption
    <3>4. s \in Seq(count .. count + n - 1)
      BY <3>3, LoadedIncrease
    <3>5. \A i \in DOMAIN s : s[i] >= count
      BY <3>3, <3>4
    <3>6. \A b \in BoxIds : SoundOf(audio'[b]) = SoundOf(audio[b])
      BY <1>2, <3>2, <3>5 DEF IInv, FreshBoxes, SoundOf
    <3>7. step' = step
      BY <3>1 DEF AddAnchor
    <3> QED
      BY <3>6, <3>7
  <2>2. CASE \E b \in BoxIds : FirePlay(b)
    <3>1. PICK b \in BoxIds : FirePlay(b)
      BY <2>2
    <3>2. CASE UNCHANGED audio
      BY <3>1, <3>2 DEF FirePlay
    <3>3. CASE IsCurrent(b) /\ audio' = [audio EXCEPT ![b] = "playing"]
      <4>1. audio[b] = "idle"
        BY <1>2, <3>1, HeadOfRing DEF IInv, RingInv, FirePlay, PlayTimer
      <4>2. /\ snd[b] = "silent"
            /\ snd' = [snd EXCEPT ![b] = "sounding"]
        BY <1>2, <3>3, <4>1 DEF IInv, TypeOK, SoundOf
      <4> QED
        BY <3>1, <3>3, <4>2 DEF IsCurrent, FirePlay, Route!Next, Route!Announce
    <3> QED
      BY <3>1, <3>2, <3>3 DEF FirePlay
  <2>3. CASE \E b \in BoxIds : FireNear(b)
    <3>1. PICK b \in BoxIds : FireNear(b)
      BY <2>3
    <3>2. CASE audio' = Silenced(b)
      <4>1. snd' = [snd EXCEPT ![b] = IF @ = "sounding" THEN "over" ELSE @]
        BY <1>2, <3>2 DEF IInv, TypeOK, Silenced, SoundOf
      <4>2. step' \in {step, step + 1}
        BY <3>1 DEF FireNear
      <4> QED
        BY <4>1, <4>2 DEF Route!Next, Route!Reach
    <3> QED
      BY <3>1, <3>2 DEF FireNear
  <2>4. CASE UNCHANGED <<step, audio>>
    BY <2>4
  <2> QED
    BY <1>2, <2>1, <2>2, <2>3, <2>4 DEF Next, RunLoop, CameraTick, CoolDownOver, vars
<1> QED
  BY <1>1, <1>2, Inductive, PTL DEF Spec, AnnouncesRoute, Route!Spec

-----------------------------------------------------------------------------
(***************************************************************************)
(* No loaded stop of a single anchor is skipped.  The proof is about the   *)
(* phase of the ring: after an advance the next one is two camera ticks    *)
(* away, and between two camera ticks every play timer fires.              *)
(***************************************************************************)

InRing(t) == \E i \in 1 .. Len(ring) : ring[i] = t

Before(t, u) == \E i, j \in 1 .. Len(ring) : i < j /\ ring[i] = t /\ ring[j] = u

(* A box that has not been announced keeps its play timer. *)
PlayTimersWait == \A b \in BoxIds : audio[b] = "idle" => InRing(PlayTimer(b))

(* Before the first anchor there is neither a box nor an advance. *)
NothingYet == anchors = 0 => count = 0 /\ step = 0

(* The first box is announced before any box can advance `step`. *)
FirstIsDue ==
  \A b, c \in BoxIds :
    b = 0 /\ step = 0 /\ audio[b] = "idle" /\ InRing(NearTimer(c))
      => Before(PlayTimer(b), NearTimer(c))

(* While a later box has yet to be announced, the cool-down goes on, and    *)
(* before its last tick the box is announced.                               *)
NextIsDue ==
  \A b \in BoxIds :
    b > 0 /\ step = b /\ audio[b] = "idle"
      => /\ resets # <<>>
         /\ resets[1] > 0
         /\ resets[1] = 1 => Before(PlayTimer(b), CameraTimer)

NoIdlePassed == \A b \in BoxIds : audio[b] = "idle" => step <= b

SkipInv ==
  /\ PlayTimersWait
  /\ NothingYet
  /\ anchors <= 1 => FirstIsDue /\ NextIsDue /\ NoIdlePassed

(* Whether the head of the ring goes to its back or away, the others keep   *)
(* their order.                                                             *)
LEMMA OrderKept ==
  ASSUME ring \in Seq(Timers), ring # <<>>, ring' \in {Rotate, DropPlayTimer},
         NEW t, NEW u
  PROVE  /\ InRing(t)' => InRing(t)
         /\ InRing(t) /\ (Head(ring) # t \/ ring' = Rotate) => InRing(t)'
         /\ Before(t, u) /\ Head(ring) # t => Before(t, u)'
         /\ InRing(t) /\ Head(ring) = u /\ t # u /\ ring' = Rotate => Before(t, u)'
<1> DEFINE n == Len(ring)
<1>1. n \in Nat \ {0} /\ Head(ring) = ring[1]
  OBVIOUS
<1>2. /\ Len(ring') \in {n, n - 1}
      /\ \A i \in 1 .. n - 1 : ring'[i] = ring[i + 1]
      /\ ring' = Rotate => Len(ring') = n /\ ring'[n] = ring[1]
  <2>1. CASE ring' = Rotate
    BY <1>1, <2>1, RotateShifts DEF Rotate
  <2>2. CASE ring' = DropPlayTimer /\ ring' # Rotate
    BY <1>1, <2>2 DEF DropPlayTimer
  <2> QED
    BY <2>1, <2>2
<1>3. Len(ring') = n => ring' = Rotate
  BY <1>1 DEF DropPlayTimer
<1> HIDE DEF n
<1>4. ASSUME InRing(t)' PROVE InRing(t)
  <2>1. PICK i \in 1 .. Len(ring') : ring'[i] = t
    BY <1>4 DEF InRing
  <2>2. i \in 1 .. n - 1 \/ (i = n /\ ring' = Rotate)
    BY <1>1, <1>2, <1>3, <2>1
  <2>3. \E k \in 1 .. n : ring[k] = t
    <3>1. CASE i \in 1 .. n - 1
      <4>1. i + 1 \in 1 .. n /\ ring[i + 1] = t
        BY <1>1, <1>2, <2>1, <3>1
      <4> QED
        BY <4>1
    <3>2. CASE i = n /\ ring' = Rotate
      BY <1>1, <1>2, <2>1, <3>2
    <3> QED
      BY <2>2, <3>1, <3>2
  <2> QED
    BY <2>3 DEF InRing, n
<1>5. ASSUME InRing(t), Head(ring) # t
      PROVE  \E i \in 1 .. Len(ring') : i <= n - 1 /\ ring'[i] = t
  <2>1. PICK i \in 1 .. n : ring[i] = t
    BY <1>5 DEF InRing, n
  <2>2. i - 1 \in 1 .. n - 1 /\ ring'[i - 1] = t
    BY <1>1, <1>2, <1>5, <2>1
  <2>3. i - 1 \in 1 .. Len(ring')
    BY <1>1, <1>2, <2>2
  <2> QED
    BY <2>2, <2>3
<1>6. ASSUME InRing(t), Head(ring) # t \/ ring' = Rotate
      PROVE  InRing(t)'
  <2>1. CASE Head(ring) # t
    BY <1>5, <1>6, <2>1 DEF InRing
  <2>2. CASE Head(ring) = t /\ ring' = Rotate
    <3>1. n \in 1 .. Len(ring') /\ ring'[n] = t
      BY <1>1, <1>2, <2>2
    <3> QED
      BY <3>1 DEF InRing
  <2> QED
    BY <1>6, <2>1, <2>2
<1>7. ASSUME Before(t, u), Head(ring) # t
      PROVE  Before(t, u)'
  <2>1. PICK i \in 1 .. n, j \in 1 .. n : i < j /\ ring[i] = t /\ ring[j] = u
    BY <1>7 DEF Before, n
  <2>2. /\ i - 1 \in 1 .. n - 1 /\ ring'[i - 1] = t
        /\ j - 1 \in 1 .. n - 1 /\ ring'[j - 1] = u
    BY <1>1, <1>2, <1>7, <2>1
  <2>3. i - 1 \in 1 .. Len(ring') /\ j - 1 \in 1 .. Len(ring') /\ i - 1 < j - 1
    BY <1>1, <1>2, <2>1, <2>2
  <2> QED
    BY <2>2, <2>3 DEF Before
<1>8. ASSUME InRing(t), Head(ring) = u, t # u, ring' = Rotate
      PROVE  Before(t, u)'
  <2>1. PICK i \in 1 .. Len(ring') : i <= n - 1 /\ ring'[i] = t
    BY <1>5, <1>8
  <2>2. n \in 1 .. Len(ring') /\ ring'[n] = u /\ i < n
    BY <1>1, <1>2, <1>8, <2>1
  <2> QED
    BY <2>1, <2>2 DEF Before
<1> QED
  BY <1>4, <1>6, <1>7, <1>8

(* The timer at the head of the ring is before no other. *)
LEMMA HeadIsAhead ==
  ASSUME TypeOK, RingInv, NEW t, NEW u, Before(t, u)
  PROVE  Head(ring) # u
<1>1. PICK i \in 1 .. Len(ring), j \in 1 .. Len(ring) : i < j /\ ring[j] = u
  BY DEF Before
<1>2. j # 1 /\ Head(ring) = ring[1] /\ 1 \in 1 .. Len(ring)
  BY <1>1, HeadOfRing
<1> QED
  BY <1>1, <1>2 DEF RingInv

(* New timers are due after those that were there. *)
LEMMA AppendedTimers ==
  ASSUME NEW r \in Seq(Timers), NEW t \in Seq(Timers)
  PROVE  /\ Len(r \o t) = Len(r) + Len(t)
         /\ \A i \in 1 .. Len(r) : (r \o t)[i] = r[i]
         /\ \A i \in 1 .. Len(t) : /\ Len(r) + i \in 1 .. Len(r \o t)
                                   /\ (r \o t)[Len(r) + i] = t[i]
  OBVIOUS

LEMMA AddAnchorSkips ==
  ASSUME IInv, SkipInv, NEW n \in 1 .. MaxBoxes, AddAnchor(n)
  PROVE  SkipInv'
<1> USE DEF IInv
<1>1. PICK s \in LoadedBoxes(count, count + n - 1) :
        /\ ring' = ring \o TimersOf(s)
        /\ audio' = [b \in BoxIds |->
                       IF \E i \in DOMAIN s : s[i] = b THEN "idle" ELSE audio[b]]
  BY DEF AddAnchor
<1>2. /\ count \in Nat /\ count + n - 1 \in Nat /\ count + n - 1 < MaxBoxes
      /\ anchors \in Nat /\ anchors' = anchors + 1 /\ step' = step /\ step \in Nat
      /\ count' = count + n /\ n \in Nat \ {0}
  BY GuidanceAssumption DEF GuidanceAssumption, AddAnchor, TypeOK
<1> DEFINE t == TimersOf(s)
<1>3. /\ t \in Seq(Timers) /\ Len(t) = 2 * Len(s)
      /\ \A i \in 1 .. Len(t) : t[i].kind \in {"play", "near"}
  BY <1>2, TimersOfLoaded
<1>4. /\ s \in Seq(count .. count + n - 1)
      /\ \A i \in 1 .. Len(s) : s[i] \in count .. count + n - 1
      /\ \A i, j \in 1 .. Len(s) : i < j => s[i] < s[j]
  BY <1>2, LoadedIncrease
<1>5. \A k \in 1 .. Len(s) : 2 * k - 1 \in 1 .. Len(t) /\ t[2 * k - 1] = PlayTimer(s[k])
  <2> TAKE k \in 1 .. Len(s)
  <2>1. /\ k \in Nat /\ 2 * k - 1 \in 1 .. 2 * Len(s)
        /\ (2 * k - 1) % 2 = 1 /\ ((2 * k - 1) + 1) \div 2 = k
    BY <1>4
  <2> QED
    BY <1>3, <2>1 DEF TimersOf
<1>6. ring \in Seq(Timers) /\ Len(ring) \in Nat /\ Len(t) \in Nat
  BY <1>3, <1>4 DEF TypeOK
<1> HIDE DEF t
<1>7. /\ Len(ring') = Len(ring) + Len(t)
      /\ \A i \in 1 .. Len(ring) : ring'[i] = ring[i]
      /\ \A i \in 1 .. Len(t) : /\ Len(ring) + i \in 1 .. Len(ring')
                                /\ ring'[Len(ring) + i] = t[i]
  <2>1. ring' = ring \o t
    BY <1>1 DEF t
  <2>2. /\ Len(ring \o t) = Len(ring) + Len(t)
        /\ \A i \in 1 .. Len(ring) : (ring \o t)[i] = ring[i]
        /\ \A i \in 1 .. Len(t) : /\ Len(ring) + i \in 1 .. Len(ring \o t)
                                  /\ (ring \o t)[Len(ring) + i] = t[i]
    BY <1>3, <1>6, AppendedTimers
  <2> QED
    BY <2>1, <2>2
<1>8. PlayTimersWait'
  <2> SUFFICES ASSUME NEW b \in BoxIds, audio'[b] = "idle"
               PROVE  InRing(PlayTimer(b))'
    BY DEF PlayTimersWait
  <2>1. CASE \E k \in DOMAIN s : s[k] = b
    <3>1. PICK k \in 1 .. Len(s) : s[k] = b
      BY <1>4, <2>1
    <3>2. PICK i \in 1 .. Len(t) : t[i] = PlayTimer(b)
      BY <1>5, <3>1
    <3>3. Len(ring) + i \in 1 .. Len(ring') /\ ring'[Len(ring) + i] = PlayTimer(b)
      BY <1>7, <3>2
    <3> QED
      BY <3>3 DEF InRing
  <2>2. CASE ~ \E k \in DOMAIN s : s[k] = b
    <3>1. audio[b] = "idle"
      BY <1>1, <2>2
    <3>2. PICK i \in 1 .. Len(ring) : ring[i] = PlayTimer(b)
      BY <3>1 DEF SkipInv, PlayTimersWait, InRing
    <3>3. i \in 1 .. Len(ring') /\ ring'[i] = PlayTimer(b)
      <4>1. i \in 1 .. Len(ring')
        BY <1>6, <1>7
      <4> QED
        BY <1>7, <3>2, <4>1
    <3> QED
      BY <3>3 DEF InRing
  <2> QED
    BY <2>1, <2>2
<1>9. NothingYet'
  BY <1>2 DEF NothingYet
<1>10. ASSUME anchors' <= 1 PROVE FirstIsDue' /\ NextIsDue' /\ NoIdlePassed'
  <2>1. count = 0 /\ step = 0 /\ step' = 0
    BY <1>2, <1>10 DEF SkipInv, NothingYet
  <2>2. ring[1] = CameraTimer /\ Len(ring) = 1
    <3>1. \A i \in 1 .. Len(ring) : ring[i] = CameraTimer
      <4> TAKE i \in 1 .. Len(ring)
      <4>1. ring[i] \in Timers
        BY <1>6
      <4>2. ring[i].box >= 0
        BY <4>1 DEF Timers, BoxIds
      <4>3. ring[i] = CameraTimer \/ ring[i].box < 0
        BY <2>1 DEF RingInv
      <4>4. ring[i].box \in Int
        BY <4>1 DEF Timers, BoxIds
      <4> QED
        BY <4>2, <4>3, <4>4
    <3>2. Len(ring) # 0
      BY DEF RingInv
    <3>3. 1 \in 1 .. Len(ring) /\ Len(ring) \in 1 .. Len(ring)
      BY <1>6, <3>2
    <3>4. 1 = Len(ring)
      BY <3>1, <3>3 DEF RingInv
    <3> QED
      BY <3>1, <3>3, <3>4
  <2>3. FirstIsDue'
    <3> SUFFICES ASSUME NEW b \in BoxIds, NEW c \in BoxIds,
                        b = 0, audio'[b] = "idle", InRing(NearTimer(c))'
                 PROVE  Before(PlayTimer(b), NearTimer(c))'
      BY DEF FirstIsDue
    <3>1. audio[b] = "none"
      BY <2>1 DEF FreshBoxes, BoxIds
    <3>2. \E k \in DOMAIN s : s[k] = b
      BY <1>1, <3>1
    <3>3. PICK k \in 1 .. Len(s) : s[k] = 0
      BY <1>4, <3>2
    <3>4. k = 1
      <4>1. 1 \in 1 .. Len(s) /\ s[1] >= 0 /\ s[1] \in Int
        BY <1>2, <1>4, <2>1, <3>3
      <4>2. 1 < k => s[1] < s[k]
        BY <1>4, <3>3, <4>1
      <4> QED
        BY <3>3, <4>1, <4>2
    <3>5. ring'[2] = PlayTimer(b) /\ 2 \in 1 .. Len(ring')
      <4>1. 1 \in 1 .. Len(t) /\ t[1] = PlayTimer(b)
        BY <1>5, <3>3, <3>4
      <4> QED
        BY <1>6, <1>7, <2>2, <4>1
    <3>6. PICK j \in 1 .. Len(ring') : ring'[j] = NearTimer(c)
      BY DEF InRing
    <3>7. j # 1 /\ j # 2
      <4>1. ring'[1] = CameraTimer
        BY <1>7, <2>2
      <4> QED
        BY <3>5, <3>6, <4>1 DEF CameraTimer, PlayTimer, NearTimer
    <3>8. 2 < j
      BY <3>7, <1>6, <1>7
    <3> QED
      BY <3>5, <3>6, <3>8 DEF Before
  <2>4. NextIsDue'
    BY <2>1 DEF NextIsDue, BoxIds
  <2>5. NoIdlePassed'
    BY <2>1 DEF NoIdlePassed, BoxIds
  <2> QED
    BY <2>3, <2>4, <2>5
<1> QED
  BY <1>8, <1>9, <1>10 DEF SkipInv

LEMMA FirePlaySkips ==
  ASSUME IInv, SkipInv, NEW b \in BoxIds, FirePlay(b)
  PROVE  SkipInv'
<1> USE DEF IInv
<1>1. /\ ring \in Seq(Timers) /\ ring # <<>> /\ Head(ring) = PlayTimer(b)
      /\ ring' \in {Rotate, DropPlayTimer}
      /\ UNCHANGED <<count, step, coolDown, resets, anchors>>
  BY HeadOfRing DEF FirePlay, DropPlayTimer, WaitForTurn
<1>2. ASSUME NEW c \in BoxIds, audio'[c] = "idle"
      PROVE  /\ audio[c] = "idle"
             /\ step = c => Head(ring) # PlayTimer(c)
             /\ Head(ring) # PlayTimer(c) \/ ring' = Rotate
  <2>1. CASE IsCurrent(b) /\ audio' = [audio EXCEPT ![b] = "playing"]
    <3>1. c # b /\ audio[c] = "idle"
      BY <1>2, <2>1 DEF TypeOK
    <3> QED
      BY <1>1, <3>1 DEF PlayTimer
  <2>2. CASE ~ IsCurrent(b) /\ ring' = WaitForTurn /\ UNCHANGED audio
    <3>1. audio[c] = "idle" /\ ring' = Rotate
      BY <1>2, <2>2 DEF WaitForTurn, Rotate
    <3>2. c < count
      <4>1. ~ (c >= count)
        BY <3>1 DEF FreshBoxes
      <4> QED
        BY <4>1 DEF BoxIds, TypeOK
    <3>3. step = c => c # b
      BY <2>2, <3>2 DEF IsCurrent
    <3> QED
      BY <1>1, <3>1, <3>3 DEF PlayTimer
  <2> QED
    BY <2>1, <2>2 DEF FirePlay
<1>3. PlayTimersWait'
  <2> SUFFICES ASSUME NEW c \in BoxIds, audio'[c] = "idle"
               PROVE  InRing(PlayTimer(c))'
    BY DEF PlayTimersWait
  <2>1. InRing(PlayTimer(c)) /\ (Head(ring) # PlayTimer(c) \/ ring' = Rotate)
    BY <1>2 DEF SkipInv, PlayTimersWait
  <2> QED
    BY <1>1, <2>1, OrderKept
<1>4. NothingYet'
  BY <1>1 DEF SkipInv, NothingYet
<1>5. ASSUME anchors' <= 1 PROVE FirstIsDue' /\ NextIsDue' /\ NoIdlePassed'
  <2>1. FirstIsDue /\ NextIsDue /\ NoIdlePassed
    BY <1>1, <1>5 DEF SkipInv
  <2>2. FirstIsDue'
    <3> SUFFICES ASSUME NEW c \in BoxIds, NEW d \in BoxIds,
                        c = 0, step = 0, audio'[c] = "idle", InRing(NearTimer(d))'
                 PROVE  Before(PlayTimer(c), NearTimer(d))'
      BY <1>1 DEF FirstIsDue
    <3>1. InRing(NearTimer(d))
      BY <1>1, OrderKept
    <3>2. Before(PlayTimer(c), NearTimer(d)) /\ Head(ring) # PlayTimer(c)
      BY <1>2, <2>1, <3>1 DEF FirstIsDue
    <3> QED
      BY <1>1, <3>2, OrderKept
  <2>3. NextIsDue'
    <3> SUFFICES ASSUME NEW c \in BoxIds, c > 0, step = c, audio'[c] = "idle"
                 PROVE  /\ resets # <<>> /\ resets[1] > 0
                        /\ resets[1] = 1 => Before(PlayTimer(c), CameraTimer)'
      BY <1>1 DEF NextIsDue
    <3>1. /\ resets # <<>> /\ resets[1] > 0 /\ Head(ring) # PlayTimer(c)
          /\ resets[1] = 1 => Before(PlayTimer(c), CameraTimer)
      BY <1>2, <2>1 DEF NextIsDue
    <3> QED
      BY <1>1, <3>1, OrderKept
  <2>4. NoIdlePassed'
    BY <1>1, <1>2, <2>1 DEF NoIdlePassed
  <2> QED
    BY <2>2, <2>3, <2>4
<1> QED
  BY <1>3, <1>4, <1>5 DEF SkipInv

LEMMA FireNearSkips ==
  ASSUME IInv, SkipInv, CoolDownHasItsReset, NEW b \in BoxIds, FireNear(b)
  PROVE  SkipInv'
<1> USE DEF IInv
<1>1. /\ ring \in Seq(Timers) /\ ring # <<>> /\ Head(ring) = NearTimer(b)
      /\ ring' \in {Rotate, DropPlayTimer} /\ ring' = Rotate
      /\ count' = count /\ anchors' = anchors
  BY HeadOfRing DEF FireNear
<1>2. /\ \A c \in BoxIds : audio'[c] = "idle" => audio[c] = "idle"
      /\ \A c \in BoxIds : Head(ring) # PlayTimer(c)
  BY <1>1 DEF FireNear, Silenced, TypeOK, PlayTimer, NearTimer
<1>3. PlayTimersWait'
  BY <1>1, <1>2, OrderKept DEF SkipInv, PlayTimersWait
<1>4. NothingYet'
  <2>1. InRing(NearTimer(b))
    BY <1>1, HeadOfRing DEF InRing
  <2>2. count # 0
    BY <2>1 DEF RingInv, InRing, NearTimer, CameraTimer, BoxIds
  <2> QED
    BY <1>1, <2>2 DEF SkipInv, NothingYet
<1>5. ASSUME anchors' <= 1 PROVE FirstIsDue' /\ NextIsDue' /\ NoIdlePassed'
  <2>1. FirstIsDue /\ NextIsDue /\ NoIdlePassed
    BY <1>1, <1>5 DEF SkipInv
  <2>2. \A c, d \in BoxIds :
          c = 0 /\ step = 0 /\ audio'[c] = "idle" /\ InRing(NearTimer(d))'
            => Before(PlayTimer(c), NearTimer(d)) /\ Before(PlayTimer(c), NearTimer(d))'
    <3> SUFFICES ASSUME NEW c \in BoxIds, NEW d \in BoxIds,
                        c = 0, step = 0, audio'[c] = "idle", InRing(NearTimer(d))'
                 PROVE  /\ Before(PlayTimer(c), NearTimer(d))
                        /\ Before(PlayTimer(c), NearTimer(d))'
      OBVIOUS
    <3>1. InRing(NearTimer(d))
      BY <1>1, OrderKept
    <3>2. Before(PlayTimer(c), NearTimer(d)) /\ Head(ring) # PlayTimer(c)
      BY <1>2, <2>1, <3>1 DEF FirstIsDue
    <3> QED
      BY <1>1, <3>2, OrderKept
  <2>3. CASE UNCHANGED <<step, coolDown, resets>>
    <3>1. FirstIsDue'
      BY <2>2, <2>3 DEF FirstIsDue
    <3>2. NextIsDue'
      <4> SUFFICES ASSUME NEW c \in BoxIds, c > 0, step = c, audio'[c] = "idle"
                   PROVE  /\ resets # <<>> /\ resets[1] > 0
                          /\ resets[1] = 1 => Before(PlayTimer(c), CameraTimer)'
        BY <2>3 DEF NextIsDue
      <4>1. /\ resets # <<>> /\ resets[1] > 0 /\ Head(ring) # PlayTimer(c)
            /\ resets[1] = 1 => Before(PlayTimer(c), CameraTimer)
        BY <1>2, <2>1 DEF NextIsDue
      <4> QED
        BY <1>1, <4>1, OrderKept
    <3>3. NoIdlePassed'
      BY <1>2, <2>1, <2>3 DEF NoIdlePassed
    <3> QED
      BY <3>1, <3>2, <3>3
  <2>4. CASE ~ coolDown /\ step' = step + 1 /\ resets' = Append(resets, CoolDownTicks)
    <3>1. resets = <<>> /\ step \in Nat
      BY <2>4 DEF CoolDownHasItsReset, TypeOK
    <3>2. resets' # <<>> /\ resets'[1] = CoolDownTicks
      BY <2>4, <3>1
    <3>3. \A c \in BoxIds : audio'[c] = "idle" => step # c
      <4> SUFFICES ASSUME NEW c \in BoxIds, audio'[c] = "idle", step = c
                   PROVE  FALSE
        OBVIOUS
      <4>1. c = 0
        BY <1>2, <2>1, <3>1 DEF NextIsDue, BoxIds
      <4>2. InRing(NearTimer(b))
        BY <1>1, HeadOfRing DEF InRing
      <4>3. Before(PlayTimer(c), NearTimer(b))
        BY <1>2, <2>1, <4>1, <4>2 DEF FirstIsDue
      <4> QED
        BY <1>1, <4>3, HeadIsAhead
    <3>4. NoIdlePassed'
      BY <1>2, <2>1, <2>4, <3>1, <3>3 DEF NoIdlePassed, BoxIds
    <3>5. FirstIsDue'
      BY <2>4, <3>1 DEF FirstIsDue
    <3>6. NextIsDue'
      BY <3>2, CoolDownIsLong, GuidanceAssumption
      DEF NextIsDue, CoolDownIsLong, GuidanceAssumption
    <3> QED
      BY <3>4, <3>5, <3>6
  <2> QED
    BY <2>3, <2>4 DEF FireNear, MayAdvance, ScheduleReset
<1> QED
  BY <1>3, <1>4, <1>5 DEF SkipInv

LEMMA CameraTickSkips ==
  ASSUME IInv, SkipInv, CoolDownHasItsReset, CameraTick
  PROVE  SkipInv'
<1> USE DEF IInv
<1>1. /\ ring \in Seq(Timers) /\ ring # <<>> /\ Head(ring) = CameraTimer
      /\ ring' \in {Rotate, DropPlayTimer} /\ ring' = Rotate
      /\ UNCHANGED <<count, step, audio, anchors>>
  BY HeadOfRing DEF CameraTick
<1>2. \A c \in BoxIds : CameraTimer # PlayTimer(c)
  BY DEF PlayTimer, CameraTimer
<1>3. PlayTimersWait'
  BY <1>1, <1>2, OrderKept DEF SkipInv, PlayTimersWait
<1>4. NothingYet'
  BY <1>1 DEF SkipInv, NothingYet
<1>5. ASSUME anchors' <= 1 PROVE FirstIsDue' /\ NextIsDue' /\ NoIdlePassed'
  <2>1. FirstIsDue /\ NextIsDue /\ NoIdlePassed
    BY <1>1, <1>5 DEF SkipInv
  <2>2. FirstIsDue'
    <3> SUFFICES ASSUME NEW c \in BoxIds, NEW d \in BoxIds,
                        c = 0, step = 0, audio[c] = "idle", InRing(NearTimer(d))'
                 PROVE  Before(PlayTimer(c), NearTimer(d))'
      BY <1>1 DEF FirstIsDue
    <3>1. InRing(NearTimer(d))
      BY <1>1, OrderKept
    <3>2. Before(PlayTimer(c), NearTimer(d)) /\ Head(ring) # PlayTimer(c)
      BY <1>1, <1>2, <2>1, <3>1 DEF FirstIsDue
    <3> QED
      BY <1>1, <3>2, OrderKept
  <2>3. NextIsDue'
    <3> SUFFICES ASSUME NEW c \in BoxIds, c > 0, step = c, audio[c] = "idle"
                 PROVE  /\ resets' # <<>> /\ resets'[1] > 0
                        /\ Before(PlayTimer(c), CameraTimer)'
      BY <1>1 DEF NextIsDue
    <3>1. /\ resets # <<>> /\ resets[1] > 0
          /\ resets[1] = 1 => Before(PlayTimer(c), CameraTimer)
      BY <2>1 DEF NextIsDue
    <3>2. resets[1] # 1
      BY <1>1, <3>1, HeadIsAhead
    <3>3. resets \in Seq(0 .. CoolDownTicks) /\ 1 \in DOMAIN resets /\ resets[1] \in Nat
      BY <3>1, GuidanceAssumption DEF TypeOK, GuidanceAssumption
    <3>4. resets'[1] = resets[1] - 1 /\ resets' # <<>>
      BY <3>1, <3>3 DEF CameraTick
    <3>5. InRing(PlayTimer(c)) /\ Head(ring) # PlayTimer(c)
      BY <1>1, <1>2 DEF SkipInv, PlayTimersWait
    <3>6. Before(PlayTimer(c), CameraTimer)'
      BY <1>1, <1>2, <3>5, OrderKept
    <3> QED
      BY <3>1, <3>2, <3>3, <3>4, <3>6
  <2>4. NoIdlePassed'
    BY <1>1, <2>1 DEF NoIdlePassed
  <2> QED
    BY <2>2, <2>3, <2>4
<1> QED
  BY <1>3, <1>4, <1>5 DEF SkipInv

LEMMA CoolDownOverSkips ==
  ASSUME IInv, SkipInv, CoolDownOver
  PROVE  SkipInv'
<1>1. /\ UNCHANGED <<count, ring, step, audio, anchors>>
      /\ resets # <<>> /\ resets[1] = 0
  BY DEF CoolDownOver, IInv, TypeOK
<1>2. PlayTimersWait' /\ NothingYet'
  BY <1>1 DEF SkipInv, PlayTimersWait, NothingYet, InRing
<1>3. anchors' <= 1 => FirstIsDue' /\ NoIdlePassed'
  BY <1>1 DEF SkipInv, FirstIsDue, NoIdlePassed, InRing, Before
<1>4. anchors' <= 1 => NextIsDue'
  BY <1>1 DEF SkipInv, NextIsDue
<1> QED
  BY <1>2, <1>3, <1>4 DEF SkipInv

(* As long as the boxes come from one anchor, `step` never passes a box     *)
(* whose sound is loaded and has not been started, however the timers fire. *)
THEOREM NoneSkipped == Spec => []NoStopSkipped
<1>1. Init => SkipInv
  <2> SUFFICES ASSUME Init PROVE SkipInv
    OBVIOUS
  <2>1. \A b \in BoxIds : audio[b] # "idle"
    BY DEF Init
  <2>2. PlayTimersWait /\ NextIsDue /\ NoIdlePassed /\ FirstIsDue
    BY <2>1 DEF PlayTimersWait, NextIsDue, NoIdlePassed, FirstIsDue
  <2>3. NothingYet
    BY DEF Init, NothingYet
  <2> QED
    BY <2>2, <2>3 DEF SkipInv
<1>2. ASSUME IInv, CoolDownHasItsReset, SkipInv, [Next]_vars
      PROVE  SkipInv'
  <2>1. CASE \E n \in 1 .. MaxBoxes : AddAnchor(n)
    BY <1>2, <2>1, AddAnchorSkips
  <2>2. CASE \E b \in BoxIds : FirePlay(b)
    BY <1>2, <2>2, FirePlaySkips
  <2>3. CASE \E b \in BoxIds : FireNear(b)
    BY <1>2, <2>3, FireNearSkips
  <2>4. CASE CameraTick
    BY <1>2, <2>4, CameraTickSkips
  <2>5. CASE CoolDownOver
    BY <1>2, <2>5, CoolDownOverSkips
  <2>6. CASE UNCHANGED vars
    <3>1. UNCHANGED <<count, ring, step, resets, audio, anchors>>
      BY <2>6 DEF vars
    <3> QED
      BY <1>2, <3>1
      DEF SkipInv, PlayTimersWait, NothingYet, FirstIsDue, NextIsDue, NoIdlePassed,
          InRing, Before
  <2> QED
    BY <1>2, <2>1, <2>2, <2>3, <2>4, <2>5, <2>6 DEF Next, RunLoop
<1>3. SkipInv => NoStopSkipped
  BY DEF SkipInv, NoIdlePassed, NoStopSkipped
<1> QED
  BY <1>1, <1>2, <1>3, Inductive, CoolDownPaired, PTL DEF Spec

=============================================================================
