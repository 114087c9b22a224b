------------------------- MODULE FocusEntityProofs -------------------------
(***************************************************************************)
(* Proofs about the focus square, for any set of views and any length of   *)
(* the two histories.                                                      *)
(***************************************************************************)
EXTENDS FocusEntity, FunctionTheorems, FiniteSetTheorems, TLAPS

(* A square that has just turned on estimates has the majority of the       *)
(* recent alignments behind it.                                             *)
TurnedByMost == turned => alignment \in Alignments /\ Most(alignment, alignments)

IInv == TypeOK /\ Consistent /\ SegmentInPlace /\ FollowsItsView /\ TurnedByMost

-----------------------------------------------------------------------------
(***************************************************************************)
(* Lemmas about the histories.                                             *)
(***************************************************************************)

(* How many elements a history of n loses when it takes one more.           *)
Dropped(s, n) == IF Len(s) < n THEN 0 ELSE 1

(* A history that takes one more element drops its oldest beyond n.         *)
LEMMA RecentShifts ==
  ASSUME NEW S, NEW s \in Seq(S), NEW e \in S, NEW n \in Nat \ {0}, Len(s) <= n
  PROVE  /\ Recent(Append(s, e), n) \in Seq(S)
         /\ Len(Recent(Append(s, e), n)) = Len(s) + 1 - Dropped(s, n)
         /\ \A i \in 1 .. Len(Recent(Append(s, e), n)) :
              Recent(Append(s, e), n)[i] =
                IF i = Len(Recent(Append(s, e), n)) THEN e ELSE s[i + Dropped(s, n)]
<1> DEFINE u == Append(s, e)
<1>1. u \in Seq(S) /\ Len(s) \in Nat /\ Len(u) = Len(s) + 1
      /\ \A i \in 1 .. Len(u) : u[i] = IF i = Len(u) THEN e ELSE s[i]
  OBVIOUS
<1> HIDE DEF u
<1>2. CASE Len(s) < n
  <2>1. Len(u) <= n /\ Dropped(s, n) = 0
    BY <1>1, <1>2 DEF Dropped
  <2>2. Recent(u, n) = SubSeq(u, 1, Len(u))
    BY <2>1, Zenon DEF Recent
  <2> QED  BY <2>1, <2>2, <1>1, <1>2 DEF u
<1>3. CASE ~ Len(s) < n
  <2>1. Len(s) = n /\ ~ Len(u) <= n /\ Len(u) - n + 1 = 2 /\ Dropped(s, n) = 1
    BY <1>1, <1>3 DEF Dropped
  <2>2. Recent(u, n) = SubSeq(u, 2, Len(u))
    BY <2>1, Zenon DEF Recent
  <2> QED  BY <2>1, <2>2, <1>1, <1>3 DEF u
<1> QED  BY <1>2, <1>3

(* Counts are numbers, and the two alignments share a history.              *)
LEMMA CountsAddUp ==
  ASSUME NEW s \in Seq(Alignments)
  PROVE  /\ \A a : Count(s, a) \in Nat
         /\ Count(s, "horizontal") + Count(s, "vertical") = Len(s)
<1> DEFINE At(a) == {i \in DOMAIN s : s[i] = a}
<1>1. DOMAIN s = 1 .. Len(s) /\ Len(s) \in Nat
  OBVIOUS
<1>2. IsFiniteSet(1 .. Len(s)) /\ Cardinality(1 .. Len(s)) = Len(s)
  BY <1>1, FS_Interval
<1>3. \A a : IsFiniteSet(At(a)) /\ Cardinality(At(a)) \in Nat
  <2> TAKE a
  <2>1. IsFiniteSet(At(a))
    BY <1>1, <1>2, FS_Subset
  <2> QED  BY <2>1, FS_CardinalityType
<1>4. At("horizontal") \cup At("vertical") = 1 .. Len(s)
  <2>1. \A i \in 1 .. Len(s) : s[i] = "horizontal" \/ s[i] = "vertical"
    BY <1>1 DEF Alignments
  <2>2. At("horizontal") \subseteq 1 .. Len(s) /\ At("vertical") \subseteq 1 .. Len(s)
    BY <1>1
  <2>3. \A i \in 1 .. Len(s) : i \in At("horizontal") \/ i \in At("vertical")
    BY <1>1, <2>1
  <2> HIDE DEF At
  <2> QED  BY <2>2, <2>3, Zenon
<1>5. At("horizontal") \cap At("vertical") = {}
  OBVIOUS
<1>6. \A a : Count(s, a) = Cardinality(At(a))
  BY Zenon DEF Count
<1> HIDE DEF At
<1>7. Cardinality(At("horizontal") \cup At("vertical")) =
        Cardinality(At("horizontal")) + Cardinality(At("vertical"))
          - Cardinality(At("horizontal") \cap At("vertical"))
  BY <1>3, FS_Union, Zenon
<1>8. Cardinality(At("horizontal") \cap At("vertical")) = 0
  BY <1>5, FS_EmptySet, Zenon
<1>9. /\ Count(s, "horizontal") = Cardinality(At("horizontal"))
      /\ Count(s, "vertical") = Cardinality(At("vertical"))
      /\ Cardinality(At("horizontal")) \in Nat
      /\ Cardinality(At("vertical")) \in Nat
  BY <1>3, <1>6, Zenon
<1>10. Len(s) = Cardinality(At("horizontal")) + Cardinality(At("vertical")) - 0
  BY <1>2, <1>4, <1>7, <1>8, Zenon
<1>11. \A a : Count(s, a) \in Nat
  BY <1>3, <1>6, Zenon
<1>12. Count(s, "horizontal") + Count(s, "vertical") = Len(s)
  BY <1>9, <1>10
<1> QED  BY <1>11, <1>12

(* One more frame adds at most one to a count.                              *)
LEMMA CountGrowsByOne ==
  ASSUME NEW s \in Seq(Alignments), NEW e \in Alignments, NEW n \in Nat \ {0}, Len(s) <= n,
         NEW a
  PROVE  Count(Recent(Append(s, e), n), a) <= Count(s, a) + 1
<1> DEFINE t == Recent(Append(s, e), n)
           k == Dropped(s, n)
           S == {i \in DOMAIN s : s[i] = a}
           T == {i \in DOMAIN t : t[i] = a}
           U == T \ {Len(t)}
           g == [i \in U |-> i + k]
<1>1. /\ t \in Seq(Alignments)
      /\ Len(t) = Len(s) + 1 - k
      /\ \A i \in 1 .. Len(t) : t[i] = IF i = Len(t) THEN e ELSE s[i + k]
  BY RecentShifts
<1> HIDE DEF t
<1>2. k \in {0, 1} /\ Len(s) \in Nat /\ DOMAIN s = 1 .. Len(s) /\ DOMAIN t = 1 .. Len(t)
  BY <1>1 DEF Dropped
<1> HIDE DEF k
<1>3. \A i \in U : i + k \in S
  <2> TAKE i \in U
  <2>1. i \in 1 .. Len(t) /\ i # Len(t) /\ t[i] = a
    BY <1>2
  <2>2. i + k \in 1 .. Len(s) /\ s[i + k] = a
    BY <2>1, <1>1, <1>2
  <2> QED  BY <2>2, <1>2
<1>4. IsFiniteSet(S) /\ Cardinality(S) \in Nat
  <2>1. IsFiniteSet(1 .. Len(s))
    BY <1>2, FS_Interval
  <2>2. IsFiniteSet(S)
    BY <2>1, <1>2, FS_Subset
  <2> QED  BY <2>2, FS_CardinalityType
<1>5. g \in Injection(U, S)
  <2>1. g \in [U -> S]
    BY <1>3
  <2>2. \A i, j \in U : g[i] = g[j] => i = j
    BY <1>1, <1>2
  <2> QED  BY <2>1, <2>2 DEF Injection, IsInjective
<1>6. IsFiniteSet(U) /\ Cardinality(U) <= Cardinality(S)
  BY <1>4, <1>5, FS_Injection
<1>7. Cardinality(U) \in Nat
  BY <1>6, FS_CardinalityType
<1>8. /\ IsFiniteSet(U \cup {Len(t)})
      /\ Cardinality(U \cup {Len(t)}) <= Cardinality(U) + 1
  <2>1. IsFiniteSet(U \cup {Len(t)})
        /\ Cardinality(U \cup {Len(t)}) = IF Len(t) \in U THEN Cardinality(U)
                                           ELSE Cardinality(U) + 1
    BY <1>6, FS_AddElement, Zenon
  <2> QED  BY <2>1, <1>7
<1>9. Cardinality(T) <= Cardinality(U \cup {Len(t)})
  <2>1. T \in SUBSET (U \cup {Len(t)})
    OBVIOUS
  <2> QED  BY <2>1, <1>8, FS_Subset
<1>10. Cardinality(T) \in Nat /\ Cardinality(U \cup {Len(t)}) \in Nat
  <2>1. T \in SUBSET (U \cup {Len(t)})
    OBVIOUS
  <2>2. IsFiniteSet(T)
    BY <2>1, <1>8, FS_Subset
  <2> QED  BY <2>2, <1>8, FS_CardinalityType
<1>11. Cardinality(T) <= Cardinality(S) + 1
  BY <1>4, <1>6, <1>7, <1>8, <1>9, <1>10
<1> QED  BY <1>11 DEF Count, t

(* The thresholds in numbers: a history of m entries, of which x agree with  *)
(* the square and y do not, becomes one of k entries of which z do not.      *)
LEMMA VerticalMajority ==
  ASSUME NEW m \in Nat, NEW k \in Nat, k = m + 1 \/ (k = m /\ m >= 2),
         NEW x \in Nat, NEW y \in Nat, x + y = m, x > m \div 2,
         NEW z \in Nat, z <= y + 1
  PROVE  ~ z > (k * 3) \div 4
<1>1. m \div 2 \in Nat /\ m <= 2 * (m \div 2) + 1
  BY SMTT(30)
<1>2. 2 * z <= m + 1
  BY <1>1
<1>3. (k * 3) \div 4 \in Nat /\ 3 * k <= 4 * ((k * 3) \div 4) + 3
  BY SMTT(30)
<1>4. m >= 1
  BY <1>1
<1> QED  BY <1>2, <1>3, <1>4, SMTT(30)

LEMMA HorizontalMajority ==
  ASSUME NEW m \in Nat, NEW k \in Nat, k = m + 1 \/ (k = m /\ m >= 2),
         NEW x \in Nat, NEW y \in Nat, x + y = m, x > (m * 3) \div 4,
         NEW z \in Nat, z <= y + 1
  PROVE  ~ z > k \div 2
<1>1. (m * 3) \div 4 \in Nat /\ 3 * m <= 4 * ((m * 3) \div 4) + 3
  BY SMTT(30)
<1>2. 4 * x >= 3 * m + 1
  BY <1>1
<1>3. k \div 2 \in Nat /\ k <= 2 * (k \div 2) + 1
  BY SMTT(30)
<1>4. 4 * z <= m + 3
  BY <1>2
<1> QED  BY <1>3, <1>4, SMTT(30)

(* One more element of a history cannot take the majority from the other    *)
(* alignment to its own: the thresholds of Most are apart by more than one. *)
LEMMA MajorityStays ==
  ASSUME NEW s \in Seq(Alignments), NEW n \in Nat \ {0, 1}, Len(s) <= n,
         NEW a \in Alignments, NEW e \in Alignments, e # a, Most(a, s)
  PROVE  ~ Most(e, Recent(Append(s, e), n))
<1> DEFINE t == Recent(Append(s, e), n)
<1>1. Len(s) \in Nat /\ (Len(t) = Len(s) + 1 \/ (Len(t) = Len(s) /\ Len(s) >= 2))
  <2>1. Len(t) = Len(s) + 1 - Dropped(s, n)
    BY RecentShifts
  <2> QED  BY <2>1 DEF Dropped
<1>2. /\ Count(s, a) \in Nat
      /\ Count(s, e) \in Nat
      /\ Count(s, a) + Count(s, e) = Len(s)
  BY CountsAddUp DEF Alignments
<1>3. Count(t, e) \in Nat /\ Count(t, e) <= Count(s, e) + 1
  BY CountsAddUp, CountGrowsByOne, RecentShifts
<1> HIDE DEF t
<1>4. Len(t) \in Nat
  BY <1>1
<1>5. CASE a = "vertical"
  <2>1. Count(s, a) > Len(s) \div 2 /\ e = "horizontal"
    BY <1>5 DEF Most, Alignments
  <2>2. ~ Count(t, e) > (Len(t) * 3) \div 4
    BY <2>1, <1>1, <1>2, <1>3, <1>4, VerticalMajority
  <2> QED  BY <2>1, <2>2 DEF Most, t
<1>6. CASE a = "horizontal"
  <2>1. Count(s, a) > (Len(s) * 3) \div 4 /\ e = "vertical"
    BY <1>6 DEF Most, Alignments
  <2>2. ~ Count(t, e) > Len(t) \div 2
    BY <2>1, <1>1, <1>2, <1>3, <1>4, HorizontalMajority
  <2> QED  BY <2>1, <2>2 DEF Most, t
<1> QED  BY <1>5, <1>6 DEF Alignments

-----------------------------------------------------------------------------
(***************************************************************************)
(* The inductive invariant.                                                *)
(***************************************************************************)

(* Two values that make up the alignments are two different alignments.     *)
LEMMA BothAlignments ==
  ASSUME NEW x, NEW y, {x, y} = Alignments
  PROVE  x \in Alignments /\ y \in Alignments /\ x # y
<1>1. x \in Alignments /\ y \in Alignments
  OBVIOUS
<1>2. "horizontal" \in {x, y} /\ "vertical" \in {x, y}
  BY DEF Alignments
<1>3. x # y
  BY <1>2
<1> QED  BY <1>1, <1>3

(* The histories keep their type and their length.                          *)
LEMMA RecentTypes ==
  ASSUME NEW S, NEW s \in Seq(S), NEW e \in S, NEW n \in Nat \ {0}, Len(s) <= n
  PROVE  Recent(Append(s, e), n) \in Seq(S) /\ Len(Recent(Append(s, e), n)) <= n
BY RecentShifts DEF Dropped

(* Placing keeps the type of the positions.                                  *)
LEMMA PlaceTypes ==
  ASSUME NEW source \in {"camera", "surface"}, IInv, Place(source)
  PROVE  positions' \in Seq({"camera", "surface"}) /\ Len(positions') <= PositionWindow
<1>1. positions' = Recent(Append(positions, source), PositionWindow)
  BY DEF Place
<1>2. positions \in Seq({"camera", "surface"}) /\ Len(positions) <= PositionWindow
  BY DEF IInv, TypeOK
<1>3. PositionWindow \in Nat \ {0}
  BY FocusAssumption
<1> QED  BY <1>1, <1>2, <1>3, RecentTypes, Zenon

(* Redrawing leaves the segments where they belong.                         *)
LEMMA RedrawInv ==
  ASSUME NEW open \in BOOLEAN, IInv, Redraw(open)
  PROVE  /\ isOpen' = open
         /\ SegmentInPlace'
         /\ segment' \in [length : {Length, OpenLength}, shift : Int]
         /\ scale' \in {"closed", "full"}
<1>1. isOpen' = open /\ segment = (IF isOpen THEN OpenSegment ELSE ClosedSegment)
      /\ isOpen \in BOOLEAN
  BY DEF Redraw, IInv, SegmentInPlace, TypeOK
<1>2. Opened(ClosedSegment) = OpenSegment /\ Closed(OpenSegment) = ClosedSegment
  BY DEF Opened, Closed, OpenSegment, ClosedSegment, Length, OpenLength
<1>3. /\ OpenSegment \in [length : {Length, OpenLength}, shift : Int]
      /\ ClosedSegment \in [length : {Length, OpenLength}, shift : Int]
  BY DEF OpenSegment, ClosedSegment, Length, OpenLength
<1>4. segment' = IF open THEN OpenSegment ELSE ClosedSegment
  BY <1>1, <1>2, Zenon DEF Redraw
<1>5. scale' \in {"closed", "full"}
  BY DEF Redraw, IInv, TypeOK
<1> QED  BY <1>1, <1>3, <1>4, <1>5 DEF SegmentInPlace

(* The initial state.                                                       *)
LEMMA InitInv == Init => IInv
<1> SUFFICES ASSUME Init PROVE IInv
  OBVIOUS
<1>1. Opened(ClosedSegment) = OpenSegment
  BY DEF Opened, OpenSegment, ClosedSegment, Length, OpenLength
<1>2. OpenSegment \in [length : {Length, OpenLength}, shift : Int]
  BY DEF OpenSegment, Length, OpenLength
<1>3. TypeOK
  <2>1. <<>> \in Seq(Alignments) /\ <<>> \in Seq({"camera", "surface"}) /\ Len(<<>>) = 0
    OBVIOUS
  <2>2. AlignWindow >= 0 /\ PositionWindow >= 0
    BY FocusAssumption
  <2> QED  BY <1>1, <1>2, <2>1, <2>2, FocusAssumption DEF Init, TypeOK
<1>4. Consistent /\ SegmentInPlace /\ TurnedByMost
  BY <1>1 DEF Init, Consistent, SegmentInPlace, TurnedByMost
<1>5. FollowsItsView
  BY FocusAssumption DEF Init, FollowsItsView
<1> QED  BY <1>3, <1>4, <1>5 DEF IInv

(* A frame that hits a surface.                                             *)
LEMMA TrackInv ==
  ASSUME IInv, NEW h \in Surfaces, Track(h), UNCHANGED feed, hit' = h, tick' = ~ tick,
         turned' = (~ h.plane /\ {alignment, alignment'} = Alignments)
  PROVE  IInv'
<1>1. /\ h.plane \in BOOLEAN
      /\ h.alignment \in Alignments \cup {"any"}
      /\ h.plane => h.alignment \in Alignments
  BY DEF Surfaces
<1>2. /\ isOpen' = ~ h.plane
      /\ SegmentInPlace'
      /\ segment' \in [length : {Length, OpenLength}, shift : Int]
      /\ scale' \in {"closed", "full"}
  BY <1>1, RedrawInv DEF Track
<1>3. positions' \in Seq({"camera", "surface"}) /\ Len(positions') <= PositionWindow
  BY PlaceTypes DEF Track
<1>4. alignments' \in Seq(Alignments) /\ Len(alignments') <= AlignWindow
  <2>1. CASE h.alignment \in Alignments
    <3>1. alignments' = Recent(Append(alignments, h.alignment), AlignWindow)
      BY <2>1 DEF Track, Align
    <3> QED  BY <2>1, <3>1, RecentTypes, FocusAssumption DEF IInv, TypeOK
  <2>2. CASE h.alignment \notin Alignments
    BY <2>2 DEF Track, Align, IInv, TypeOK
  <2> QED  BY <2>1, <2>2
<1>5. alignment' = IF h.plane \/ Most(h.alignment, alignments') THEN h.alignment ELSE alignment
  BY DEF Track, Align
<1>6. alignment' \in Alignments \cup {None}
  <2>1. Most(h.alignment, alignments') => h.alignment \in Alignments
    BY DEF Most, Alignments
  <2> QED  BY <1>1, <1>5, <2>1 DEF IInv, TypeOK
<1>7. planeAnchor' = (IF h.plane THEN h.alignment ELSE None) /\ onPlane' = h.plane
      /\ phase' = "tracking"
  BY DEF Track
<1>8. TypeOK'
  BY <1>1, <1>2, <1>3, <1>4, <1>6, <1>7 DEF IInv, TypeOK, feed
<1>9. Consistent'
  BY <1>1, <1>2, <1>5, <1>7 DEF Consistent, None, Alignments
<1>10. FollowsItsView'
  BY DEF IInv, FollowsItsView, feed
<1>11. TurnedByMost'
  <2> SUFFICES ASSUME turned' PROVE alignment' \in Alignments /\ Most(alignment', alignments')
    BY DEF TurnedByMost
  <2>1. ~ h.plane /\ alignment' \in Alignments /\ alignment' # alignment
    BY BothAlignments
  <2> QED  BY <2>1, <1>5
<1> QED  BY <1>2, <1>8, <1>9, <1>10, <1>11 DEF IInv

(* A frame that hits nothing.                                               *)
LEMMA LoseInv ==
  ASSUME IInv, Lose, UNCHANGED feed, hit' = NoHit, tick' = ~ tick,
         turned' = (~ NoHit.plane /\ {alignment, alignment'} = Alignments)
  PROVE  IInv'
<1>1. positions' \in Seq({"camera", "surface"}) /\ Len(positions') <= PositionWindow
  BY PlaceTypes DEF Lose
<1>2. /\ alignment' = None
      /\ onPlane' = FALSE
      /\ isOpen' = TRUE
      /\ SegmentInPlace'
      /\ segment' \in [length : {Length, OpenLength}, shift : Int]
      /\ scale' \in {"closed", "full"}
  <2>1. CASE phase = "tracking"
    BY <2>1, RedrawInv DEF Lose
  <2>2. CASE phase # "tracking"
    <3>1. UNCHANGED <<onPlane, alignment, isOpen, segment, scale>>
      BY <2>2 DEF Lose
    <3>2. onPlane = FALSE /\ alignment = None /\ isOpen = TRUE
      BY <2>2 DEF IInv, TypeOK, Consistent
    <3> QED  BY <3>1, <3>2 DEF IInv, TypeOK, SegmentInPlace
  <2> QED  BY <2>1, <2>2
<1>3. phase' = "initializing" /\ UNCHANGED <<planeAnchor, alignments>>
  BY DEF Lose
<1>4. turned' = FALSE
  <2>1. None \notin Alignments
    BY DEF Alignments, None
  <2>2. alignment' \in {alignment, alignment'} /\ alignment' \notin Alignments
    BY <1>2, <2>1
  <2>3. {alignment, alignment'} # Alignments
    BY <2>2, Zenon
  <2> QED  BY <2>3, Zenon
<1>5. TypeOK'
  <2>1. TypeOK
    BY DEF IInv
  <2>2. hit' \in Surfaces \cup {NoHit} /\ turned' \in BOOLEAN /\ tick' \in BOOLEAN
    BY <1>4, <2>1 DEF TypeOK
  <2>3. /\ phase' \in {"initializing", "tracking"}
        /\ onPlane' \in BOOLEAN
        /\ isOpen' \in BOOLEAN
        /\ alignment' \in Alignments \cup {None}
    BY <1>2, <1>3
  <2>4. /\ planeAnchor' \in Alignments \cup {None}
        /\ alignments' \in Seq(Alignments) /\ Len(alignments') <= AlignWindow
    BY <1>3, <2>1 DEF TypeOK
  <2>5. /\ arView' \in Views \cup {NoView}
        /\ scene' \in Views \cup {NoView}
        /\ subscription' \in Views \cup {NoView}
        /\ isAutoUpdating' \in BOOLEAN
    BY <2>1 DEF TypeOK, feed
  <2> QED  BY <1>1, <1>2, <2>2, <2>3, <2>4, <2>5 DEF TypeOK
<1>6. Consistent'
  BY <1>2, <1>3 DEF Consistent
<1>7. FollowsItsView' /\ TurnedByMost'
  BY <1>4 DEF IInv, FollowsItsView, TurnedByMost, feed
<1> QED  BY <1>2, <1>5, <1>6, <1>7 DEF IInv

(* Every step keeps the invariant.                                          *)
LEMMA NextInv == IInv /\ [Next]_vars => IInv'
<1> SUFFICES ASSUME IInv, [Next]_vars PROVE IInv'
  OBVIOUS
<1>1. CASE Frame
  <2>1. PICK h \in Surfaces \cup {NoHit} :
          /\ IF h = NoHit THEN Lose ELSE Track(h)
          /\ hit' = h
          /\ turned' = (~ h.plane /\ {alignment, alignment'} = Alignments)
          /\ tick' = ~ tick
    BY <1>1 DEF Frame
  <2>2. UNCHANGED feed
    BY <1>1 DEF Frame
  <2>3. CASE h = NoHit
    BY <2>1, <2>2, <2>3, LoseInv
  <2>4. CASE h # NoHit
    BY <2>1, <2>2, <2>4, TrackInv
  <2> QED  BY <2>3, <2>4
<1>2. ASSUME UNCHANGED <<shape, history>>
      PROVE  /\ Consistent' /\ SegmentInPlace' /\ TurnedByMost'
             /\ (/\ arView' \in Views \cup {NoView}
                 /\ scene' \in Views \cup {NoView}
                 /\ subscription' \in Views \cup {NoView}
                 /\ isAutoUpdating' \in BOOLEAN) => TypeOK'
  BY <1>2 DEF IInv, TypeOK, Consistent, SegmentInPlace, TurnedByMost, shape, history
<1>3. ASSUME NEW on \in BOOLEAN, SetAutoUpdate(on) PROVE IInv'
  <2>1. UNCHANGED <<shape, history>>
    BY <1>3 DEF SetAutoUpdate
  <2>2. FollowsItsView'
    <3>1. /\ arView # NoView /\ arView' = arView /\ scene' = scene
          /\ isAutoUpdating' = on
          /\ subscription' = IF on THEN arView ELSE NoView
      BY <1>3 DEF SetAutoUpdate
    <3>2. scene = arView
      BY DEF IInv, FollowsItsView
    <3> QED  BY <3>1, <3>2, Zenon DEF FollowsItsView
  <2>3. TypeOK'
    BY <1>3, <1>2, <2>1 DEF SetAutoUpdate, IInv, TypeOK
  <2> QED  BY <1>2, <2>1, <2>2, <2>3 DEF IInv
<1>4. ASSUME NEW view \in Views, MoveTo(view) PROVE IInv'
  <2>1. UNCHANGED <<shape, history>>
    BY <1>4 DEF MoveTo
  <2>2. FollowsItsView'
    <3>1. scene' = view /\ arView' = view /\ view # NoView
      BY <1>4, FocusAssumption DEF MoveTo, IInv, TypeOK
    <3>2. isAutoUpdating' = isAutoUpdating
          /\ subscription' = IF isAutoUpdating THEN view ELSE NoView
      BY <1>4 DEF MoveTo
    <3> QED  BY <3>1, <3>2, Zenon DEF FollowsItsView
  <2>3. TypeOK'
    BY <1>4, <1>2, <2>1 DEF MoveTo, IInv, TypeOK
  <2> QED  BY <1>2, <2>1, <2>2, <2>3 DEF IInv
<1>5. CASE Destroy
  <2>1. UNCHANGED <<shape, history>>
    BY <1>5 DEF Destroy
  <2>2. FollowsItsView'
    <3>1. scene' = NoView
      BY <1>5 DEF Destroy, IInv, TypeOK
    <3> QED  BY <3>1, <1>5 DEF Destroy, FollowsItsView
  <2>3. TypeOK'
    BY <1>5, <1>2, <2>1 DEF Destroy, IInv, TypeOK
  <2> QED  BY <1>2, <2>1, <2>2, <2>3 DEF IInv
<1>6. CASE UNCHANGED vars
  BY <1>6 DEF vars, shape, feed, history, IInv, TypeOK, Consistent, SegmentInPlace,
              FollowsItsView, TurnedByMost
<1> QED  BY <1>1, <1>3, <1>4, <1>5, <1>6 DEF Next

THEOREM Inductive == Spec => []IInv
BY InitInv, NextInv, PTL DEF Spec

-----------------------------------------------------------------------------
(***************************************************************************)
(* Theorems.                                                               *)
(***************************************************************************)

(* Every variable of the square keeps its type, and the histories their     *)
(* length, for any windows.                                                 *)
THEOREM TypeCorrect == Spec => []TypeOK
<1>1. IInv => TypeOK
  BY DEF IInv
<1> QED  BY Inductive, <1>1, PTL

(* Whatever surfaces come and go, phase, plane, alignment and shape of the  *)
(* square agree, and its segments never drift, however often it opens and   *)
(* closes.                                                                  *)
THEOREM StaysRight == Spec => []SquareIsRight
<1>1. IInv => SquareIsRight
  BY DEF IInv, SquareIsRight
<1> QED  BY Inductive, <1>1, PTL

(* The square gets the updates of the scene it is in, and of no other.      *)
THEOREM UpdatesFollowView == Spec => []FollowsItsView
<1>1. IInv => FollowsItsView
  BY DEF IInv
<1> QED  BY Inductive, <1>1, PTL

(* For any window of at least two alignments the square never turns back    *)
(* and forth in two frames in a row on estimates alone.                     *)
THEOREM NeverFlickers == Spec => NoFlicker
<1>1. IInv /\ [Next]_vars => [turned /\ turned' => tick' = tick]_vars
  <2> SUFFICES ASSUME IInv, Next, turned, turned' PROVE tick' = tick
    BY DEF IInv
  <2>1. CASE Frame
    <3>1. PICK h \in Surfaces \cup {NoHit} :
            /\ IF h = NoHit THEN Lose ELSE Track(h)
            /\ turned' = (~ h.plane /\ {alignment, alignment'} = Alignments)
      BY <2>1 DEF Frame
    <3>2. /\ alignment \in Alignments /\ alignment' \in Alignments
          /\ alignment' # alignment /\ ~ h.plane
      BY <3>1, BothAlignments
    <3>3. Most(alignment, alignments)
      BY DEF IInv, TurnedByMost
    <3>4. CASE h = NoHit
      <4>1. alignment' = None \/ alignment' = alignment
        BY <3>1, <3>4 DEF Lose
      <4> QED  BY <3>2, <4>1 DEF Alignments, None
    <3>5. CASE h # NoHit
      <4>1. alignment' = h.alignment /\ Most(h.alignment, alignments')
        BY <3>1, <3>2, <3>5 DEF Track, Align
      <4>2. alignments' = Recent(Append(alignments, h.alignment), AlignWindow)
        BY <3>1, <3>2, <3>5, <4>1 DEF Track, Align
      <4>3. alignments \in Seq(Alignments) /\ Len(alignments) <= AlignWindow
        BY DEF IInv, TypeOK
      <4> QED  BY <3>2, <3>3, <4>1, <4>2, <4>3, MajorityStays, FocusAssumption
    <3> QED  BY <3>4, <3>5
  <2>2. CASE ~ Frame
    BY <2>2 DEF Next, SetAutoUpdate, MoveTo, Destroy, history
  <2> QED  BY <2>1, <2>2
<1> QED  BY Inductive, <1>1, PTL DEF Spec, NoFlicker

=============================================================================
