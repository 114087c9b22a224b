--------------------------- MODULE MapStoreProofs ---------------------------
(***************************************************************************)
(* Proofs about the places, for any directions and any number of places,   *)
(* drafts and points.  The first two parts are about removeDuplicates, a   *)
(* loop over an array: its model is a recursive function, and what it      *)
(* returns is found by induction on the number of elements seen.           *)
(***************************************************************************)
EXTENDS MapStore, TLAPS, FiniteSetTheorems, WellFoundedInduction

-----------------------------------------------------------------------------
(***************************************************************************)
(* Induction over the natural numbers, for a set in the place of a         *)
(* predicate, and the recursion it justifies.                              *)
(***************************************************************************)

(* A set that contains 0, and n + 1 with n, contains every natural number:  *)
(* otherwise there would be a smallest number that is missing.              *)
LEMMA SetInduction ==
  ASSUME NEW S, 0 \in S, \A n \in Nat : n \in S => n + 1 \in S
  PROVE  \A n \in Nat : n \in S
<1> DEFINE Smaller == {p \in Nat \X Nat : p[1] < p[2]}
           missing == Nat \ S
<1>1. Smaller = OpToRel(<, Nat)
  BY Zenon DEF OpToRel
<1>2. IsWellFoundedOn(Smaller, Nat)
  BY <1>1, NatLessThanWellFounded, Zenon
<1> SUFFICES ASSUME missing # {} PROVE FALSE
  OBVIOUS
<1>3. PICK n \in missing : \A m \in missing : ~ (<<m, n>> \in Smaller)
  BY <1>2, WFMin, Zenon
<1>4. n # 0 /\ n \in Nat
  OBVIOUS
<1>5. n - 1 \in Nat /\ n - 1 < n /\ (n - 1) + 1 = n
  BY <1>4
<1>6. n - 1 \notin missing
  BY <1>3, <1>4, <1>5
<1> QED
  BY <1>4, <1>5, <1>6

(* A step of a loop over 1 .. len takes an index and a value to a value of  *)
(* V; a run of the loop lists the values, from the first one on.            *)
IsStep(step, len, V) == step \in [(1 .. len) \X V -> V]

IsRun(f, step, base, len, V) ==
  /\ f \in [0 .. len -> V]
  /\ f[0] = base
  /\ \A n \in 1 .. len : f[n] = step[<<n, f[n - 1]>>]

(* Every such loop has a run, whatever its step does.                       *)
LEMMA LoopRuns ==
  ASSUME NEW V, NEW base \in V, NEW len \in Nat, NEW step, IsStep(step, len, V)
  PROVE  \E f : IsRun(f, step, base, len, V)
<1> DEFINE Run(f, k) ==
             f[0] = base /\ \A n \in 1 .. k : f[n] = step[<<n, f[n - 1]>>]
           ok == {k \in Nat : k <= len => \E f \in [0 .. k -> V] : Run(f, k)}
<1>1. 0 \in ok
  <2>1. [n \in 0 .. 0 |-> base] \in [0 .. 0 -> V] /\ Run([n \in 0 .. 0 |-> base], 0)
    OBVIOUS
  <2> QED
    BY <2>1
<1>2. ASSUME NEW k \in Nat, k \in ok
      PROVE  k + 1 \in ok
  <2> SUFFICES ASSUME k + 1 <= len
               PROVE  \E f \in [0 .. k + 1 -> V] : Run(f, k + 1)
    OBVIOUS
  <2>1. PICK f \in [0 .. k -> V] : Run(f, k)
    BY <1>2
  <2> DEFINE g == [n \in 0 .. k + 1 |-> IF n = k + 1 THEN step[<<n, f[k]>>] ELSE f[n]]
  <2>2. f[k] \in V /\ k + 1 \in 1 .. len
    OBVIOUS
  <2>3. step[<<k + 1, f[k]>>] \in V
    BY <2>2 DEF IsStep
  <2>4. g \in [0 .. k + 1 -> V]
    BY <2>3
  <2>5. g[0] = base
    BY <2>1
  <2>6. ASSUME NEW n \in 1 .. k + 1 PROVE g[n] = step[<<n, g[n - 1]>>]
    <3>1. CASE n = k + 1
      BY <3>1
    <3>2. CASE n \in 1 .. k
      BY <2>1, <3>2
    <3> QED
      BY <3>1, <3>2
  <2> QED
    BY <2>4, <2>5, <2>6
<1>3. len \in ok
  <2> HIDE DEF ok
  <2> QED
    BY <1>1, <1>2, SetInduction
<1> QED
  BY <1>3 DEF IsRun

-----------------------------------------------------------------------------
(***************************************************************************)
(* What removeDuplicates computes.                                         *)
(***************************************************************************)

Has(list, v) == \E i \in 1 .. Len(list) : list[i] = v

Distinct(list) == \A i, j \in 1 .. Len(list) : list[i] = list[j] => i = j

(* Whatever comes earlier in `result` occurs in `list` before the first      *)
(* occurrence of what comes later.                                          *)
InOrderOf(list, result) ==
  \A i, j \in 1 .. Len(result) :
    i < j => \E p \in 1 .. Len(list) :
               list[p] = result[i] /\ \A q \in 1 .. p : list[q] # result[j]

Keep(sofar, v) == IF Contains(sofar, v) THEN sofar ELSE Append(sofar, v)

LEMMA KeepAdds ==
  ASSUME NEW S, NEW s \in Seq(S), NEW v \in S
  PROVE  /\ Keep(s, v) \in Seq(S)
         /\ \A w : Has(Keep(s, v), w) <=> Has(s, w) \/ w = v
         /\ Distinct(s) => Distinct(Keep(s, v))
<1>1. CASE Contains(s, v)
  BY <1>1 DEF Keep, Has, Contains
<1>2. CASE ~ Contains(s, v)
  <2> DEFINE t == Append(s, v)
  <2>1. /\ Keep(s, v) = t /\ t \in Seq(S) /\ Len(t) = Len(s) + 1 /\ Len(s) \in Nat
        /\ \A i \in 1 .. Len(s) : t[i] = s[i]
        /\ t[Len(s) + 1] = v
    BY <1>2 DEF Keep
  <2> HIDE DEF t
  <2>2. ASSUME NEW w PROVE Has(t, w) <=> Has(s, w) \/ w = v
    BY <2>1 DEF Has
  <2>3. ASSUME Distinct(s) PROVE Distinct(t)
    <3> SUFFICES ASSUME NEW i \in 1 .. Len(t), NEW j \in 1 .. Len(t), t[i] = t[j]
                 PROVE  i = j
      BY DEF Distinct
    <3>1. \A k \in 1 .. Len(s) : s[k] # v
      BY <1>2 DEF Contains
    <3> QED
      BY <2>1, <2>3, <3>1 DEF Distinct
  <2> QED
    BY <2>1, <2>2, <2>3
<1> QED
  BY <1>1, <1>2

LEMMA KeepExtends ==
  ASSUME NEW s, NEW v
  PROVE  Keep(s, v) = s \/ (Keep(s, v) = Append(s, v) /\ ~ Has(s, v))
  BY DEF Keep, Has, Contains

(* removeDuplicates returns each element of a list once, and nothing else,  *)
(* in the order in which they first occur.                                  *)
THEOREM DuplicatesRemoved ==
  ASSUME NEW S, NEW list \in Seq(S)
  PROVE  /\ RemoveDuplicates(list) \in Seq(S)
         /\ \A v : Has(RemoveDuplicates(list), v) <=> Has(list, v)
         /\ Distinct(RemoveDuplicates(list))
         /\ InOrderOf(list, RemoveDuplicates(list))
<1> DEFINE len == Len(list)
           result == CHOOSE result :
             result = [n \in 0 .. len |->
                         IF n = 0
                         THEN <<>>
                         ELSE IF Contains(result[n - 1], list[n])
                              THEN result[n - 1]
                              ELSE Append(result[n - 1], list[n])]
           step == [p \in (1 .. len) \X Seq(S) |-> Keep(p[2], list[p[1]])]
<1>0. ASSUME NEW s \in Seq(S), NEW v \in S
      PROVE  /\ Keep(s, v) \in Seq(S)
             /\ \A w : Has(Keep(s, v), w) <=> Has(s, w) \/ w = v
             /\ Distinct(s) => Distinct(Keep(s, v))
  BY KeepAdds, Zenon
<1>1. len \in Nat /\ \A n \in 1 .. len : list[n] \in S
  OBVIOUS
<1>2. PICK f : IsRun(f, step, <<>>, len, Seq(S))
  <2>1. IsStep(step, len, Seq(S))
    <3>1. ASSUME NEW p \in (1 .. len) \X Seq(S) PROVE Keep(p[2], list[p[1]]) \in Seq(S)
      <4>1. p[1] \in 1 .. len /\ p[2] \in Seq(S)
        OBVIOUS
      <4> QED
        BY <1>0, <1>1, <4>1, Zenon
    <3> QED
      BY <3>1, Zenon DEF IsStep
  <2>2. <<>> \in Seq(S)
    OBVIOUS
  <2> HIDE DEF step
  <2> QED
    BY <1>1, <2>1, <2>2, LoopRuns, Zenon
<1>3. ASSUME NEW n \in 1 .. len PROVE f[n] = Keep(f[n - 1], list[n])
  <2>1. n - 1 \in 0 .. len
    BY <1>1
  <2>2. f[n - 1] \in Seq(S)
    BY <1>2, <2>1 DEF IsRun
  <2>3. step[<<n, f[n - 1]>>] = Keep(f[n - 1], list[n])
    BY <2>2
  <2> QED
    BY <1>2, <2>3 DEF IsRun
<1>4. f = [n \in 0 .. len |->
             IF n = 0
             THEN <<>>
             ELSE IF Contains(f[n - 1], list[n])
                  THEN f[n - 1]
                  ELSE Append(f[n - 1], list[n])]
  <2>1. \A n \in 0 .. len :
          f[n] = IF n = 0
                 THEN <<>>
                 ELSE IF Contains(f[n - 1], list[n])
                      THEN f[n - 1]
                      ELSE Append(f[n - 1], list[n])
    <3> TAKE n \in 0 .. len
    <3>1. CASE n = 0
      BY <1>2, <3>1 DEF IsRun
    <3>2. CASE n # 0
      <4>1. n \in 1 .. len
        BY <1>1, <3>2
      <4> QED
        BY <1>3, <3>2, <4>1 DEF Keep
    <3> QED
      BY <3>1, <3>2
  <2>2. f = [n \in 0 .. len |-> f[n]]
    BY <1>2 DEF IsRun
  <2> QED
    BY <2>1, <2>2
<1>5. result = [n \in 0 .. len |->
                  IF n = 0
                  THEN <<>>
                  ELSE IF Contains(result[n - 1], list[n])
                       THEN result[n - 1]
                       ELSE Append(result[n - 1], list[n])]
  BY <1>4, Zenon
<1>6. RemoveDuplicates(list) = result[len]
  BY DEF RemoveDuplicates
<1> HIDE DEF result, step
<1>7. result[0] = <<>> /\ \A n \in 1 .. len : result[n] = Keep(result[n - 1], list[n])
  <2>1. \A n \in 0 .. len :
          result[n] = IF n = 0
                      THEN <<>>
                      ELSE IF Contains(result[n - 1], list[n])
                           THEN result[n - 1]
                           ELSE Append(result[n - 1], list[n])
    BY <1>5, Zenon
  <2>2. 0 \in 0 .. len /\ \A n \in 1 .. len : n \in 0 .. len /\ n # 0
    BY <1>1
  <2> QED
    BY <2>1, <2>2, Zenon DEF Keep
<1> DEFINE Good(n) == /\ result[n] \in Seq(S)
                      /\ \A v : Has(result[n], v) <=> \E i \in 1 .. n : list[i] = v
                      /\ Distinct(result[n])
                      /\ \A i, j \in 1 .. Len(result[n]) :
                           i < j => \E p \in 1 .. n :
                                      /\ list[p] = result[n][i]
                                      /\ \A q \in 1 .. p : list[q] # result[n][j]
           good == {n \in Nat : n <= len => Good(n)}
<1>8. 0 \in good
  <2>1. Len(<<>>) = 0 /\ <<>> \in Seq(S)
    OBVIOUS
  <2>2. \A i \in 1 .. 0 : FALSE
    OBVIOUS
  <2>3. Good(0)
    BY <1>7, <2>1, <2>2 DEF Has, Distinct
  <2> QED
    BY <2>3
<1>9. ASSUME NEW n \in Nat, n \in good PROVE n + 1 \in good
  <2> SUFFICES ASSUME n + 1 <= len PROVE Good(n + 1)
    OBVIOUS
  <2>1. /\ n + 1 \in 1 .. len /\ (n + 1) - 1 = n
        /\ list[n + 1] \in S
        /\ Good(n)
    BY <1>1, <1>9
  <2>2. /\ result[n + 1] = Keep(result[n], list[n + 1])
        /\ result[n] \in Seq(S)
        /\ Distinct(result[n])
    BY <1>7, <2>1
  <2>4. /\ Keep(result[n], list[n + 1]) \in Seq(S)
        /\ \A w : Has(Keep(result[n], list[n + 1]), w) <=> Has(result[n], w) \/ w = list[n + 1]
        /\ Distinct(Keep(result[n], list[n + 1]))
    BY <1>0, <2>1, <2>2, Zenon
  <2>3. ASSUME NEW v
        PROVE  Has(result[n + 1], v) <=> \E i \in 1 .. n + 1 : list[i] = v
    <3>1. Has(result[n + 1], v) <=> Has(result[n], v) \/ v = list[n + 1]
      BY <2>2, <2>4, Zenon
    <3> QED
      BY <2>1, <3>1
  <2>5. ASSUME NEW i \in 1 .. Len(result[n + 1]), NEW j \in 1 .. Len(result[n + 1]), i < j
        PROVE  \E p \in 1 .. n + 1 : /\ list[p] = result[n + 1][i]
                                     /\ \A q \in 1 .. p : list[q] # result[n + 1][j]
    <3> DEFINE r == result[n]
               s == result[n + 1]
    <3>1. /\ r \in Seq(S)
          /\ s = r \/ (s = Append(r, list[n + 1]) /\ ~ Has(r, list[n + 1]))
      BY <2>2, KeepExtends
    <3>2. \A a, b \in 1 .. Len(r) :
            a < b => \E p \in 1 .. n : list[p] = r[a] /\ \A q \in 1 .. p : list[q] # r[b]
      BY <2>1
    <3>3. \A v : Has(r, v) <=> \E q \in 1 .. n : list[q] = v
      BY <2>1
    <3>4. i \in 1 .. Len(s) /\ j \in 1 .. Len(s)
      OBVIOUS
    <3> HIDE DEF r, s
    <3>5. CASE j \in 1 .. Len(r)
      <4>1. i \in 1 .. Len(r) /\ s[i] = r[i] /\ s[j] = r[j]
        <5>1. i \in 1 .. Len(r)
          BY <2>5, <3>1, <3>4, <3>5
        <5>2. CASE s = r
          BY <5>1, <5>2
        <5>3. CASE s = Append(r, list[n + 1])
          BY <3>1, <3>5, <5>1, <5>3
        <5> QED
          BY <3>1, <5>1, <5>2, <5>3
      <4>2. PICK p \in 1 .. n : list[p] = r[i] /\ \A q \in 1 .. p : list[q] # r[j]
        BY <2>5, <3>2, <3>5, <4>1, Zenon
      <4>3. p \in 1 .. n + 1 /\ list[p] = s[i] /\ \A q \in 1 .. p : list[q] # s[j]
        BY <4>1, <4>2
      <4> QED
        BY <4>3 DEF s
    <3>6. CASE j \notin 1 .. Len(r)
      <4>1. /\ i \in 1 .. Len(r) /\ s[i] = r[i] /\ s[j] = list[n + 1]
            /\ ~ Has(r, s[j])
        BY <2>5, <3>1, <3>4, <3>6
      <4>2. Has(r, s[i])
        BY <4>1 DEF Has
      <4>3. PICK p \in 1 .. n : list[p] = s[i]
        BY <3>3, <4>2
      <4>4. \A q \in 1 .. p : list[q] # s[j]
        BY <3>3, <4>1
      <4> QED
        BY <4>3, <4>4 DEF s
    <3> QED
      BY <3>5, <3>6
  <2> QED
    BY <2>2, <2>3, <2>4, <2>5, Zenon
<1>10. len \in good
  <2> HIDE DEF good
  <2> QED
    BY <1>1, <1>8, <1>9, SetInduction
<1> QED
  BY <1>1, <1>6, <1>10 DEF Has, InOrderOf

-----------------------------------------------------------------------------
(***************************************************************************)
(* The inductive invariant.                                                *)
(***************************************************************************)

(* The place that is open is in the array, no place is open in a process    *)
(* that does not run, and the array is never emptied.                       *)
OpenPlaceExists ==
  /\ ~ running => sheet = "closed"
  /\ clean => sheet \in {"mapping", "config"}
  /\ sheet = "add" /\ seen # <<>> => locations # <<>>
  /\ sheet \in {"next", "mapping"} => locations # <<>>
  /\ sheet = "config" => i3 <= Len(locations)

(* Ids are given once: those of drafts to come are nowhere, and the draft   *)
(* that is open is in Firestore only once its map is closed.  Until the map *)
(* is to be shown, AddView has not seen it in the array: if it is there,    *)
(* the onChange that saves it is due.                                       *)
IdsAreFresh ==
  /\ Ids(locations) \cup Ids(file) \cup SharedIds \subseteq 0 .. lastId
  /\ \A d \in PlaceIds : d > lastId => cloud[d] = NoDoc
  /\ draft <= lastId
  /\ sheet \in {"add", "next", "mapping"} => cloud[draft] = NoDoc
  /\ sheet = "add" => draft \notin Ids(seen)

(* The draft, if it is in the array, is where the upload takes it from.     *)
DraftIsLast ==
  sheet = "mapping" /\ clean /\ draft \in Ids(locations)
    => locations[Len(locations)].id = draft

(* Nothing in the file is missing on screen.                                *)
FileIsOnScreen == running => Ids(file) \subseteq Ids(locations)

IInv ==
  /\ TypeOK
  /\ OpenPlaceExists
  /\ IdsAreFresh
  /\ DraftIsLast
  /\ FileIsOnScreen
  /\ PlacesAreSafe
  /\ OpenPlaceIsRight

-----------------------------------------------------------------------------
(***************************************************************************)
(* Lemmas about the array and the file.                                    *)
(***************************************************************************)

(* The ids in a list are those of its elements. *)
LEMMA IdsOfElements ==
  ASSUME NEW list \in Seq(Location)
  PROVE  /\ \A i \in 1 .. Len(list) : list[i] \in Location /\ list[i].id \in Ids(list)
         /\ \A id \in Ids(list) : \E i \in 1 .. Len(list) : list[i].id = id
  BY DEF Ids

(* A function on 1 .. n whose values are places is a list of n places. *)
LEMMA ListOfPlaces ==
  ASSUME NEW f, NEW n \in Nat, f = [i \in 1 .. n |-> f[i]],
         \A i \in 1 .. n : f[i] \in Location
  PROVE  f \in Seq(Location) /\ Len(f) = n
  OBVIOUS

(* What a place consists of, and what changing its fields makes of it. *)
LEMMA PlaceFields ==
  ASSUME NEW p \in Location
  PROVE  /\ p.id \in PlaceIds /\ p.dirs \in Seq(Words) /\ p.pts \in Seq(Points)
         /\ \A dirs \in Seq(Words) :
              /\ [p EXCEPT !.dirs = dirs] \in Location
              /\ [p EXCEPT !.dirs = dirs].id = p.id
              /\ [p EXCEPT !.dirs = dirs].dirs = dirs
              /\ [p EXCEPT !.dirs = dirs].pts = p.pts
         /\ \A pts \in Seq(Points) :
              /\ [p EXCEPT !.pts = pts] \in Location
              /\ [p EXCEPT !.pts = pts].id = p.id
              /\ [p EXCEPT !.pts = pts].dirs = p.dirs
              /\ [p EXCEPT !.pts = pts].pts = pts
  BY DEF Location

Replaces(new, list, t, p) ==
  new = [list EXCEPT ![t] = p] /\ p \in Location /\ p.id = list[t].id

(* Replacing a place of the list by one with the same id. *)
LEMMA ReplacedPlace ==
  ASSUME NEW list \in Seq(Location), NEW t \in 1 .. Len(list),
         NEW p, NEW new, Replaces(new, list, t, p)
  PROVE  /\ new \in Seq(Location) /\ Len(new) = Len(list) /\ Ids(new) = Ids(list)
         /\ \A i \in 1 .. Len(list) : new[i].id = list[i].id
         /\ \A i \in 1 .. Len(list) : i # t => new[i] = list[i]
         /\ new[t] = p
<1>1. /\ new \in Seq(Location) /\ Len(new) = Len(list) /\ p.id = list[t].id
      /\ \A i \in 1 .. Len(list) : new[i] = IF i = t THEN p ELSE list[i]
  BY DEF Replaces
<1>2. \A i \in 1 .. Len(list) : new[i].id = list[i].id
  BY <1>1
<1>3. Ids(new) = Ids(list)
  BY <1>1, <1>2 DEF Ids
<1> QED
  BY <1>1, <1>2, <1>3

IsCopied(new, list, t, dirs, pts) ==
  new = [list EXCEPT ![t].dirs = dirs, ![t].pts = pts]

IsExtended(new, list, t, w) == new = [list EXCEPT ![t].dirs = Append(@, w)]

(* Copying directions and points into a place changes nothing else. *)
LEMMA EditedPlace ==
  ASSUME NEW list \in Seq(Location), NEW t \in 1 .. Len(list),
         NEW dirs \in Seq(Words), NEW pts \in Seq(Points), NEW new,
         IsCopied(new, list, t, dirs, pts)
  PROVE  /\ new \in Seq(Location) /\ Len(new) = Len(list) /\ Ids(new) = Ids(list)
         /\ \A i \in 1 .. Len(list) : new[i].id = list[i].id
         /\ \A i \in 1 .. Len(list) : i # t => new[i] = list[i]
         /\ new[t].dirs = dirs /\ new[t].pts = pts
<1> DEFINE p == [[list[t] EXCEPT !.dirs = dirs] EXCEPT !.pts = pts]
<1>1. list[t] \in Location
  OBVIOUS
<1>2. p \in Location /\ p.id = list[t].id /\ p.dirs = dirs /\ p.pts = pts
  BY <1>1 DEF Location
<1>3. new = [list EXCEPT ![t] = p]
  BY DEF IsCopied
<1> HIDE DEF p
<1> QED
  <2>1. Replaces(new, list, t, p)
    BY <1>2, <1>3 DEF Replaces
  <2> QED
    BY <1>2, <2>1, ReplacedPlace

(* The same for one more direction. *)
LEMMA ExtendedPlace ==
  ASSUME NEW list \in Seq(Location), NEW t \in 1 .. Len(list), NEW w \in Words,
         NEW new, IsExtended(new, list, t, w)
  PROVE  /\ new \in Seq(Location) /\ Len(new) = Len(list) /\ Ids(new) = Ids(list)
         /\ \A i \in 1 .. Len(list) : new[i].id = list[i].id
         /\ \A i \in 1 .. Len(list) : i # t => new[i] = list[i]
         /\ new[t].dirs = Append(list[t].dirs, w) /\ new[t].pts = list[t].pts
<1> DEFINE dirs == Append(list[t].dirs, w)
           p    == [list[t] EXCEPT !.dirs = dirs]
<1>1. list[t] \in Location
  OBVIOUS
<1>2. dirs \in Seq(Words)
  BY <1>1, PlaceFields
<1>3. p \in Location /\ p.id = list[t].id /\ p.dirs = dirs /\ p.pts = list[t].pts
  <2> HIDE DEF dirs
  <2> QED
    BY <1>1, <1>2, PlaceFields
<1>4. new = [list EXCEPT ![t] = p]
  BY DEF IsExtended
<1> HIDE DEF p
<1> QED
  <2>1. Replaces(new, list, t, p)
    BY <1>3, <1>4 DEF Replaces
  <2> QED
    BY <1>3, <2>1, ReplacedPlace

(* The places that an answer of Firestore brings are those it stores. *)
LEMMA AnsweredPlaces ==
  ASSUME TypeOK, NEW got \in Answers
  PROVE  got \in Seq(Location) /\ Ids(got) \subseteq SharedIds
<1>1. PICK docs \in SUBSET {cloud[id] : id \in {d \in PlaceIds : cloud[d] # NoDoc}} :
        got \in SetToSeqs(docs)
  BY DEF Answers
<1>2. ASSUME NEW v \in docs PROVE v \in Location /\ v.id \in SharedIds
  <2>1. PICK d \in PlaceIds : cloud[d] # NoDoc /\ v = cloud[d]
    BY <1>1
  <2> QED
    BY <2>1 DEF TypeOK, SharedIds
<1> DEFINE n == Cardinality(docs)
<1>3. got \in [1 .. n -> docs]
  BY <1>1 DEF SetToSeqs
<1>4. n \in Nat
  <2> DEFINE some == {d \in PlaceIds : cloud[d] # NoDoc}
             all  == {cloud[id] : id \in some}
  <2>1. IsFiniteSet(0 .. MaxId)
    BY MapStoreAssumption, FS_Interval DEF MapStoreAssumption
  <2>2. IsFiniteSet(some)
    BY <2>1, FS_Subset DEF PlaceIds
  <2>3. IsFiniteSet(all)
    <3>1. [d \in some |-> cloud[d]] \in Surjection(some, all)
      BY DEF Surjection
    <3> HIDE DEF some, all
    <3> QED
      BY <2>2, <3>1, FS_Surjection
  <2>4. IsFiniteSet(docs)
    BY <1>1, <2>3, FS_Subset
  <2> QED
    BY <2>4, FS_CardinalityType
<1>5. \A i \in 1 .. n : got[i] \in Location /\ got[i].id \in SharedIds
  BY <1>2, <1>3
<1>6. got = [i \in 1 .. n |-> got[i]]
  BY <1>3
<1> HIDE DEF n
<1>7. got \in Seq(Location) /\ DOMAIN got = 1 .. n
  BY <1>4, <1>5, <1>6, ListOfPlaces
<1> QED
  BY <1>5, <1>7 DEF Ids

(* Merging an answer keeps every place there is, and adds none that         *)
(* Firestore does not have.                                                 *)
LEMMA MergedPlaces ==
  ASSUME TypeOK, NEW got \in Answers
  PROVE  /\ Merged(got) \in Seq(Location)
         /\ Ids(locations) \subseteq Ids(Merged(got))
         /\ Ids(Merged(got)) \subseteq Ids(locations) \cup SharedIds
         /\ locations # <<>> => Merged(got) # <<>>
<1> DEFINE all == locations \o got
           list == Merged(got)
<1>1. got \in Seq(Location) /\ Ids(got) \subseteq SharedIds
  BY AnsweredPlaces
<1>2. locations \in Seq(Location)
  BY DEF TypeOK
<1>3. /\ all \in Seq(Location)
      /\ \A i \in 1 .. Len(locations) : i \in 1 .. Len(all) /\ all[i] = locations[i]
      /\ \A i \in 1 .. Len(all) : \/ i \in 1 .. Len(locations) /\ all[i] = locations[i]
                                  \/ \E j \in 1 .. Len(got) : all[i] = got[j]
  <2>1. \A i \in 1 .. Len(all) : i \notin 1 .. Len(locations) =>
          i - Len(locations) \in 1 .. Len(got) /\ all[i] = got[i - Len(locations)]
    BY <1>1, <1>2
  <2> QED
    BY <1>1, <1>2, <2>1
<1> HIDE DEF all
<1>4. list \in Seq(Location) /\ \A v : Has(list, v) <=> Has(all, v)
  BY <1>3, DuplicatesRemoved, Zenon DEF Merged, all
<1> HIDE DEF list
<1>5. ASSUME NEW i \in 1 .. Len(locations)
      PROVE  \E k \in 1 .. Len(list) : list[k] = locations[i]
  <2>1. Has(all, locations[i])
    BY <1>3 DEF Has
  <2> QED
    BY <1>4, <2>1 DEF Has
<1>6. ASSUME NEW k \in 1 .. Len(list)
      PROVE  list[k].id \in Ids(locations) \cup SharedIds
  <2>1. Has(list, list[k])
    BY DEF Has
  <2>2. PICK i \in 1 .. Len(all) : all[i] = list[k]
    BY <1>4, <2>1 DEF Has
  <2>3. CASE i \in 1 .. Len(locations) /\ all[i] = locations[i]
    BY <1>2, <2>2, <2>3, IdsOfElements
  <2>4. CASE \E j \in 1 .. Len(got) : all[i] = got[j]
    BY <1>1, <2>2, <2>4, IdsOfElements
  <2> QED
    BY <1>3, <2>3, <2>4
<1>7. Ids(locations) \subseteq Ids(list)
  <2> SUFFICES ASSUME NEW id \in Ids(locations) PROVE id \in Ids(list)
    OBVIOUS
  <2>1. PICK i \in 1 .. Len(locations) : locations[i].id = id
    BY <1>2, IdsOfElements
  <2>2. PICK k \in 1 .. Len(list) : list[k] = locations[i]
    BY <1>5
  <2> QED
    BY <1>4, <2>1, <2>2, IdsOfElements
<1>8. Ids(list) \subseteq Ids(locations) \cup SharedIds
  <2> SUFFICES ASSUME NEW id \in Ids(list) PROVE id \in Ids(locations) \cup SharedIds
    OBVIOUS
  <2>1. PICK k \in 1 .. Len(list) : list[k].id = id
    BY <1>4, IdsOfElements
  <2> QED
    BY <1>6, <2>1
<1>9. ASSUME locations # <<>> PROVE list # <<>>
  <2>1. 1 \in 1 .. Len(locations)
    BY <1>2, <1>9
  <2>2. PICK k \in 1 .. Len(list) : list[k] = locations[1]
    BY <1>5, <2>1
  <2> QED
    BY <1>4, <2>2
<1> QED
  BY <1>4, <1>7, <1>8, <1>9 DEF list


-----------------------------------------------------------------------------
(***************************************************************************)
(* Two things that several actions do.                                     *)
(***************************************************************************)

(* The array changes, and nothing is written: no place is lost if none is   *)
(* dropped and every new one is in Firestore, or is the draft of an AddView *)
(* that will see the change.                                                *)
LEMMA ArrayChange ==
  ASSUME IInv, locations' \in Seq(Location),
         Ids(locations) \subseteq Ids(locations'),
         \A id \in Ids(locations') : \/ id \in Ids(locations) \cup SharedIds
                                     \/ sheet = "add" /\ id = draft,
         UNCHANGED <<running, file, cloud, sheet, seen, draft, lastId>>
  PROVE  IdsAreFresh' /\ FileIsOnScreen' /\ PlacesAreSafe'
<1>1. SharedIds' = SharedIds
  BY DEF SharedIds
<1>2. /\ Ids(locations) \cup Ids(file) \cup SharedIds \subseteq 0 .. lastId
      /\ \A d \in PlaceIds : d > lastId => cloud[d] = NoDoc
      /\ draft <= lastId /\ draft \in PlaceIds
      /\ sheet \in {"add", "next", "mapping"} => cloud[draft] = NoDoc
      /\ sheet = "add" => draft \notin Ids(seen)
  BY DEF IInv, IdsAreFresh, TypeOK
<1>3. IdsAreFresh'
  <2>1. Ids(locations') \subseteq 0 .. lastId
    BY <1>2 DEF PlaceIds
  <2>2. (Ids(locations) \cup Ids(file) \cup SharedIds \subseteq 0 .. lastId)'
    BY <1>1, <1>2, <2>1
  <2> QED
    BY <1>2, <2>2 DEF IdsAreFresh
<1>4. FileIsOnScreen'
  BY DEF IInv, FileIsOnScreen
<1>5. PlacesAreSafe'
  <2> SUFFICES ASSUME NEW id \in Ids(locations'), ~ (sheet = "add" /\ ChangeIsDue' /\ id = draft)
               PROVE  id \in Ids(file) \cup SharedIds
    BY <1>1 DEF PlacesAreSafe
  <2>1. ~ (sheet = "add" /\ id = draft)
    BY <1>2 DEF ChangeIsDue
  <2>2. id \in Ids(locations) \cup SharedIds
    BY <2>1
  <2> QED
    BY <2>1, <2>2 DEF IInv, PlacesAreSafe
<1> QED
  BY <1>3, <1>4, <1>5

(* The file becomes the array: nothing on screen is lost. *)
LEMMA FileWritten ==
  ASSUME IInv, file' = locations, UNCHANGED <<running, locations, cloud>>
  PROVE  /\ file' \in Seq(Location) /\ FileIsOnScreen' /\ PlacesAreSafe'
         /\ SharedIds' = SharedIds
<1>1. file' \in Seq(Location)
  BY DEF IInv, TypeOK
<1>2. FileIsOnScreen'
  BY DEF FileIsOnScreen
<1>3. PlacesAreSafe'
  BY DEF PlacesAreSafe
<1>4. SharedIds' = SharedIds
  BY DEF SharedIds
<1> QED
  BY <1>1, <1>2, <1>3, <1>4

(* A ContentView appears: if the globals were clean, they equal its place.  *)
LEMMA PlaceAppears ==
  ASSUME TypeOK, NEW list \in Seq(Location), NEW idx \in 1 .. Len(list),
         Appear(list, idx), clean' \in BOOLEAN, clean' => OpensClean(list, idx),
         locations' = list, Cur' = idx, UNCHANGED addAudio
  PROVE  /\ directions' \in Seq(Words)
         /\ transformations' \in Seq(Points)
         /\ timers' \subseteq Nat \ {0}
         /\ OpenPlaceIsRight'
<1>1. list[idx] \in Location
  OBVIOUS
<1>2. list[idx].dirs \in Seq(Words) /\ list[idx].pts \in Seq(Points)
  BY <1>1, PlaceFields
<1>3. /\ directions' = list[idx].dirs
      /\ transformations' = transformations \o list[idx].pts
      /\ timers' = timers \cup {idx}
  BY DEF Appear
<1>4. transformations \in Seq(Points) /\ timers \subseteq Nat \ {0} /\ addAudio \in BOOLEAN
  BY DEF TypeOK
<1>5. directions' \in Seq(Words) /\ transformations' \in Seq(Points)
  BY <1>2, <1>3, <1>4
<1>6. timers' \subseteq Nat \ {0}
  BY <1>3, <1>4
<1>7. OpenPlaceIsMirrored'
  BY <1>3 DEF OpenPlaceIsMirrored
<1>8. PointsCovered'
  <2> SUFFICES ASSUME clean'
               PROVE  Len(transformations') + (IF addAudio' THEN 1 ELSE 0) <= Len(directions')
    BY DEF PointsCovered
  <2>1. /\ transformations = <<>> /\ ~ addAudio'
        /\ Len(list[idx].pts) <= Len(list[idx].dirs)
    BY <1>3 DEF OpensClean
  <2>2. transformations' = list[idx].pts
    BY <1>2, <1>3, <2>1
  <2>3. Len(transformations') + 0 <= Len(directions')
    BY <1>2, <1>3, <2>1, <2>2
  <2> QED
    BY <2>1, <2>3
<1> QED
  BY <1>5, <1>6, <1>7, <1>8 DEF OpenPlaceIsRight

-----------------------------------------------------------------------------
(***************************************************************************)
(* Each action keeps the invariant.                                        *)
(***************************************************************************)

(* What the invariant says of a process that has just started or is gone.   *)
LEMMA FreshProcess ==
  ASSUME IInv, running' = FALSE, FreshMemory(<<>>),
         UNCHANGED <<file, cloud, lastId, lastPoint>>
  PROVE  IInv'
<1>1. /\ locations' = <<>> /\ Ids(locations') = {}
      /\ sheet' = "closed" /\ draft' = 0 /\ clean' = FALSE
  BY DEF FreshMemory, Foreign, Ids
<1>2. TypeOK'
  <2>1. TypeOK
    BY DEF IInv
  <2>2. draft' \in PlaceIds
    BY <1>1, MapStoreAssumption DEF MapStoreAssumption, PlaceIds
  <2>3. locations' \in Seq(Location)
    BY <1>1
  <2>4. /\ directions' \in Seq(Words) /\ transformations' \in Seq(Points)
        /\ i3' \in Nat \ {0} /\ timers' \subseteq Nat \ {0}
        /\ seen' = <<>> /\ fetch' = "none" /\ isPublic' = TRUE /\ addAudio' = FALSE
    BY DEF FreshMemory
  <2>5. UNCHANGED <<file, cloud, lastId, lastPoint>>
    OBVIOUS
  <2> QED
    BY <1>1, <2>1, <2>2, <2>3, <2>4, <2>5 DEF TypeOK
<1>3. OpenPlaceExists'
  BY <1>1 DEF OpenPlaceExists
<1>4. IdsAreFresh'
  <2>1. lastId \in Nat
    BY DEF IInv, TypeOK, PlaceIds
  <2>2. SharedIds' = SharedIds
    BY DEF SharedIds
  <2> QED
    BY <1>1, <2>1, <2>2 DEF IInv, IdsAreFresh
<1>5. DraftIsLast' /\ FileIsOnScreen'
  BY <1>1 DEF DraftIsLast, FileIsOnScreen
<1>6. PlacesAreSafe'
  BY <1>1 DEF PlacesAreSafe, ChangeIsDue
<1>7. OpenPlaceIsRight'
  BY <1>1 DEF OpenPlaceIsRight, OpenPlaceIsMirrored, PointsCovered
<1> QED
  BY <1>2, <1>3, <1>4, <1>5, <1>6, <1>7 DEF IInv

LEMMA GoneKeeps ==
  ASSUME IInv, Gone PROVE IInv'
  BY FreshProcess DEF Gone

LEMMA LaunchKeeps ==
  ASSUME IInv, Launch PROVE IInv'
<1>1. /\ locations' = file /\ file' = file /\ sheet' = "closed" /\ clean' = FALSE
      /\ UNCHANGED <<cloud, draft, lastId>>
  BY DEF IInv, TypeOK, OpenPlaceExists, Launch
<1>2. TypeOK'
  BY DEF IInv, TypeOK, Launch
<1>3. OpenPlaceExists'
  BY <1>1 DEF OpenPlaceExists
<1>4. IdsAreFresh'
  <2>1. SharedIds' = SharedIds
    BY <1>1 DEF SharedIds
  <2> QED
    BY <1>1, <2>1 DEF IInv, IdsAreFresh
<1>5. DraftIsLast' /\ FileIsOnScreen'
  BY <1>1 DEF DraftIsLast, FileIsOnScreen
<1>6. PlacesAreSafe'
  BY <1>1 DEF PlacesAreSafe, ChangeIsDue
<1>7. OpenPlaceIsRight'
  BY <1>1 DEF OpenPlaceIsRight, OpenPlaceIsMirrored, PointsCovered
<1> QED
  BY <1>2, <1>3, <1>4, <1>5, <1>6, <1>7 DEF IInv

LEMMA OpenAddKeeps ==
  ASSUME IInv, OpenAdd PROVE IInv'
<1>1. /\ UNCHANGED <<running, locations, file, cloud>>
      /\ sheet' = "add" /\ clean' = FALSE /\ running
      /\ lastId' = lastId + 1 /\ draft' = lastId + 1 /\ lastId < MaxId
      /\ sheet = "closed" /\ seen' = locations
  BY DEF OpenAdd
<1>2. lastId + 1 \in PlaceIds /\ lastId \in Nat
  BY <1>1, MapStoreAssumption DEF IInv, TypeOK, PlaceIds, MapStoreAssumption
<1>3. TypeOK'
  BY <1>2 DEF IInv, TypeOK, OpenAdd
<1>4. OpenPlaceExists'
  BY <1>1 DEF OpenPlaceExists
<1>5. IdsAreFresh'
  <2>1. SharedIds' = SharedIds /\ Ids(locations)' = Ids(locations) /\ Ids(file)' = Ids(file)
    BY <1>1 DEF SharedIds
  <2>2. Ids(locations) \cup Ids(file) \cup SharedIds \subseteq 0 .. lastId
    BY DEF IInv, IdsAreFresh
  <2>3. \A d \in PlaceIds : d > lastId => cloud[d] = NoDoc
    BY DEF IInv, IdsAreFresh
  <2>4. (Ids(locations) \cup Ids(file) \cup SharedIds \subseteq 0 .. lastId)'
    BY <1>1, <1>2, <2>1, <2>2
  <2>5. (\A d \in PlaceIds : d > lastId => cloud[d] = NoDoc)'
    BY <1>1, <1>2, <2>3 DEF PlaceIds
  <2>6. (draft <= lastId)' /\ (cloud[draft] = NoDoc)'
    BY <1>1, <1>2, <2>3
  <2>7. (draft \notin Ids(seen))'
    BY <1>1, <1>2, <2>2
  <2> QED
    BY <2>4, <2>5, <2>6, <2>7 DEF IdsAreFresh
<1>6. DraftIsLast'
  BY <1>1 DEF DraftIsLast
<1>7. FileIsOnScreen'
  BY <1>1 DEF IInv, FileIsOnScreen
<1>8. PlacesAreSafe'
  BY <1>1 DEF IInv, PlacesAreSafe, ChangeIsDue, SharedIds
<1>9. OpenPlaceIsRight'
  BY <1>1 DEF OpenPlaceIsRight, OpenPlaceIsMirrored, PointsCovered
<1> QED
  BY <1>3, <1>4, <1>5, <1>6, <1>7, <1>8, <1>9 DEF IInv

LEMMA OpenRowKeeps ==
  ASSUME IInv, NEW i \in 1 .. MaxPlaces, OpenRow(i) PROVE IInv'
<1>1. /\ UNCHANGED <<running, locations, file, cloud, draft, addAudio, lastId>>
      /\ running /\ sheet = "closed" /\ sheet' = "config" /\ i3' = i
      /\ Appear(locations, i) /\ clean' = OpensClean(locations, i)
      /\ locations \in Seq(Location) /\ i \in 1 .. Len(locations)
  BY DEF IInv, TypeOK, OpenRow, RowIndex
<1>2. Cur' = i
  BY <1>1 DEF Cur
<1>3. /\ directions' \in Seq(Words) /\ transformations' \in Seq(Points)
      /\ timers' \subseteq Nat \ {0} /\ clean' \in BOOLEAN
      /\ OpenPlaceIsRight'
  <2>1. clean' \in BOOLEAN
    BY <1>1 DEF OpensClean
  <2> QED
    BY <1>1, <1>2, <2>1, PlaceAppears DEF IInv
<1>4. TypeOK'
  BY <1>1, <1>3 DEF IInv, TypeOK, OpenRow
<1>5. OpenPlaceExists'
  BY <1>1 DEF OpenPlaceExists
<1>6. IdsAreFresh'
  BY <1>1 DEF IInv, IdsAreFresh, SharedIds
<1>7. DraftIsLast' /\ FileIsOnScreen'
  BY <1>1 DEF IInv, DraftIsLast, FileIsOnScreen
<1>8. PlacesAreSafe'
  BY <1>1 DEF IInv, PlacesAreSafe, ChangeIsDue, SharedIds
<1> QED
  BY <1>3, <1>4, <1>5, <1>6, <1>7, <1>8 DEF IInv

LEMMA RowsDisappearKeeps ==
  ASSUME IInv, RowsDisappear PROVE IInv'
<1>1. /\ UNCHANGED <<running, memory, cloud, lastId, lastPoint>>
      /\ file' = locations
  BY DEF RowsDisappear
<1>2. TypeOK'
  BY <1>1 DEF IInv, TypeOK, memory
<1>3. OpenPlaceExists'
  BY <1>1 DEF IInv, OpenPlaceExists, memory
<1>4. SharedIds' = SharedIds
  BY <1>1 DEF SharedIds
<1>5. IdsAreFresh'
  BY <1>1, <1>4 DEF IInv, IdsAreFresh, memory
<1>6. DraftIsLast'
  BY <1>1 DEF IInv, DraftIsLast, memory
<1>7. FileIsOnScreen'
  BY <1>1 DEF IInv, FileIsOnScreen, memory
<1>8. PlacesAreSafe'
  BY <1>1 DEF IInv, PlacesAreSafe, ChangeIsDue, memory
<1>9. OpenPlaceIsRight'
  BY <1>1 DEF IInv, OpenPlaceIsRight, OpenPlaceIsMirrored, PointsCovered, Cur, memory
<1> QED
  BY <1>2, <1>3, <1>5, <1>6, <1>7, <1>8, <1>9 DEF IInv

LEMMA PlacePointKeeps ==
  ASSUME IInv, PlacePoint PROVE IInv'
<1>1. /\ UNCHANGED <<running, locations, file, cloud, sheet, seen, draft, i3, directions,
                     lastId, clean>>
      /\ addAudio /\ addAudio' = FALSE
      /\ \/ UNCHANGED <<transformations, lastPoint>>
         \/ /\ lastPoint' \in Points
            /\ transformations' = Append(transformations, lastPoint')
  BY MapStoreAssumption
     DEF IInv, TypeOK, PlacePoint, RequestAfterRay, Points, MapStoreAssumption
<1>2. TypeOK'
  <2>1. TypeOK
    BY DEF IInv
  <2>2. transformations \in Seq(Points) /\ lastPoint \in Points
    BY <2>1 DEF TypeOK
  <2>3. transformations' \in Seq(Points) /\ lastPoint' \in Points
    BY <1>1, <2>2
  <2> QED
    BY <1>1, <2>1, <2>3 DEF TypeOK, PlacePoint
<1>3. OpenPlaceExists'
  BY <1>1 DEF IInv, OpenPlaceExists
<1>4. IdsAreFresh'
  BY <1>1 DEF IInv, IdsAreFresh, SharedIds
<1>5. DraftIsLast' /\ FileIsOnScreen'
  BY <1>1 DEF IInv, DraftIsLast, FileIsOnScreen
<1>6. PlacesAreSafe'
  BY <1>1 DEF IInv, PlacesAreSafe, ChangeIsDue, SharedIds
<1>7. OpenPlaceIsMirrored'
  BY <1>1 DEF IInv, OpenPlaceIsRight, OpenPlaceIsMirrored, Cur
<1>8. PointsCovered'
  <2> SUFFICES ASSUME clean
               PROVE  Len(transformations') + 0 <= Len(directions)
    BY <1>1 DEF PointsCovered
  <2>1. Len(transformations) + 1 <= Len(directions)
    BY <1>1 DEF IInv, OpenPlaceIsRight, PointsCovered
  <2>2. transformations \in Seq(Points) /\ directions \in Seq(Words)
    BY DEF IInv, TypeOK
  <2> QED
    BY <1>1, <2>1, <2>2
<1> QED
  BY <1>2, <1>3, <1>4, <1>5, <1>6, <1>7, <1>8 DEF IInv, OpenPlaceIsRight

LEMMA NearbyArrivesKeeps ==
  ASSUME IInv, NearbyArrives PROVE IInv'
<1>1. PICK got \in Answers :
        LET list == Merged(got)
        IN  IF sheet = "config" /\ i3 > Len(list)
            THEN Gone
            ELSE /\ locations' = list
                 /\ fetch' = "done"
                 /\ clean' = (clean /\ list = locations)
                 /\ UNCHANGED <<running, file, cloud, sheet, seen, draft, isPublic, i3,
                                timers, directions, transformations, addAudio,
                                lastId, lastPoint>>
  BY DEF NearbyArrives
<1> DEFINE list == Merged(got)
<1>2. /\ list \in Seq(Location)
      /\ Ids(locations) \subseteq Ids(list)
      /\ Ids(list) \subseteq Ids(locations) \cup SharedIds
      /\ locations # <<>> => list # <<>>
  BY MergedPlaces DEF IInv
<1> HIDE DEF list
<1>3. CASE sheet = "config" /\ i3 > Len(list)
  BY <1>1, <1>3, GoneKeeps, Zenon DEF list
<1>4. CASE ~ (sheet = "config" /\ i3 > Len(list))
  <2>1. /\ locations' = list
        /\ fetch' = "done"
        /\ clean' = (clean /\ list = locations)
        /\ UNCHANGED <<running, file, cloud, sheet, seen, draft, isPublic, i3, timers,
                       directions, transformations, addAudio, lastId, lastPoint>>
    BY <1>1, <1>4, Zenon DEF list
  <2>2. IdsAreFresh' /\ FileIsOnScreen' /\ PlacesAreSafe'
    BY <1>2, <2>1, ArrayChange
  <2>3. TypeOK'
    BY <1>2, <2>1 DEF IInv, TypeOK
  <2>4. OpenPlaceExists'
    <3>1. sheet = "config" => i3 <= Len(list)
      BY <1>2, <1>4 DEF IInv, TypeOK
    <3> QED
      BY <1>2, <2>1, <3>1 DEF IInv, OpenPlaceExists
  <2>5. DraftIsLast'
    BY <2>1 DEF IInv, DraftIsLast
  <2>6. OpenPlaceIsRight'
    BY <2>1 DEF IInv, OpenPlaceIsRight, OpenPlaceIsMirrored, PointsCovered, Cur
  <2> QED
    BY <2>2, <2>3, <2>4, <2>5, <2>6 DEF IInv
<1> QED
  BY <1>3, <1>4

LEMMA BeginMappingKeeps ==
  ASSUME IInv, BeginMapping PROVE IInv'
<1> DEFINE list == Append(locations, NewLocation)
<1>1. /\ locations \in Seq(Location) /\ Len(locations) \in Nat
      /\ NewLocation \in Location /\ NewLocation.id = draft
  BY DEF IInv, TypeOK, NewLocation, Location
<1>2. /\ list \in Seq(Location) /\ list # <<>>
      /\ \A i \in 1 .. Len(locations) : i \in 1 .. Len(list) /\ list[i] = locations[i]
      /\ list[Len(list)] = NewLocation
      /\ \A i \in 1 .. Len(list) : i \in 1 .. Len(locations) \/ i = Len(list)
  BY <1>1
<1>3. /\ sheet = "add" /\ locations' = list
      /\ UNCHANGED <<running, file, cloud, fetch, sheet, seen, draft, isPublic, i3, timers,
                     directions, transformations, addAudio, lastId, lastPoint, clean>>
  BY DEF BeginMapping
<1> HIDE DEF list
<1>4. Ids(locations) \subseteq Ids(list)
  BY <1>1, <1>2 DEF Ids
<1>5. \A id \in Ids(list) : id \in Ids(locations) \/ id = draft
  BY <1>1, <1>2 DEF Ids
<1>6. IdsAreFresh' /\ FileIsOnScreen' /\ PlacesAreSafe'
  BY <1>2, <1>3, <1>4, <1>5, ArrayChange
<1>7. ~ clean
  BY <1>3 DEF IInv, OpenPlaceExists
<1>8. TypeOK'
  BY <1>2, <1>3 DEF IInv, TypeOK
<1>9. OpenPlaceExists' /\ DraftIsLast'
  BY <1>2, <1>3, <1>7 DEF IInv, OpenPlaceExists, DraftIsLast
<1>10. OpenPlaceIsRight'
  BY <1>3, <1>7 DEF OpenPlaceIsRight, OpenPlaceIsMirrored, PointsCovered
<1> QED
  BY <1>6, <1>8, <1>9, <1>10 DEF IInv

LEMMA OnChangeKeeps ==
  ASSUME IInv, OnChange PROVE IInv'
<1>1. /\ running /\ ChangeIsDue /\ file' = locations /\ seen' = locations
      /\ \/ sheet = "add" /\ sheet' = "next"
         \/ sheet # "add" /\ sheet' = sheet
      /\ UNCHANGED <<running, locations, cloud, fetch, draft, isPublic, i3, timers,
                     directions, transformations, addAudio, lastId, lastPoint, clean>>
  BY DEF OnChange, ShowsMap
<1>2. /\ file' \in Seq(Location) /\ FileIsOnScreen' /\ PlacesAreSafe'
      /\ SharedIds' = SharedIds
  BY <1>1, FileWritten
<1>3. TypeOK'
  BY <1>1, <1>2 DEF IInv, TypeOK
<1>4. OpenPlaceExists'
  <2>1. sheet = "add" => locations # <<>>
    BY <1>1 DEF IInv, OpenPlaceExists, ChangeIsDue
  <2> QED
    BY <1>1, <2>1 DEF IInv, OpenPlaceExists
<1>5. IdsAreFresh'
  BY <1>1, <1>2 DEF IInv, IdsAreFresh
<1>6. DraftIsLast'
  BY <1>1 DEF IInv, DraftIsLast
<1>7. OpenPlaceIsRight'
  <2>1. CASE sheet = "add"
    BY <1>1, <2>1
       DEF IInv, OpenPlaceExists, OpenPlaceIsRight, OpenPlaceIsMirrored, PointsCovered
  <2>2. CASE sheet # "add"
    BY <1>1, <2>2 DEF IInv, OpenPlaceIsRight, OpenPlaceIsMirrored, PointsCovered, Cur
  <2> QED
    BY <2>1, <2>2
<1> QED
  BY <1>2, <1>3, <1>4, <1>5, <1>6, <1>7 DEF IInv

LEMMA MapAppearsKeeps ==
  ASSUME IInv, MapAppears PROVE IInv'
<1> DEFINE last == Len(locations)
<1>1. /\ running /\ sheet = "next" /\ sheet' = "mapping"
      /\ Appear(locations, last) /\ clean' = (OpensClean(locations, last) /\ BindsDraft)
      /\ UNCHANGED <<running, locations, file, cloud, fetch, seen, draft, isPublic, i3,
                     addAudio, lastId, lastPoint>>
  BY DEF MapAppears
<1>2. locations \in Seq(Location) /\ last \in 1 .. Len(locations) /\ locations # <<>>
  BY <1>1 DEF IInv, TypeOK, OpenPlaceExists
<1>3. Cur' = last
  BY <1>1 DEF Cur
<1>4. clean' \in BOOLEAN
  BY <1>1 DEF OpensClean, BindsDraft
<1>5. /\ directions' \in Seq(Words) /\ transformations' \in Seq(Points)
      /\ timers' \subseteq Nat \ {0}
      /\ OpenPlaceIsRight'
  <2> HIDE DEF last
  <2> QED
    BY <1>1, <1>2, <1>3, <1>4, PlaceAppears DEF IInv
<1>6. TypeOK'
  BY <1>1, <1>4, <1>5 DEF IInv, TypeOK
<1>7. OpenPlaceExists'
  BY <1>1, <1>2 DEF OpenPlaceExists
<1>8. IdsAreFresh'
  BY <1>1 DEF IInv, IdsAreFresh, SharedIds
<1>9. DraftIsLast'
  BY <1>1 DEF DraftIsLast, BindsDraft
<1>10. FileIsOnScreen' /\ PlacesAreSafe'
  BY <1>1 DEF IInv, FileIsOnScreen, PlacesAreSafe, SharedIds
<1> QED
  BY <1>5, <1>6, <1>7, <1>8, <1>9, <1>10 DEF IInv

(* The place that is open is in the array. *)
LEMMA OpenPlaceIsInArray ==
  ASSUME IInv, sheet \in {"mapping", "config"}
  PROVE  Cur \in 1 .. Len(locations)
  BY DEF IInv, TypeOK, OpenPlaceExists, Cur

LEMMA AddDirectionKeeps ==
  ASSUME IInv, NEW w \in Words, AddDirection(w) PROVE IInv'
<1> DEFINE list == [locations EXCEPT ![Cur].dirs = Append(@, w)]
<1>1. /\ sheet \in {"mapping", "config"} /\ locations' = list
      /\ directions' = Append(directions, w) /\ addAudio' = TRUE
      /\ UNCHANGED <<running, file, cloud, fetch, sheet, seen, draft, isPublic, i3, timers,
                     transformations, lastId, lastPoint, clean>>
  BY DEF AddDirection
<1>2. Cur \in 1 .. Len(locations) /\ locations \in Seq(Location)
  BY <1>1, OpenPlaceIsInArray DEF IInv, TypeOK
<1>3. IsExtended(list, locations, Cur, w)
  BY DEF IsExtended
<1> HIDE DEF list
<1>4. /\ list \in Seq(Location) /\ Len(list) = Len(locations) /\ Ids(list) = Ids(locations)
      /\ \A i \in 1 .. Len(locations) : list[i].id = locations[i].id
      /\ list[Cur].dirs = Append(locations[Cur].dirs, w)
  BY <1>2, <1>3, ExtendedPlace
<1>5. IdsAreFresh' /\ FileIsOnScreen' /\ PlacesAreSafe'
  BY <1>1, <1>4, ArrayChange
<1>6. sheet' = sheet
  BY <1>1
<1>7. Cur' = Cur
  BY <1>1, <1>4, <1>6 DEF Cur
<1>8. directions \in Seq(Words) /\ transformations \in Seq(Points)
  BY DEF IInv, TypeOK
<1>9. TypeOK'
  <2>1. directions' \in Seq(Words)
    BY <1>1, <1>8
  <2> QED
    BY <1>1, <1>4, <1>5, <1>6, <2>1 DEF IInv, TypeOK
<1>10. OpenPlaceExists'
  <2>1. locations # <<>> => list # <<>>
    BY <1>2, <1>4
  <2> QED
    BY <1>1, <1>4, <1>6, <2>1 DEF IInv, OpenPlaceExists
<1>11. DraftIsLast'
  <2> SUFFICES ASSUME sheet = "mapping", clean, draft \in Ids(list)
               PROVE  list[Len(list)].id = draft
    BY <1>1, <1>6 DEF DraftIsLast
  <2>1. locations[Len(locations)].id = draft
    BY <1>4 DEF IInv, DraftIsLast
  <2>2. Len(locations) \in 1 .. Len(locations)
    BY <1>2 DEF Cur
  <2> QED
    BY <1>4, <2>1, <2>2
<1>12. OpenPlaceIsMirrored'
  BY <1>1, <1>4, <1>7 DEF IInv, OpenPlaceIsRight, OpenPlaceIsMirrored
<1>13. PointsCovered'
  <2> SUFFICES ASSUME clean
               PROVE  Len(transformations) + 1 <= Len(directions')
    BY <1>1 DEF PointsCovered
  <2>1. Len(transformations) <= Len(directions)
    BY <1>8 DEF IInv, OpenPlaceIsRight, PointsCovered
  <2> QED
    BY <1>1, <1>8, <2>1
<1> QED
  BY <1>5, <1>9, <1>10, <1>11, <1>12, <1>13 DEF IInv, OpenPlaceIsRight

LEMMA TickKeeps ==
  ASSUME IInv, NEW t \in 1 .. MaxPlaces, Tick(t) PROVE IInv'
<1> DEFINE list == Copied(t)
<1>1. CASE t > Len(locations)
  BY <1>1, GoneKeeps DEF Tick
<1>2. CASE ~ (t > Len(locations))
  <2>1. /\ locations' = list
        /\ UNCHANGED <<running, file, cloud, fetch, sheet, seen, draft, isPublic, i3, timers,
                       directions, transformations, addAudio, lastId, lastPoint, clean>>
    BY <1>2, Zenon DEF Tick
  <2>2. /\ t \in 1 .. Len(locations) /\ locations \in Seq(Location)
        /\ directions \in Seq(Words) /\ transformations \in Seq(Points)
    BY <1>2, MapStoreAssumption DEF IInv, TypeOK, MapStoreAssumption
  <2>3. IsCopied(list, locations, t, directions, transformations)
    BY DEF IsCopied, Copied
  <2> HIDE DEF list
  <2>4. /\ list \in Seq(Location) /\ Len(list) = Len(locations) /\ Ids(list) = Ids(locations)
        /\ \A i \in 1 .. Len(locations) : list[i].id = locations[i].id
        /\ \A i \in 1 .. Len(locations) : i # t => list[i] = locations[i]
        /\ list[t].dirs = directions
    BY <2>2, <2>3, EditedPlace
  <2>5. IdsAreFresh' /\ FileIsOnScreen' /\ PlacesAreSafe'
    BY <2>1, <2>4, ArrayChange
  <2>6. list # <<>>
    BY <2>2, <2>4
  <2>7. TypeOK'
    BY <2>1, <2>4 DEF IInv, TypeOK
  <2>8. OpenPlaceExists'
    BY <2>1, <2>4, <2>6 DEF IInv, OpenPlaceExists
  <2>9. Cur' = Cur
    BY <2>1, <2>4 DEF Cur
  <2>10. DraftIsLast'
    <3> SUFFICES ASSUME sheet = "mapping", clean, draft \in Ids(list)
                 PROVE  list[Len(list)].id = draft
      BY <2>1 DEF DraftIsLast
    <3>1. locations[Len(locations)].id = draft
      BY <2>4 DEF IInv, DraftIsLast
    <3>2. Len(locations) \in 1 .. Len(locations)
      BY <2>2
    <3> QED
      BY <2>4, <3>1, <3>2
  <2>11. OpenPlaceIsMirrored'
    <3> SUFFICES ASSUME clean PROVE list[Cur].dirs = directions
      BY <2>1, <2>9 DEF OpenPlaceIsMirrored
    <3>1. Cur \in 1 .. Len(locations)
      BY OpenPlaceIsInArray DEF IInv, OpenPlaceExists
    <3>2. locations[Cur].dirs = directions
      BY DEF IInv, OpenPlaceIsRight, OpenPlaceIsMirrored
    <3> QED
      BY <2>4, <3>1, <3>2
  <2>12. PointsCovered'
    BY <2>1 DEF IInv, OpenPlaceIsRight, PointsCovered
  <2> QED
    BY <2>5, <2>7, <2>8, <2>10, <2>11, <2>12 DEF IInv, OpenPlaceIsRight
<1> QED
  BY <1>1, <1>2

(* Closing a sheet uploads nothing, or the last place, under the id of a    *)
(* draft that no document has yet.                                          *)
LEMMA ClosingUploads ==
  ASSUME IInv, CloseSheet
  PROVE  \/ cloud' = cloud
         \/ /\ sheet = "mapping" /\ draft \in PlaceIds /\ draft <= lastId
            /\ cloud[draft] = NoDoc
            /\ Uploaded \in Location /\ Uploaded.id \in Ids(locations)
            /\ cloud' = [cloud EXCEPT ![draft] = Uploaded]
<1>1. CASE sheet = "mapping" /\ isPublic
  <2>1. cloud' = [cloud EXCEPT ![draft] = Uploaded]
    BY <1>1 DEF CloseSheet, UploadKey
  <2>2. /\ draft \in PlaceIds /\ draft <= lastId /\ cloud[draft] = NoDoc
        /\ locations \in Seq(Location)
    BY <1>1 DEF IInv, TypeOK, IdsAreFresh
  <2>3. Len(locations) \in 1 .. Len(locations)
    BY <1>1, OpenPlaceIsInArray DEF Cur
  <2>4. Uploaded \in Location /\ Uploaded.id \in Ids(locations)
    BY <2>2, <2>3, IdsOfElements DEF Uploaded
  <2> QED
    BY <1>1, <2>1, <2>2, <2>4
<1>2. CASE ~ (sheet = "mapping" /\ isPublic)
  BY <1>2, Zenon DEF CloseSheet
<1> QED
  BY <1>1, <1>2

LEMMA CloseSheetKeeps ==
  ASSUME IInv, CloseSheet PROVE IInv'
<1>1. /\ running' = running /\ locations' = locations /\ file' = file
      /\ UNCHANGED <<lastId, running>>
      /\ ~ ChangeIsDue /\ seen' = <<>>
      /\ sheet' = "closed" /\ clean' = FALSE /\ draft' = 0
  BY DEF CloseSheet, Foreign, UpToDate
<1>2. /\ cloud \in [PlaceIds -> Location \cup {NoDoc}] /\ lastId \in Nat
      /\ Ids(locations) \cup Ids(file) \cup SharedIds \subseteq 0 .. lastId
      /\ \A d \in PlaceIds : d > lastId => cloud[d] = NoDoc
  BY DEF IInv, TypeOK, IdsAreFresh, PlaceIds
<1>3. /\ cloud' \in [PlaceIds -> Location \cup {NoDoc}]
      /\ \A d \in PlaceIds : d > lastId => cloud'[d] = NoDoc
      /\ \A d \in PlaceIds : cloud[d] # NoDoc => cloud'[d] = cloud[d]
      /\ \A d \in PlaceIds : cloud'[d] # NoDoc =>
           cloud[d] = cloud'[d] \/ cloud'[d].id \in Ids(locations)
  <2>1. CASE cloud' = cloud
    BY <1>2, <2>1
  <2>2. CASE cloud' # cloud
    <3>1. /\ draft \in PlaceIds /\ draft <= lastId /\ cloud[draft] = NoDoc
          /\ Uploaded \in Location /\ Uploaded.id \in Ids(locations)
          /\ cloud' = [cloud EXCEPT ![draft] = Uploaded]
      BY <2>2, ClosingUploads
    <3>2. ASSUME NEW d \in PlaceIds
          PROVE  cloud'[d] = IF d = draft THEN Uploaded ELSE cloud[d]
      BY <1>2, <3>1
    <3>3. cloud' \in [PlaceIds -> Location \cup {NoDoc}]
      BY <1>2, <3>1
    <3>4. \A d \in PlaceIds : d > lastId => d # draft
      BY <1>2, <3>1 DEF PlaceIds
    <3> QED
      BY <1>2, <3>1, <3>2, <3>3, <3>4
  <2> QED
    BY <2>1, <2>2
<1>4. SharedIds \subseteq SharedIds' /\ SharedIds' \subseteq SharedIds \cup Ids(locations)
  BY <1>3 DEF SharedIds
<1>5. TypeOK'
  <2>1. /\ directions \in Seq(Words) /\ transformations \in Seq(Points)
        /\ MaxId \in Nat
    BY MapStoreAssumption DEF IInv, TypeOK, MapStoreAssumption
  <2>2. directions' \in Seq(Words) /\ transformations' \in Seq(Points)
    <3>1. CASE sheet = "add"
      BY <2>1, <3>1 DEF CloseSheet
    <3>2. CASE sheet # "add"
      BY <3>2 DEF CloseSheet
    <3> QED
      BY <3>1, <3>2
  <2>3. draft' \in PlaceIds /\ isPublic' = TRUE
    BY <1>1, <2>1 DEF CloseSheet, PlaceIds
  <2>4. UNCHANGED <<fetch, i3, timers, addAudio, lastPoint>>
    BY DEF CloseSheet
  <2>5. locations' \in Seq(Location) /\ file' \in Seq(Location) /\ seen' \in Seq(Location)
    BY <1>1 DEF IInv, TypeOK
  <2> QED
    BY <1>1, <1>3, <2>2, <2>3, <2>4, <2>5 DEF IInv, TypeOK
<1>6. OpenPlaceExists' /\ DraftIsLast'
  BY <1>1 DEF OpenPlaceExists, DraftIsLast
<1>7. IdsAreFresh'
  BY <1>1, <1>2, <1>3, <1>4 DEF IdsAreFresh
<1>8. FileIsOnScreen'
  BY <1>1 DEF IInv, FileIsOnScreen
<1>9. PlacesAreSafe'
  BY <1>1, <1>4 DEF IInv, PlacesAreSafe
<1>10. OpenPlaceIsRight'
  BY <1>1 DEF OpenPlaceIsRight, OpenPlaceIsMirrored, PointsCovered
<1> QED
  BY <1>5, <1>6, <1>7, <1>8, <1>9, <1>10 DEF IInv

-----------------------------------------------------------------------------
(***************************************************************************)
(* The theorems.                                                           *)
(***************************************************************************)

LEMMA InitHolds ==
  ASSUME Init PROVE IInv
<1>1. /\ locations = <<>> /\ file = <<>> /\ Ids(locations) = {} /\ Ids(file) = {}
      /\ running = FALSE /\ sheet = "closed" /\ clean = FALSE /\ draft = 0 /\ lastId = 0
  BY DEF Init, Foreign, Ids
<1>2. MaxId \in Nat /\ MaxPoints \in Nat /\ 0 \in PlaceIds /\ 0 \in Points
  BY MapStoreAssumption DEF MapStoreAssumption, PlaceIds, Points
<1>3. PICK w \in Words :
        cloud = [id \in PlaceIds |->
                   IF id = Foreign
                   THEN [id |-> Foreign, dirs |-> <<w>>, pts |-> <<0>>]
                   ELSE NoDoc]
  BY DEF Init
<1> DEFINE shared == [id |-> Foreign, dirs |-> <<w>>, pts |-> <<0>>]
<1>4. shared \in Location /\ shared.id = 0
  <2>1. <<w>> \in Seq(Words) /\ <<0>> \in Seq(Points)
    BY <1>2
  <2> QED
    BY <1>2, <2>1 DEF Location, Foreign
<1> HIDE DEF shared
<1>5. /\ cloud \in [PlaceIds -> Location \cup {NoDoc}]
      /\ \A d \in PlaceIds : cloud[d] = IF d = 0 THEN shared ELSE NoDoc
  BY <1>3, <1>4 DEF shared, Foreign
<1>6. SharedIds \subseteq {0}
  BY <1>4, <1>5 DEF SharedIds
<1>7. TypeOK
  <2>1. locations \in Seq(Location) /\ file \in Seq(Location)
    BY <1>1
  <2>2. seen = <<>> /\ directions \in Seq(Words) /\ transformations \in Seq(Points)
    BY DEF Init
  <2>3. /\ fetch = "none" /\ isPublic = TRUE /\ addAudio = FALSE
        /\ i3 \in Nat \ {0} /\ timers \subseteq Nat \ {0} /\ lastPoint = 0
    BY DEF Init
  <2> QED
    BY <1>1, <1>2, <1>5, <2>1, <2>2, <2>3 DEF TypeOK
<1>8. OpenPlaceExists
  BY <1>1 DEF OpenPlaceExists
<1>9. IdsAreFresh
  <2>1. Ids(locations) \cup Ids(file) \cup SharedIds \subseteq 0 .. lastId
    <3>1. {0} \subseteq 0 .. lastId
      BY <1>1
    <3> QED
      BY <1>1, <1>6, <3>1, Zenon
  <2>2. \A d \in PlaceIds : d > lastId => cloud[d] = NoDoc
    BY <1>1, <1>5
  <2> QED
    BY <1>1, <2>1, <2>2 DEF IdsAreFresh
<1>10. DraftIsLast /\ FileIsOnScreen
  BY <1>1 DEF DraftIsLast, FileIsOnScreen
<1>11. PlacesAreSafe
  BY <1>1 DEF PlacesAreSafe, ChangeIsDue
<1>12. OpenPlaceIsRight
  BY <1>1 DEF OpenPlaceIsRight, OpenPlaceIsMirrored, PointsCovered
<1> QED
  BY <1>7, <1>8, <1>9, <1>10, <1>11, <1>12 DEF IInv

LEMMA StepKeeps ==
  ASSUME IInv, [Next]_vars PROVE IInv'
<1>1. CASE Launch
  BY <1>1, LaunchKeeps
<1>2. CASE NearbyArrives
  BY <1>2, NearbyArrivesKeeps
<1>3. CASE OpenAdd
  BY <1>3, OpenAddKeeps
<1>4. CASE \E i \in 1 .. MaxPlaces : OpenRow(i)
  BY <1>4, OpenRowKeeps
<1>5. CASE RowsDisappear
  BY <1>5, RowsDisappearKeeps
<1>6. CASE BeginMapping
  BY <1>6, BeginMappingKeeps
<1>7. CASE OnChange
  BY <1>7, OnChangeKeeps
<1>8. CASE MapAppears
  BY <1>8, MapAppearsKeeps
<1>9. CASE \E w \in Words : AddDirection(w)
  BY <1>9, AddDirectionKeeps
<1>10. CASE PlacePoint
  BY <1>10, PlacePointKeeps
<1>11. CASE \E t \in 1 .. MaxPlaces : Tick(t)
  BY <1>11, TickKeeps
<1>12. CASE CloseSheet
  BY <1>12, CloseSheetKeeps
<1>13. CASE Kill
  BY <1>13, GoneKeeps DEF Kill
<1>14. CASE UNCHANGED vars
  <2>1. UNCHANGED <<running, locations, file, cloud, fetch, sheet, seen, draft, isPublic,
                    i3, timers, directions, transformations, addAudio, lastId, lastPoint,
                    clean>>
    BY <1>14 DEF vars, memory
  <2>2. TypeOK' /\ OpenPlaceExists' /\ DraftIsLast' /\ FileIsOnScreen'
    BY <2>1 DEF IInv, TypeOK, OpenPlaceExists, DraftIsLast, FileIsOnScreen
  <2>3. SharedIds' = SharedIds /\ Cur' = Cur
    BY <2>1 DEF SharedIds, Cur
  <2>4. IdsAreFresh' /\ PlacesAreSafe'
    BY <2>1, <2>3 DEF IInv, IdsAreFresh, PlacesAreSafe, ChangeIsDue
  <2>5. OpenPlaceIsRight'
    BY <2>1, <2>3 DEF IInv, OpenPlaceIsRight, OpenPlaceIsMirrored, PointsCovered
  <2> QED
    BY <2>2, <2>4, <2>5 DEF IInv
<1> QED
  BY <1>1, <1>2, <1>3, <1>4, <1>5, <1>6, <1>7, <1>8, <1>9, <1>10, <1>11, <1>12, <1>13,
     <1>14 DEF Next

THEOREM InvariantHolds == Spec => []IInv
<1>1. Init => IInv
  BY InitHolds
<1>2. IInv /\ [Next]_vars => IInv'
  BY StepKeeps
<1> QED
  BY <1>1, <1>2, PTL DEF Spec

(* Every variable stays within its range: in particular no id and no index  *)
(* is ever made up.                                                         *)
THEOREM TypeCorrect == Spec => []TypeOK
<1>1. IInv => TypeOK
  BY DEF IInv
<1> QED
  BY <1>1, InvariantHolds, PTL

(* At whatever moment the process ends, every place on screen is in the     *)
(* file or in Firestore, except the draft from the tap on Begin Mapping to  *)
(* the onChange that saves it.                                              *)
THEOREM PlacesStaySafe == Spec => []PlacesAreSafe
<1>1. IInv => PlacesAreSafe
  BY DEF IInv
<1> QED
  BY <1>1, InvariantHolds, PTL

(* A place opened on clean globals is what its directions say, and has no   *)
(* more points than directions, whatever the timers of other places do.     *)
THEOREM OpenPlaceStaysRight == Spec => []OpenPlaceIsRight
<1>1. IInv => OpenPlaceIsRight
  BY DEF IInv
<1> QED
  BY <1>1, InvariantHolds, PTL

(* No write of locations.txt, of AddView or of rows that disappear, drops a *)
(* place that is in it: nothing in it is ever missing on screen.            *)
THEOREM FileKeepsIds == Spec => FileIdsKept
<1>1. ASSUME IInv, [Next]_vars PROVE Ids(file) \subseteq Ids(file')
  <2>1. CASE \/ Launch \/ OpenAdd \/ BeginMapping \/ MapAppears \/ PlacePoint
             \/ CloseSheet \/ Kill \/ UNCHANGED vars
    BY <2>1
       DEF Launch, OpenAdd, BeginMapping, MapAppears, PlacePoint, CloseSheet, Kill, Gone, vars
  <2>2. CASE NearbyArrives
    BY <2>2, Zenon DEF NearbyArrives, Gone
  <2>3. CASE \E i \in 1 .. MaxPlaces : OpenRow(i)
    BY <2>3 DEF OpenRow
  <2>4. CASE RowsDisappear \/ OnChange
    <3>1. running /\ file' = locations
      BY <2>4 DEF RowsDisappear, OnChange, ShowsMap
    <3> QED
      BY <1>1, <3>1 DEF IInv, FileIsOnScreen
  <2>5. CASE \E w \in Words : AddDirection(w)
    BY <2>5 DEF AddDirection
  <2>6. CASE \E t \in 1 .. MaxPlaces : Tick(t)
    BY <2>6, Zenon DEF Tick, Gone
  <2> QED
    BY <1>1, <2>1, <2>2, <2>3, <2>4, <2>5, <2>6 DEF Next
<1> QED
  BY <1>1, InvariantHolds, PTL DEF Spec, FileIdsKept

(* The steps that leave Firestore alone are all but the end of a sheet.     *)
LEMMA OnlyClosingUploads ==
  ASSUME [Next]_vars PROVE CloseSheet \/ cloud' = cloud
<1>1. CASE \/ Launch \/ OpenAdd \/ RowsDisappear \/ BeginMapping \/ OnChange \/ MapAppears
           \/ PlacePoint \/ Kill \/ UNCHANGED vars
  BY <1>1
     DEF Launch, OpenAdd, RowsDisappear, BeginMapping, OnChange, ShowsMap, MapAppears,
         PlacePoint, Kill, Gone, vars
<1>2. CASE NearbyArrives
  BY <1>2, Zenon DEF NearbyArrives, Gone
<1>3. CASE \E i \in 1 .. MaxPlaces : OpenRow(i)
  BY <1>3 DEF OpenRow
<1>4. CASE \E w \in Words : AddDirection(w)
  BY <1>4 DEF AddDirection
<1>5. CASE \E t \in 1 .. MaxPlaces : Tick(t)
  BY <1>5, Zenon DEF Tick, Gone
<1> QED
  BY <1>1, <1>2, <1>3, <1>4, <1>5 DEF Next

(* The upload at the end of a map stores the draft with every direction     *)
(* that was added, if it was opened on clean globals and is in the array;   *)
(* no upload, of whatever place, replaces a document that is there.         *)
THEOREM UploadsStayRight == Spec => UploadIsRight
<1>1. ASSUME IInv, [Next]_vars, clean, cloud' # cloud, draft \in Ids(locations)
      PROVE  cloud'[draft].id = draft /\ cloud'[draft].dirs = directions
  <2>1. CloseSheet
    BY <1>1, OnlyClosingUploads
  <2>2. /\ sheet = "mapping" /\ draft \in PlaceIds
        /\ cloud' = [cloud EXCEPT ![draft] = Uploaded]
    BY <1>1, <2>1, ClosingUploads
  <2>3. cloud'[draft] = locations[Len(locations)]
    BY <1>1, <2>2 DEF IInv, TypeOK, Uploaded
  <2>4. locations[Len(locations)].id = draft
    BY <1>1, <2>2 DEF IInv, DraftIsLast
  <2>5. locations[Len(locations)].dirs = directions
    BY <1>1, <2>2 DEF IInv, OpenPlaceIsRight, OpenPlaceIsMirrored, Cur
  <2> QED
    BY <2>3, <2>4, <2>5
<1>2. ASSUME IInv, [Next]_vars
      PROVE  \A d \in PlaceIds : cloud[d] # NoDoc => cloud'[d] = cloud[d]
  <2>1. CASE cloud' = cloud
    BY <2>1
  <2>2. CASE cloud' # cloud
    <3>1. /\ draft \in PlaceIds /\ cloud[draft] = NoDoc
          /\ cloud' = [cloud EXCEPT ![draft] = Uploaded]
      BY <1>2, <2>2, OnlyClosingUploads, ClosingUploads
    <3> QED
      BY <1>2, <3>1 DEF IInv, TypeOK
  <2> QED
    BY <2>1, <2>2
<1>3. Spec => UploadIsWhatWasMapped
  BY <1>1, InvariantHolds, PTL DEF Spec, UploadIsWhatWasMapped
<1>4. Spec => UploadsNeverOverwrite
  BY <1>2, InvariantHolds, PTL DEF Spec, UploadsNeverOverwrite
<1> QED
  BY <1>3, <1>4 DEF UploadIsRight

=============================================================================
