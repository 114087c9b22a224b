------------------------- MODULE GetDocumentsProofs -------------------------
(***************************************************************************)
(* Proofs about the read path of the Firestore client: getDocuments, for   *)
(* any number of calls and of faults, and limbo resolution, for any number *)
(* of documents, of places and of updates.                                 *)
(***************************************************************************)
EXTENDS GetDocuments, Limbo, FunctionTheorems, FiniteSetTheorems,
        WellFoundedInduction, TLAPS

(***************************************************************************)
(* The invariant, in three parts: the gets and their two queues, the       *)
(* layers from the listeners down to the timers, and the wire.             *)
(***************************************************************************)

GetsTyped ==
  /\ calls \in 0 .. MaxGets
  /\ tasks \in Seq(Task)
  /\ events \in Seq(Event)
  /\ muted \subseteq Gets
  /\ answers \in Seq(Event)
  /\ listeners \subseteq Gets
  /\ raised \subseteq Gets

LayersTyped ==
  /\ view \in {"none", "local", "synced"}
  /\ listening \in BOOLEAN
  /\ state \in {"Initial", "Starting", "Open", "Error", "Backoff"}
  /\ idleTimer \in BOOLEAN
  /\ targetCurrent \in BOOLEAN
  /\ onlineState \in {"Unknown", "Online", "Offline"}
  /\ failures \in Nat
  /\ onlineTimer \in BOOLEAN

Request  == [op : {"watch", "unwatch"}, watch : Nat]
Response == [kind : {"added", "current", "snapshot", "removed", "rejected"}, watch : Nat]

WireTyped ==
  /\ outstanding \in Int
  /\ requests \in Seq(Request)
  /\ responses \in Seq(Response)
  /\ served \in [at : {"none", "added", "current"}, watch : Nat]
  /\ dirty \in BOOLEAN
  /\ permitted \in BOOLEAN
  /\ watches \in Nat
  /\ currentWatch \in Nat

ToAdd(g)    == \E i \in 1 .. Len(tasks) : tasks[i] = [op |-> "add", get |-> g]
HasEvent(g) == \E i \in 1 .. Len(events) : events[i].get = g

(* Nothing is known of a get before its call. *)
CalledOnly ==
  /\ listeners \cup raised \cup Answered \subseteq 1 .. calls
  /\ \A i \in 1 .. Len(events) : events[i].get <= calls

(* A get that is still to be added has left no trace, and is added once. *)
NewGets ==
  \A g \in Gets : ToAdd(g) => /\ g <= calls
                              /\ g \notin listeners \cup raised \cup Answered
                              /\ ~ HasEvent(g)

AddedOnce ==
  \A i, j \in 1 .. Len(tasks) : tasks[i].op = "add" /\ tasks[i] = tasks[j] => i = j

RemovedWhenMuted ==
  \A i \in 1 .. Len(tasks) : tasks[i].op = "remove" => tasks[i].get \in muted

(* An error is the last event of a get, whose listener has gone. *)
ErrorIsLast ==
  \A i \in 1 .. Len(events) :
    events[i].kind = "error" =>
      /\ events[i].get \notin listeners
      /\ \A j \in 1 .. Len(events) : j > i => events[j].get # events[i].get

(* An answered get hears of nothing more: it is muted, or was told an error. *)
AnsweredIsQuiet ==
  /\ muted \subseteq Answered
  /\ \A g \in Answered : g \in muted \/ (g \notin listeners /\ ~ HasEvent(g))

GetsInv ==
  /\ GetsTyped /\ CalledOnly /\ NewGets /\ AddedOnce /\ RemovedWhenMuted
  /\ ErrorIsLast /\ AnsweredIsQuiet /\ AnsweredOnce /\ NoGetForgotten

LayersInv ==
  /\ LayersTyped
  /\ QueryIsWatched /\ NobodyWaitsInVain /\ TimerMeansUndecided /\ IdleMeansUnneeded

(* A stream that is not open has nothing on the wire. *)
ClosedIsEmpty ==
  state # "Open" => /\ requests = <<>> /\ responses = <<>> /\ outstanding = 0
                    /\ served.at = "none"

(* The backend serves only what it permits. *)
PermittedOnly ==
  /\ served.at # "none" => permitted
  /\ dirty => served.at # "none"
  /\ \A i \in 1 .. Len(responses) :
       responses[i].kind = "rejected" <=> ~ permitted /\ responses[i].kind # "removed"

Pairing == {"added", "removed"}

(* The answers to requests that are on their way. *)
PairsIn(r) == {i \in 1 .. Len(r) : r[i].kind \in Pairing}

(* The last request tells whether the target is listened to, and the        *)
(* backend serves what the requests it has taken say.                       *)
LastRequest ==
  permitted /\ state = "Open" =>
    IF requests = <<>>
    THEN /\ listening <=> served.at # "none"
         /\ listening => served.watch = watches
    ELSE /\ listening <=> requests[Len(requests)].op = "watch"
         /\ listening => requests[Len(requests)].watch = watches

(* What follows the last answer to a request is about the watch served. *)
LatestIsServed ==
  \A i \in 1 .. Len(responses) :
    /\ served.at # "none"
    /\ \A j \in 1 .. Len(responses) : j > i => responses[j].kind \notin Pairing
    => responses[i].watch = served.watch

WireInv ==
  /\ WireTyped
  /\ ClosedIsEmpty /\ PermittedOnly /\ LastRequest /\ LatestIsServed /\ OutstandingUnderWay

IInv == GetsInv /\ LayersInv /\ WireInv /\ faults \in 0 .. MaxFaults

-----------------------------------------------------------------------------
(***************************************************************************)
(* Lemmas about sequences, the two queues and what is posted to them.      *)
(***************************************************************************)

LEMMA AppendElements ==
  ASSUME NEW S, NEW s \in Seq(S), NEW e \in S
  PROVE  /\ Append(s, e) \in Seq(S)
         /\ Len(Append(s, e)) = Len(s) + 1
         /\ \A i \in 1 .. Len(s) : Append(s, e)[i] = s[i]
         /\ Append(s, e)[Len(s) + 1] = e
  OBVIOUS

LEMMA TailElements ==
  ASSUME NEW S, NEW s \in Seq(S), s # <<>>
  PROVE  /\ Tail(s) \in Seq(S)
         /\ Len(s) \in Nat \ {0}
         /\ Len(Tail(s)) = Len(s) - 1
         /\ \A i \in 1 .. Len(s) - 1 : Tail(s)[i] = s[i + 1]
         /\ Head(s) = s[1]
         /\ Head(s) \in S
  OBVIOUS

(* A task added to the worker queue. *)
LEMMA TaskAppended ==
  ASSUME tasks \in Seq(Task), NEW t \in Task, tasks' = Append(tasks, t)
  PROVE  /\ tasks' \in Seq(Task)
         /\ Len(tasks') = Len(tasks) + 1
         /\ \A i \in 1 .. Len(tasks) : tasks'[i] = tasks[i]
         /\ tasks'[Len(tasks) + 1] = t
         /\ \A g : ToAdd(g)' <=> ToAdd(g) \/ t = [op |-> "add", get |-> g]
<1>1. /\ tasks' \in Seq(Task)
      /\ Len(tasks') = Len(tasks) + 1
      /\ \A i \in 1 .. Len(tasks) : tasks'[i] = tasks[i]
      /\ tasks'[Len(tasks) + 1] = t
  BY AppendElements
<1>2. ASSUME NEW g PROVE ToAdd(g)' <=> ToAdd(g) \/ t = [op |-> "add", get |-> g]
  <2>1. Len(tasks) \in Nat
    OBVIOUS
  <2> QED  BY <1>1, <2>1 DEF ToAdd
<1> QED  BY <1>1, <1>2

(* The first task taken from it. *)
LEMMA TaskTaken ==
  ASSUME tasks \in Seq(Task), tasks # <<>>, tasks' = Tail(tasks)
  PROVE  /\ tasks' \in Seq(Task)
         /\ Len(tasks) \in Nat \ {0}
         /\ Len(tasks') = Len(tasks) - 1
         /\ \A i \in 1 .. Len(tasks') : tasks'[i] = tasks[i + 1]
         /\ Head(tasks) = tasks[1] /\ Head(tasks) \in Task
         /\ \A g : ToAdd(g)' => ToAdd(g)
         /\ \A g : ToAdd(g) => ToAdd(g)' \/ Head(tasks) = [op |-> "add", get |-> g]
<1>1. /\ tasks' \in Seq(Task)
      /\ Len(tasks) \in Nat \ {0}
      /\ Len(tasks') = Len(tasks) - 1
      /\ \A i \in 1 .. Len(tasks') : tasks'[i] = tasks[i + 1]
      /\ Head(tasks) = tasks[1] /\ Head(tasks) \in Task
  BY TailElements
<1>2. ASSUME NEW g, ToAdd(g)' PROVE ToAdd(g)
  <2>1. PICK i \in 1 .. Len(tasks') : tasks'[i] = [op |-> "add", get |-> g]
    BY <1>2 DEF ToAdd
  <2>2. i + 1 \in 1 .. Len(tasks) /\ tasks[i + 1] = [op |-> "add", get |-> g]
    BY <1>1, <2>1
  <2> QED  BY <2>2 DEF ToAdd
<1>3. ASSUME NEW g, ToAdd(g), Head(tasks) # [op |-> "add", get |-> g] PROVE ToAdd(g)'
  <2>1. PICK i \in 1 .. Len(tasks) : tasks[i] = [op |-> "add", get |-> g]
    BY <1>3 DEF ToAdd
  <2>2. i - 1 \in 1 .. Len(tasks') /\ tasks'[i - 1] = [op |-> "add", get |-> g]
    BY <1>1, <1>3, <2>1
  <2> QED  BY <2>2 DEF ToAdd
<1> QED  BY <1>1, <1>2, <1>3

(* The first event taken from the main queue. *)
LEMMA EventTaken ==
  ASSUME events \in Seq(Event), events # <<>>, events' = Tail(events)
  PROVE  /\ events' \in Seq(Event)
         /\ Len(events) \in Nat \ {0}
         /\ Len(events') = Len(events) - 1
         /\ \A i \in 1 .. Len(events') : events'[i] = events[i + 1]
         /\ Head(events) = events[1] /\ Head(events) \in Event
         /\ HasEvent(Head(events).get)
         /\ \A g : HasEvent(g)' => HasEvent(g)
         /\ \A g : HasEvent(g) => HasEvent(g)' \/ g = Head(events).get
<1>1. /\ events' \in Seq(Event)
      /\ Len(events) \in Nat \ {0}
      /\ Len(events') = Len(events) - 1
      /\ \A i \in 1 .. Len(events') : events'[i] = events[i + 1]
      /\ Head(events) = events[1] /\ Head(events) \in Event
  BY TailElements
<1>2. ASSUME NEW g, HasEvent(g)' PROVE HasEvent(g)
  <2>1. PICK i \in 1 .. Len(events') : events'[i].get = g
    BY <1>2 DEF HasEvent
  <2>2. i + 1 \in 1 .. Len(events) /\ events[i + 1].get = g
    BY <1>1, <2>1
  <2> QED  BY <2>2 DEF HasEvent
<1>3. ASSUME NEW g, HasEvent(g), g # Head(events).get PROVE HasEvent(g)'
  <2>1. PICK i \in 1 .. Len(events) : events[i].get = g
    BY <1>3 DEF HasEvent
  <2>2. i - 1 \in 1 .. Len(events') /\ events'[i - 1].get = g
    BY <1>1, <1>3, <2>1
  <2> QED  BY <2>2 DEF HasEvent
<1>4. HasEvent(Head(events).get)
  <2>1. 1 \in 1 .. Len(events)
    BY <1>1
  <2> QED  BY <1>1, <2>1 DEF HasEvent
<1> QED  BY <1>1, <1>2, <1>3, <1>4

(* Post adds one event for each of these listeners at the end. *)
LEMMA Posted ==
  ASSUME events \in Seq(Event), NEW gets \in SUBSET Gets,
         NEW kind \in {"cache", "server", "error"}, Post(gets, kind)
  PROVE  /\ events' \in Seq(Event)
         /\ Len(events) \in Nat /\ Len(events') \in Nat /\ Len(events) <= Len(events')
         /\ \A i \in 1 .. Len(events) : events'[i] = events[i]
         /\ \A i \in 1 .. Len(events') :
              i > Len(events) => events'[i].get \in gets /\ events'[i].kind = kind
         /\ \A i, j \in 1 .. Len(events') :
              i > Len(events) /\ i < j => events'[i].get # events'[j].get
         /\ \A g : HasEvent(g)' <=> HasEvent(g) \/ g \in gets
<1>1. Cardinality(gets) \in Nat
  <2>1. IsFiniteSet(Gets)
    BY GetDocumentsAssumption, FS_Interval DEF Gets, GetDocumentsAssumption
  <2>2. IsFiniteSet(gets)
    BY <2>1, FS_Subset
  <2> QED  BY <2>2, FS_CardinalityType
<1> DEFINE c == Cardinality(gets)
<1>2. PICK order \in [1 .. c -> gets] :
        /\ \A i, j \in 1 .. c : i < j => order[i] < order[j]
        /\ \A g \in gets : \E i \in 1 .. c : order[i] = g
        /\ events' = events \o [i \in 1 .. c |-> [get |-> order[i], kind |-> kind]]
  BY DEF Post
<1> HIDE DEF c
<1> DEFINE new == [i \in 1 .. c |-> [get |-> order[i], kind |-> kind]]
           n == Len(events)
<1>3. c \in Nat /\ n \in Nat
  BY <1>1 DEF c
<1>4. new \in Seq(Event) /\ Len(new) = c
  <2>1. \A i \in 1 .. c : [get |-> order[i], kind |-> kind] \in Event
    BY <1>2 DEF Event
  <2> QED  BY <1>3, <2>1
<1>5. /\ events' \in Seq(Event) /\ Len(events') = n + c
      /\ \A i \in 1 .. n : events'[i] = events[i]
      /\ \A i \in 1 .. c : events'[n + i] = new[i]
  <2> HIDE DEF new
  <2> QED  BY <1>2, <1>3, <1>4 DEF new
<1>6. \A i \in 1 .. c : events'[n + i] = [get |-> order[i], kind |-> kind]
  BY <1>5
<1> HIDE DEF new, n
<1>7. ASSUME NEW i \in 1 .. Len(events'), i > n
      PROVE  \E p \in 1 .. c : i = n + p /\ events'[i].get = order[p] /\ events'[i].kind = kind
  <2>1. i - n \in 1 .. c /\ n + (i - n) = i
    BY <1>3, <1>5, <1>7
  <2>2. PICK p \in 1 .. c : i = n + p
    BY <2>1
  <2>3. events'[n + p] = [get |-> order[p], kind |-> kind]
    BY <1>6
  <2> QED  BY <2>2, <2>3
<1>8. \A i \in 1 .. c : order[i] \in gets
  BY <1>2
<1>9. ASSUME NEW i \in 1 .. Len(events'), NEW j \in 1 .. Len(events'), i > n, i < j
      PROVE  events'[i].get # events'[j].get
  <2>1. PICK p \in 1 .. c : i = n + p /\ events'[i].get = order[p]
    BY <1>7, <1>9
  <2>2. j > n
    BY <1>3, <1>9
  <2>3. PICK q \in 1 .. c : j = n + q /\ events'[j].get = order[q]
    BY <1>7, <2>2
  <2>4. p < q
    BY <1>3, <1>9, <2>1, <2>3
  <2>5. order[p] < order[q]
    BY <1>2, <2>4
  <2>6. order[p] \in 1 .. MaxGets /\ order[q] \in 1 .. MaxGets
    BY <1>8, Zenon DEF Gets
  <2> QED  BY <2>1, <2>3, <2>5, <2>6
<1>10. ASSUME NEW g PROVE HasEvent(g)' <=> HasEvent(g) \/ g \in gets
  <2>1. ASSUME HasEvent(g)' PROVE HasEvent(g) \/ g \in gets
    <3>1. PICK i \in 1 .. Len(events') : events'[i].get = g
      BY <2>1 DEF HasEvent
    <3>2. CASE i > n
      <4>1. PICK p \in 1 .. c : events'[i].get = order[p]
        BY <1>7, <3>2
      <4> QED  BY <1>8, <3>1, <4>1
    <3>3. CASE ~ (i > n)
      <4>1. i \in 1 .. Len(events) /\ events[i].get = g
        BY <1>3, <1>5, <3>1, <3>3 DEF n
      <4> QED  BY <4>1 DEF HasEvent
    <3> QED  BY <3>2, <3>3
  <2>2. ASSUME HasEvent(g) PROVE HasEvent(g)'
    <3>1. PICK i \in 1 .. Len(events) : events[i].get = g
      BY <2>2 DEF HasEvent
    <3>2. i \in 1 .. Len(events') /\ events'[i].get = g
      BY <1>3, <1>5, <3>1 DEF n
    <3> QED  BY <3>2 DEF HasEvent
  <2>3. ASSUME g \in gets PROVE HasEvent(g)'
    <3>1. PICK i \in 1 .. c : order[i] = g
      BY <1>2, <2>3
    <3>2. n + i \in 1 .. Len(events')
      BY <1>3, <1>5
    <3>3. events'[n + i] = [get |-> order[i], kind |-> kind]
      BY <1>6
    <3> QED  BY <3>1, <3>2, <3>3 DEF HasEvent
  <2> QED  BY <2>1, <2>2, <2>3
<1>11. \A i \in 1 .. Len(events') : i > n => events'[i].get \in gets /\ events'[i].kind = kind
  BY <1>7, <1>8
<1>12. Len(events') \in Nat /\ n <= Len(events')
  BY <1>3, <1>5
<1> QED  BY <1>3, <1>5, <1>9, <1>10, <1>11, <1>12 DEF n

-----------------------------------------------------------------------------
(***************************************************************************)
(* The gets: one lemma for each kind of step their queues see.             *)
(***************************************************************************)

LEMMA CallsAreGets ==
  ASSUME calls \in 0 .. MaxGets
  PROVE  calls \in Nat /\ 1 .. calls \subseteq Gets /\ Gets \subseteq Nat \ {0}
<1>1. MaxGets \in Nat
  BY GetDocumentsAssumption DEF GetDocumentsAssumption
<1> QED  BY <1>1 DEF Gets

LEMMA QueueTypes ==
  ASSUME GetsTyped
  PROVE  /\ \A i \in 1 .. Len(events) :
              events[i].get \in Gets /\ events[i].get \in Nat
         /\ \A i \in 1 .. Len(tasks) : tasks[i] \in Task /\ tasks[i].get \in Gets
<1>1. \A i \in 1 .. Len(events) : events[i] \in Event
  BY DEF GetsTyped
<1>2. \A i \in 1 .. Len(tasks) : tasks[i] \in Task
  BY DEF GetsTyped
<1>3. Gets \subseteq Nat
  BY CallsAreGets DEF GetsTyped
<1> QED  BY <1>1, <1>2, <1>3 DEF Event, Task

(* A step that touches neither queue nor listener. *)
LEMMA GetsKept ==
  ASSUME GetsInv, UNCHANGED <<calls, tasks, events, muted, answers, listeners, raised>>
  PROVE  GetsInv'
<1>1. GetsTyped' /\ CalledOnly' /\ NewGets' /\ AddedOnce' /\ RemovedWhenMuted'
  BY DEF GetsInv, GetsTyped, CalledOnly, NewGets, AddedOnce, RemovedWhenMuted,
         ToAdd, HasEvent, Answered
<1>2. ErrorIsLast' /\ AnsweredIsQuiet' /\ AnsweredOnce' /\ NoGetForgotten'
  BY DEF GetsInv, ErrorIsLast, AnsweredIsQuiet, AnsweredOnce, NoGetForgotten,
         HasEvent, Answered, Waiting
<1> QED  BY <1>1, <1>2 DEF GetsInv

(* A call of getDocuments. *)
LEMMA GetsCalled == GetsInv /\ GetDocs => GetsInv'
<1> SUFFICES ASSUME GetsInv, GetDocs PROVE GetsInv'
  OBVIOUS
<1> DEFINE c == calls + 1
<1>1. /\ calls' = c /\ calls < MaxGets /\ tasks' = Append(tasks, [op |-> "add", get |-> c])
      /\ UNCHANGED <<events, muted, answers, listeners, raised>>
  BY DEF GetDocs, query
<1>2. calls \in Nat /\ c \in Gets /\ c \in 0 .. MaxGets /\ 1 .. calls \subseteq 1 .. c
      /\ c \notin 1 .. calls /\ c \in 1 .. c /\ calls < c
  <2>1. MaxGets \in Nat /\ calls \in Nat
    BY GetDocumentsAssumption, CallsAreGets DEF GetDocumentsAssumption, GetsInv, GetsTyped
  <2> QED  BY <1>1, <2>1 DEF Gets
<1> HIDE DEF c
<1>3. [op |-> "add", get |-> c] \in Task
  BY <1>2 DEF Task
<1>4. tasks \in Seq(Task)
  BY DEF GetsInv, GetsTyped
<1>5. /\ tasks' \in Seq(Task)
      /\ Len(tasks') = Len(tasks) + 1
      /\ \A i \in 1 .. Len(tasks) : tasks'[i] = tasks[i]
      /\ tasks'[Len(tasks) + 1] = [op |-> "add", get |-> c]
      /\ \A g : ToAdd(g)' <=> ToAdd(g) \/ [op |-> "add", get |-> c] = [op |-> "add", get |-> g]
  BY <1>1, <1>3, <1>4, TaskAppended
<1>6. \A g : ToAdd(g)' <=> ToAdd(g) \/ g = c
  BY <1>5
<1>7. Answered' = Answered /\ Waiting' = Waiting /\ (\A g : HasEvent(g)' <=> HasEvent(g))
  BY <1>1 DEF Answered, Waiting, HasEvent
<1>8. GetsTyped'
  BY <1>1, <1>2, <1>5 DEF GetsInv, GetsTyped
<1>9. CalledOnly'
  <2>1. listeners' \cup raised' \cup Answered' \subseteq 1 .. c
    BY <1>1, <1>2, <1>7 DEF GetsInv, CalledOnly
  <2>2. ASSUME NEW i \in 1 .. Len(events) PROVE events[i].get <= c
    <3>1. events[i].get <= calls
      BY DEF GetsInv, CalledOnly
    <3>2. events[i].get \in Nat
      BY QueueTypes DEF GetsInv
    <3> QED  BY <1>2, <3>1, <3>2, CallsAreGets DEF c
  <2> QED  BY <1>1, <2>1, <2>2 DEF CalledOnly
<1>10. NewGets'
  <2> SUFFICES ASSUME NEW g \in Gets, ToAdd(g)'
               PROVE  /\ g <= c /\ g \notin listeners \cup raised \cup Answered
                      /\ ~ HasEvent(g)
    BY <1>1, <1>7 DEF NewGets
  <2>1. CASE g = c
    <3>1. g \notin listeners \cup raised \cup Answered
      BY <1>2, <2>1 DEF GetsInv, CalledOnly
    <3>2. ~ HasEvent(g)
      <4>1. ASSUME NEW i \in 1 .. Len(events) PROVE events[i].get # c
        <5>1. events[i].get <= calls
          BY DEF GetsInv, CalledOnly
        <5>2. ~ (c <= calls)
          BY <1>2 DEF c
        <5> QED  BY <5>1, <5>2
      <4> QED  BY <2>1, <4>1 DEF HasEvent
    <3>3. g <= c
      BY <1>2, <2>1 DEF c
    <3> QED  BY <3>1, <3>2, <3>3
  <2>2. CASE g # c
    <3>1. g <= calls /\ g \notin listeners \cup raised \cup Answered /\ ~ HasEvent(g)
      BY <1>6, <2>2 DEF GetsInv, NewGets
    <3>2. g \in Nat
      BY CallsAreGets DEF GetsInv, GetsTyped
    <3>3. g <= c
      BY <1>2, <3>1, <3>2 DEF c
    <3> QED  BY <3>1, <3>3
  <2> QED  BY <2>1, <2>2
<1>11. ~ ToAdd(c)
  <2>1. ~ (c <= calls)
    BY <1>2 DEF c
  <2> QED  BY <1>2, <2>1 DEF GetsInv, NewGets
<1>12. AddedOnce'
  <2> SUFFICES ASSUME NEW i \in 1 .. Len(tasks'), NEW j \in 1 .. Len(tasks'),
                      tasks'[i].op = "add", tasks'[i] = tasks'[j]
               PROVE  i = j
    BY DEF AddedOnce
  <2>1. \A k \in 1 .. Len(tasks) : tasks[k] # [op |-> "add", get |-> c]
    BY <1>11 DEF ToAdd
  <2>2. \A k \in 1 .. Len(tasks') : k \in 1 .. Len(tasks) \/ k = Len(tasks) + 1
    BY <1>4, <1>5
  <2>3. CASE i \in 1 .. Len(tasks) /\ j \in 1 .. Len(tasks)
    BY <1>5, <2>3 DEF GetsInv, AddedOnce
  <2>4. CASE ~ (i \in 1 .. Len(tasks) /\ j \in 1 .. Len(tasks))
    BY <1>5, <2>1, <2>2, <2>4
  <2> QED  BY <2>3, <2>4
<1>13. RemovedWhenMuted'
  <2> SUFFICES ASSUME NEW i \in 1 .. Len(tasks'), tasks'[i].op = "remove"
               PROVE  tasks'[i].get \in muted'
    BY DEF RemovedWhenMuted
  <2>1. i \in 1 .. Len(tasks) \/ i = Len(tasks) + 1
    BY <1>4, <1>5
  <2> QED  BY <1>1, <1>5, <2>1 DEF GetsInv, RemovedWhenMuted
<1>14. ErrorIsLast' /\ AnsweredOnce'
  BY <1>1 DEF GetsInv, ErrorIsLast, AnsweredOnce
<1>15. AnsweredIsQuiet'
  BY <1>1, <1>7 DEF GetsInv, AnsweredIsQuiet
<1>16. NoGetForgotten'
  <2> SUFFICES ASSUME NEW g \in (1 .. c) \ Answered
               PROVE  ToAdd(g)' \/ g \in Waiting \/ HasEvent(g)
    BY <1>1, <1>7 DEF NoGetForgotten, ToAdd, HasEvent
  <2>1. CASE g = c
    BY <1>6, <2>1
  <2>2. CASE g # c
    <3>1. g \in 1 .. calls
      BY <1>2, <2>2 DEF c
    <3> QED  BY <1>6, <3>1 DEF GetsInv, NoGetForgotten, ToAdd, HasEvent
  <2> QED  BY <2>1, <2>2
<1> QED  BY <1>8, <1>9, <1>10, <1>12, <1>13, <1>14, <1>15, <1>16 DEF GetsInv

(* One more answer. *)
LEMMA AnswerAppended ==
  ASSUME answers \in Seq(Event), NEW e \in Event, answers' = Append(answers, e)
  PROVE  answers' \in Seq(Event) /\ Answered' = Answered \cup {e.get}
<1>1. /\ answers' \in Seq(Event) /\ Len(answers) \in Nat
      /\ Len(answers') = Len(answers) + 1
      /\ \A i \in 1 .. Len(answers) : answers'[i] = answers[i]
      /\ answers'[Len(answers) + 1] = e
  BY AppendElements
<1>2. 1 .. Len(answers') = (1 .. Len(answers)) \cup {Len(answers) + 1}
  BY <1>1
<1> QED  BY <1>1, <1>2 DEF Answered

(* An event reaches ListenOnce. *)
LEMMA GetsDelivered == GetsInv /\ DeliverEvent => GetsInv'
<1> SUFFICES ASSUME GetsInv, DeliverEvent PROVE GetsInv'
  OBVIOUS
<1> DEFINE e == Head(events)
<1>1. /\ events # <<>> /\ events' = Tail(events)
      /\ UNCHANGED <<calls, listeners, raised>>
      /\ \/ e.get \in muted /\ UNCHANGED <<muted, answers, tasks>>
         \/ /\ e.get \notin muted /\ answers' = Append(answers, e)
            /\ \/ e.kind = "error" /\ UNCHANGED <<muted, tasks>>
               \/ /\ e.kind # "error" /\ muted' = muted \cup {e.get}
                  /\ tasks' = Append(tasks, [op |-> "remove", get |-> e.get])
  BY Zenon DEF DeliverEvent, query
<1>2. /\ events' \in Seq(Event)
      /\ Len(events) \in Nat \ {0}
      /\ Len(events') = Len(events) - 1
      /\ \A i \in 1 .. Len(events') : events'[i] = events[i + 1]
      /\ e = events[1] /\ e \in Event
      /\ HasEvent(e.get)
      /\ \A g : HasEvent(g)' => HasEvent(g)
      /\ \A g : HasEvent(g) => HasEvent(g)' \/ g = e.get
  BY <1>1, EventTaken DEF GetsInv, GetsTyped
<1>3. 1 \in 1 .. Len(events) /\ e.get \in Gets /\ e.kind \in {"cache", "server", "error"}
  BY <1>2 DEF Event
<1> HIDE DEF e
<1>4. e.get <= calls /\ e.get \in 1 .. calls
  <2>1. e.get <= calls
    BY <1>2, <1>3 DEF GetsInv, CalledOnly
  <2> QED  BY <1>3, <2>1, CallsAreGets DEF GetsInv, GetsTyped
<1>5. /\ tasks' \in Seq(Task) /\ (\A g : ToAdd(g)' <=> ToAdd(g))
      /\ AddedOnce' /\ RemovedWhenMuted'
  <2>1. CASE UNCHANGED <<muted, tasks>>
    BY <2>1 DEF GetsInv, GetsTyped, AddedOnce, RemovedWhenMuted, ToAdd
  <2>2. CASE /\ muted' = muted \cup {e.get}
             /\ tasks' = Append(tasks, [op |-> "remove", get |-> e.get])
    <3>1. [op |-> "remove", get |-> e.get] \in Task
      BY <1>3 DEF Task
    <3>2. tasks \in Seq(Task)
      BY DEF GetsInv, GetsTyped
    <3>3. /\ tasks' \in Seq(Task)
          /\ Len(tasks) \in Nat /\ Len(tasks') = Len(tasks) + 1
          /\ \A i \in 1 .. Len(tasks) : tasks'[i] = tasks[i]
          /\ tasks'[Len(tasks) + 1] = [op |-> "remove", get |-> e.get]
          /\ \A g : ToAdd(g)' <=> ToAdd(g) \/ [op |-> "remove", get |-> e.get] = [op |-> "add", get |-> g]
      BY <2>2, <3>1, <3>2, TaskAppended
    <3>4. \A k \in 1 .. Len(tasks') : k \in 1 .. Len(tasks) \/ k = Len(tasks) + 1
      BY <3>3
    <3>5. \A g : ToAdd(g)' <=> ToAdd(g)
      BY <3>3
    <3>6. AddedOnce'
      <4> SUFFICES ASSUME NEW i \in 1 .. Len(tasks'), NEW j \in 1 .. Len(tasks'),
                          tasks'[i].op = "add", tasks'[i] = tasks'[j]
                   PROVE  i = j
        BY DEF AddedOnce
      <4>1. i \in 1 .. Len(tasks) /\ j \in 1 .. Len(tasks)
        BY <3>3, <3>4
      <4> QED  BY <3>3, <4>1 DEF GetsInv, AddedOnce
    <3>7. RemovedWhenMuted'
      BY <2>2, <3>3, <3>4 DEF GetsInv, RemovedWhenMuted
    <3> QED  BY <3>3, <3>5, <3>6, <3>7
  <2> QED  BY <1>1, <2>1, <2>2
<1>6. /\ answers' \in Seq(Event) /\ muted' \subseteq Answered'
      /\ Answered \subseteq Answered' /\ Answered' = Answered \cup {e.get}
      /\ muted \subseteq muted' /\ muted' \subseteq muted \cup {e.get}
      /\ e.get \in muted' \/ e.kind = "error"
  <2>1. muted \subseteq Answered /\ answers \in Seq(Event)
    BY DEF GetsInv, GetsTyped, AnsweredIsQuiet
  <2>2. CASE e.get \in muted /\ UNCHANGED <<muted, answers, tasks>>
    BY <2>1, <2>2 DEF Answered
  <2>3. CASE answers' = Append(answers, e)
    <3>1. answers' \in Seq(Event) /\ Answered' = Answered \cup {e.get}
      BY <1>2, <2>1, <2>3, AnswerAppended
    <3> QED  BY <1>1, <2>1, <3>1
  <2> QED  BY <1>1, <2>2, <2>3
<1>7. GetsTyped'
  BY <1>1, <1>2, <1>3, <1>5, <1>6 DEF GetsInv, GetsTyped
<1>8. CalledOnly'
  <2>1. listeners' \cup raised' \cup Answered' \subseteq 1 .. calls
    BY <1>1, <1>4, <1>6 DEF GetsInv, CalledOnly
  <2>2. ASSUME NEW i \in 1 .. Len(events') PROVE events'[i].get <= calls
    <3>1. i + 1 \in 1 .. Len(events) /\ events'[i] = events[i + 1]
      BY <1>2
    <3> QED  BY <3>1 DEF GetsInv, CalledOnly
  <2> QED  BY <1>1, <2>1, <2>2 DEF CalledOnly
<1>9. NewGets'
  <2> SUFFICES ASSUME NEW g \in Gets, ToAdd(g)
               PROVE  /\ g <= calls /\ g \notin listeners \cup raised \cup Answered'
                      /\ ~ HasEvent(g)'
    BY <1>1, <1>5 DEF NewGets
  <2>1. g <= calls /\ g \notin listeners \cup raised \cup Answered /\ ~ HasEvent(g)
    BY DEF GetsInv, NewGets
  <2> QED  BY <1>2, <1>6, <2>1
<1>10. ErrorIsLast'
  <2> SUFFICES ASSUME NEW i \in 1 .. Len(events'), events'[i].kind = "error"
               PROVE  /\ events'[i].get \notin listeners
                      /\ \A j \in 1 .. Len(events') : j > i => events'[j].get # events'[i].get
    BY <1>1 DEF ErrorIsLast
  <2>1. i + 1 \in 1 .. Len(events) /\ events'[i] = events[i + 1]
    BY <1>2
  <2>2. /\ events[i + 1].get \notin listeners
        /\ \A j \in 1 .. Len(events) : j > i + 1 => events[j].get # events[i + 1].get
    BY <2>1 DEF GetsInv, ErrorIsLast
  <2>3. ASSUME NEW j \in 1 .. Len(events'), j > i PROVE events'[j].get # events'[i].get
    <3>1. j + 1 \in 1 .. Len(events) /\ events'[j] = events[j + 1]
      BY <1>2
    <3>2. j + 1 > i + 1
      BY <2>3
    <3> QED  BY <2>1, <2>2, <3>1, <3>2
  <2> QED  BY <2>1, <2>2, <2>3
<1>11. AnsweredIsQuiet'
  <2> SUFFICES ASSUME NEW g \in Answered', g \notin muted'
               PROVE  g \notin listeners /\ ~ HasEvent(g)'
    BY <1>1, <1>6 DEF AnsweredIsQuiet
  <2>1. CASE g \in Answered
    BY <1>2, <1>6, <2>1 DEF GetsInv, AnsweredIsQuiet
  <2>2. CASE g = e.get
    <3>1. events[1].kind = "error" /\ events[1].get = g
      BY <1>2, <1>6, <2>2
    <3>2. /\ g \notin listeners
          /\ \A j \in 1 .. Len(events) : j > 1 => events[j].get # g
      BY <1>3, <3>1 DEF GetsInv, ErrorIsLast
    <3>3. ASSUME NEW i \in 1 .. Len(events') PROVE events'[i].get # g
      <4>1. i + 1 \in 1 .. Len(events) /\ events'[i] = events[i + 1] /\ i + 1 > 1
        BY <1>2
      <4> QED  BY <3>2, <4>1
    <3> QED  BY <3>2, <3>3 DEF HasEvent
  <2> QED  BY <1>6, <2>1, <2>2
<1>12. AnsweredOnce'
  <2>1. CASE UNCHANGED answers
    BY <2>1 DEF GetsInv, AnsweredOnce
  <2>2. CASE e.get \notin muted /\ answers' = Append(answers, e)
    <3>1. e.get \notin Answered
      BY <1>2, <2>2 DEF GetsInv, AnsweredIsQuiet
    <3>2. /\ Len(answers) \in Nat /\ Len(answers') = Len(answers) + 1
          /\ \A i \in 1 .. Len(answers) : answers'[i] = answers[i]
          /\ answers'[Len(answers) + 1] = e
      <4>1. answers \in Seq(Event)
        BY DEF GetsInv, GetsTyped
      <4> QED  BY <1>2, <2>2, <4>1, AppendElements
    <3>3. \A i \in 1 .. Len(answers) : answers[i].get # e.get
      BY <3>1 DEF Answered
    <3> SUFFICES ASSUME NEW i \in 1 .. Len(answers'), NEW j \in 1 .. Len(answers'),
                        answers'[i].get = answers'[j].get
                 PROVE  i = j
      BY DEF AnsweredOnce
    <3>4. \A k \in 1 .. Len(answers') : k \in 1 .. Len(answers) \/ k = Len(answers) + 1
      BY <3>2
    <3>5. CASE i \in 1 .. Len(answers) /\ j \in 1 .. Len(answers)
      BY <3>2, <3>5 DEF GetsInv, AnsweredOnce
    <3>6. CASE ~ (i \in 1 .. Len(answers) /\ j \in 1 .. Len(answers))
      BY <3>2, <3>3, <3>4, <3>6
    <3> QED  BY <3>5, <3>6
  <2> QED  BY <1>1, <2>1, <2>2
<1>13. NoGetForgotten'
  <2> SUFFICES ASSUME NEW g \in (1 .. calls) \ Answered'
               PROVE  ToAdd(g)' \/ g \in Waiting' \/ HasEvent(g)'
    BY <1>1 DEF NoGetForgotten, ToAdd, HasEvent
  <2>1. ToAdd(g) \/ g \in Waiting \/ HasEvent(g)
    BY <1>6 DEF GetsInv, NoGetForgotten, ToAdd, HasEvent
  <2>2. Waiting' = Waiting
    BY <1>1 DEF Waiting
  <2> QED  BY <1>2, <1>5, <1>6, <2>1, <2>2
<1> QED  BY <1>5, <1>6, <1>7, <1>8, <1>9, <1>10, <1>11, <1>12, <1>13 DEF GetsInv

(* A listener is added: its first event is posted at once, or it waits. *)
LEMMA GetsAdded ==
  ASSUME GetsInv, tasks # <<>>, Head(tasks).op = "add", tasks' = Tail(tasks),
         UNCHANGED <<calls, muted, answers>>,
         NEW g, g = Head(tasks).get, listeners' = listeners \cup {g},
         \/ \E kind \in {"cache", "server"} : Post({g}, kind) /\ raised' = raised \cup {g}
         \/ UNCHANGED <<events, raised>>
  PROVE  GetsInv'
<1>1. tasks \in Seq(Task) /\ events \in Seq(Event)
  BY DEF GetsInv, GetsTyped
<1>2. /\ tasks' \in Seq(Task)
      /\ Len(tasks) \in Nat \ {0}
      /\ Len(tasks') = Len(tasks) - 1
      /\ \A i \in 1 .. Len(tasks') : tasks'[i] = tasks[i + 1]
      /\ Head(tasks) = tasks[1] /\ Head(tasks) \in Task
      /\ \A h : ToAdd(h)' => ToAdd(h)
      /\ \A h : ToAdd(h) => ToAdd(h)' \/ Head(tasks) = [op |-> "add", get |-> h]
  BY <1>1, TaskTaken
<1>3. 1 \in 1 .. Len(tasks) /\ g \in Gets /\ tasks[1] = [op |-> "add", get |-> g]
  BY <1>2 DEF Task
<1>4. /\ ToAdd(g) /\ g <= calls /\ g \in 1 .. calls
      /\ g \notin listeners \cup raised \cup Answered /\ ~ HasEvent(g)
  <2>1. ToAdd(g)
    BY <1>3 DEF ToAdd
  <2>2. g <= calls /\ g \notin listeners \cup raised \cup Answered /\ ~ HasEvent(g)
    BY <1>3, <2>1 DEF GetsInv, NewGets
  <2> QED  BY <1>3, <2>1, <2>2, CallsAreGets DEF GetsInv, GetsTyped
<1>5. ~ ToAdd(g)'
  <2>1. ASSUME NEW i \in 1 .. Len(tasks') PROVE tasks'[i] # [op |-> "add", get |-> g]
    <3>1. i + 1 \in 1 .. Len(tasks) /\ i + 1 # 1 /\ tasks'[i] = tasks[i + 1]
      BY <1>2
    <3>2. tasks[i + 1] # tasks[1]
      BY <1>3, <3>1 DEF GetsInv, AddedOnce
    <3> QED  BY <1>3, <3>1, <3>2
  <2> QED  BY <2>1 DEF ToAdd
<1>6. /\ events' \in Seq(Event) /\ Len(events) \in Nat /\ Len(events') \in Nat
      /\ Len(events) <= Len(events')
      /\ \A i \in 1 .. Len(events) : events'[i] = events[i]
      /\ \A i \in 1 .. Len(events') :
           i > Len(events) => events'[i].get = g /\ events'[i].kind # "error"
      /\ \A h : HasEvent(h) => HasEvent(h)'
      /\ \A h : HasEvent(h)' => HasEvent(h) \/ h = g
      /\ g \in raised' => HasEvent(g)'
      /\ raised \subseteq raised' /\ raised' \subseteq raised \cup {g}
  <2>1. CASE UNCHANGED <<events, raised>>
    <3>1. Len(events) \in Nat
      BY <1>1
    <3> QED  BY <1>1, <1>4, <2>1, <3>1 DEF HasEvent
  <2>2. ASSUME NEW kind \in {"cache", "server"}, Post({g}, kind), raised' = raised \cup {g}
        PROVE  <1>6!:
    <3>1. {g} \in SUBSET Gets /\ kind \in {"cache", "server", "error"} /\ kind # "error"
      BY <1>3, <2>2
    <3>2. /\ events' \in Seq(Event)
          /\ Len(events) \in Nat /\ Len(events') \in Nat /\ Len(events) <= Len(events')
          /\ \A i \in 1 .. Len(events) : events'[i] = events[i]
          /\ \A i \in 1 .. Len(events') :
               i > Len(events) => events'[i].get \in {g} /\ events'[i].kind = kind
          /\ \A h : HasEvent(h)' <=> HasEvent(h) \/ h \in {g}
      BY <1>1, <2>2, <3>1, Posted
    <3> QED  BY <2>2, <3>1, <3>2
  <2> QED  BY <2>1, <2>2
<1>7. \A i \in 1 .. Len(events') : i \in 1 .. Len(events) \/ i > Len(events)
  BY <1>6
<1>8. Answered' = Answered
  BY DEF Answered
<1>9. GetsTyped'
  BY <1>2, <1>3, <1>6 DEF GetsInv, GetsTyped
<1>10. CalledOnly'
  <2>1. listeners' \cup raised' \cup Answered' \subseteq 1 .. calls
    BY <1>4, <1>6, <1>8 DEF GetsInv, CalledOnly
  <2>2. \A i \in 1 .. Len(events') : events'[i].get <= calls
    BY <1>4, <1>6, <1>7 DEF GetsInv, CalledOnly
  <2> QED  BY <2>1, <2>2 DEF CalledOnly
<1>11. NewGets'
  <2> SUFFICES ASSUME NEW h \in Gets, ToAdd(h)'
               PROVE  /\ h <= calls /\ h \notin listeners' \cup raised' \cup Answered
                      /\ ~ HasEvent(h)'
    BY <1>8 DEF NewGets
  <2>1. h # g /\ h <= calls /\ h \notin listeners \cup raised \cup Answered /\ ~ HasEvent(h)
    BY <1>2, <1>5 DEF GetsInv, NewGets
  <2> QED  BY <1>6, <2>1
<1>12. AddedOnce' /\ RemovedWhenMuted'
  <2>1. \A i \in 1 .. Len(tasks') : i + 1 \in 1 .. Len(tasks) /\ tasks'[i] = tasks[i + 1]
    BY <1>2
  <2>2. RemovedWhenMuted'
    BY <2>1 DEF GetsInv, RemovedWhenMuted
  <2>3. AddedOnce'
    <3> SUFFICES ASSUME NEW i \in 1 .. Len(tasks'), NEW j \in 1 .. Len(tasks'),
                        tasks'[i].op = "add", tasks'[i] = tasks'[j]
                 PROVE  i = j
      BY DEF AddedOnce
    <3>1. i + 1 = j + 1
      BY <2>1 DEF GetsInv, AddedOnce
    <3> QED  BY <3>1
  <2> QED  BY <2>2, <2>3
<1>13. ErrorIsLast'
  <2> SUFFICES ASSUME NEW i \in 1 .. Len(events'), events'[i].kind = "error"
               PROVE  /\ events'[i].get \notin listeners'
                      /\ \A j \in 1 .. Len(events') : j > i => events'[j].get # events'[i].get
    BY DEF ErrorIsLast
  <2>1. i \in 1 .. Len(events) /\ events'[i] = events[i]
    BY <1>6, <1>7
  <2>2. events[i].get # g
    BY <1>4, <2>1 DEF HasEvent
  <2>3. /\ events[i].get \notin listeners
        /\ \A j \in 1 .. Len(events) : j > i => events[j].get # events[i].get
    BY <2>1 DEF GetsInv, ErrorIsLast
  <2> QED  BY <1>6, <1>7, <2>1, <2>2, <2>3
<1>14. AnsweredIsQuiet'
  <2>1. \A h \in Answered : h # g
    BY <1>4
  <2> QED  BY <1>6, <1>8, <2>1 DEF GetsInv, AnsweredIsQuiet
<1>15. AnsweredOnce'
  BY DEF GetsInv, AnsweredOnce
<1>16. NoGetForgotten'
  <2> SUFFICES ASSUME NEW h \in (1 .. calls) \ Answered
               PROVE  ToAdd(h)' \/ h \in Waiting' \/ HasEvent(h)'
    BY <1>8 DEF NoGetForgotten, ToAdd, HasEvent
  <2>1. ToAdd(h) \/ h \in Waiting \/ HasEvent(h)
    BY DEF GetsInv, NoGetForgotten, ToAdd, HasEvent
  <2>2. CASE h = g
    BY <1>6, <2>2 DEF Waiting
  <2>3. CASE h # g
    <3>1. ToAdd(h) => ToAdd(h)'
      BY <1>2, <1>3, <2>3
    <3>2. h \in Waiting => h \in Waiting'
      BY <1>6, <2>3 DEF Waiting
    <3> QED  BY <1>6, <2>1, <3>1, <3>2
  <2> QED  BY <2>2, <2>3
<1> QED  BY <1>9, <1>10, <1>11, <1>12, <1>13, <1>14, <1>15, <1>16 DEF GetsInv

(* A listener is removed: its get has been answered. *)
LEMMA GetsRemoved ==
  ASSUME GetsInv, tasks # <<>>, Head(tasks).op = "remove", tasks' = Tail(tasks),
         listeners' = listeners \ {Head(tasks).get},
         UNCHANGED <<calls, muted, answers, events, raised>>
  PROVE  GetsInv'
<1>1. tasks \in Seq(Task)
  BY DEF GetsInv, GetsTyped
<1>2. /\ tasks' \in Seq(Task)
      /\ Len(tasks) \in Nat \ {0}
      /\ Len(tasks') = Len(tasks) - 1
      /\ \A i \in 1 .. Len(tasks') : tasks'[i] = tasks[i + 1]
      /\ Head(tasks) = tasks[1]
      /\ \A h : ToAdd(h)' => ToAdd(h)
      /\ \A h : ToAdd(h) => ToAdd(h)' \/ Head(tasks) = [op |-> "add", get |-> h]
  BY <1>1, TaskTaken
<1>3. Head(tasks).get \in Answered
  <2>1. 1 \in 1 .. Len(tasks) /\ tasks[1].op = "remove"
    BY <1>2
  <2>2. tasks[1].get \in muted
    BY <2>1 DEF GetsInv, RemovedWhenMuted
  <2> QED  BY <1>2, <2>2 DEF GetsInv, AnsweredIsQuiet
<1>4. Answered' = Answered /\ (\A h : HasEvent(h)' <=> HasEvent(h))
  BY DEF Answered, HasEvent
<1>5. \A h : ToAdd(h)' <=> ToAdd(h)
  BY <1>2
<1>6. GetsTyped'
  BY <1>2 DEF GetsInv, GetsTyped
<1>7. CalledOnly'
  BY <1>4 DEF GetsInv, CalledOnly
<1>8. NewGets'
  BY <1>4, <1>5 DEF GetsInv, NewGets
<1>9. AddedOnce' /\ RemovedWhenMuted'
  <2>1. \A i \in 1 .. Len(tasks') : i + 1 \in 1 .. Len(tasks) /\ tasks'[i] = tasks[i + 1]
    BY <1>2
  <2>2. RemovedWhenMuted'
    BY <2>1 DEF GetsInv, RemovedWhenMuted
  <2>3. AddedOnce'
    <3> SUFFICES ASSUME NEW i \in 1 .. Len(tasks'), NEW j \in 1 .. Len(tasks'),
                        tasks'[i].op = "add", tasks'[i] = tasks'[j]
                 PROVE  i = j
      BY DEF AddedOnce
    <3>1. i + 1 = j + 1
      BY <2>1 DEF GetsInv, AddedOnce
    <3> QED  BY <3>1
  <2> QED  BY <2>2, <2>3
<1>10. ErrorIsLast' /\ AnsweredOnce'
  BY DEF GetsInv, ErrorIsLast, AnsweredOnce
<1>11. AnsweredIsQuiet'
  BY <1>4 DEF GetsInv, AnsweredIsQuiet
<1>12. NoGetForgotten'
  <2> SUFFICES ASSUME NEW h \in (1 .. calls) \ Answered
               PROVE  ToAdd(h)' \/ h \in Waiting' \/ HasEvent(h)'
    BY <1>4 DEF NoGetForgotten, ToAdd, HasEvent
  <2>1. ToAdd(h) \/ h \in Waiting \/ HasEvent(h)
    BY DEF GetsInv, NoGetForgotten, ToAdd, HasEvent
  <2>2. h # Head(tasks).get
    BY <1>3
  <2> QED  BY <1>4, <1>5, <2>1, <2>2 DEF Waiting
<1> QED  BY <1>6, <1>7, <1>8, <1>9, <1>10, <1>11, <1>12 DEF GetsInv

(* Listeners are told something, those that waited and now count as raised *)
(* among them.                                                             *)
LEMMA GetsPosted ==
  ASSUME GetsInv, NEW gets \in SUBSET listeners, NEW kind \in {"cache", "server"},
         Post(gets, kind), raised \subseteq raised', raised' \subseteq raised \cup listeners,
         listeners \cap raised' \subseteq raised \cup gets,
         UNCHANGED <<calls, tasks, muted, answers, listeners>>
  PROVE  GetsInv'
<1>1. gets \in SUBSET Gets /\ events \in Seq(Event) /\ listeners \subseteq 1 .. calls
  BY DEF GetsInv, GetsTyped, CalledOnly
<1>2. kind \in {"cache", "server", "error"} /\ kind # "error"
  OBVIOUS
<1>3. /\ events' \in Seq(Event)
      /\ Len(events) \in Nat /\ Len(events') \in Nat /\ Len(events) <= Len(events')
      /\ \A i \in 1 .. Len(events) : events'[i] = events[i]
      /\ \A i \in 1 .. Len(events') :
           i > Len(events) => events'[i].get \in gets /\ events'[i].kind = kind
      /\ \A h : HasEvent(h)' <=> HasEvent(h) \/ h \in gets
  BY <1>1, <1>2, Posted
<1>4. \A i \in 1 .. Len(events') : i \in 1 .. Len(events) \/ i > Len(events)
  BY <1>3
<1>5. Answered' = Answered /\ (\A h : ToAdd(h)' <=> ToAdd(h))
  BY DEF Answered, ToAdd
<1>6. GetsTyped'
  BY <1>3 DEF GetsInv, GetsTyped
<1>7. CalledOnly'
  <2>1. listeners' \cup raised' \cup Answered' \subseteq 1 .. calls
    BY <1>5 DEF GetsInv, CalledOnly
  <2>2. \A h \in 1 .. calls : h <= calls
    BY CallsAreGets DEF GetsInv, GetsTyped
  <2>3. \A i \in 1 .. Len(events') : events'[i].get <= calls
    BY <1>1, <1>3, <1>4, <2>2 DEF GetsInv, CalledOnly
  <2> QED  BY <2>1, <2>3 DEF CalledOnly
<1>8. NewGets'
  <2> SUFFICES ASSUME NEW h \in Gets, ToAdd(h)
               PROVE  /\ h <= calls /\ h \notin listeners \cup raised' \cup Answered
                      /\ ~ HasEvent(h)'
    BY <1>5 DEF NewGets
  <2>1. h <= calls /\ h \notin listeners \cup raised \cup Answered /\ ~ HasEvent(h)
    BY DEF GetsInv, NewGets
  <2> QED  BY <1>3, <2>1
<1>9. AddedOnce' /\ RemovedWhenMuted' /\ AnsweredOnce'
  BY DEF GetsInv, AddedOnce, RemovedWhenMuted, AnsweredOnce
<1>10. ErrorIsLast'
  <2> SUFFICES ASSUME NEW i \in 1 .. Len(events'), events'[i].kind = "error"
               PROVE  /\ events'[i].get \notin listeners
                      /\ \A j \in 1 .. Len(events') : j > i => events'[j].get # events'[i].get
    BY DEF ErrorIsLast
  <2>1. i \in 1 .. Len(events) /\ events'[i] = events[i]
    BY <1>2, <1>3, <1>4
  <2>2. /\ events[i].get \notin listeners
        /\ \A j \in 1 .. Len(events) : j > i => events[j].get # events[i].get
    BY <2>1 DEF GetsInv, ErrorIsLast
  <2> QED  BY <1>3, <1>4, <2>1, <2>2
<1>11. AnsweredIsQuiet'
  BY <1>3, <1>5 DEF GetsInv, AnsweredIsQuiet
<1>12. NoGetForgotten'
  <2> SUFFICES ASSUME NEW h \in (1 .. calls) \ Answered
               PROVE  ToAdd(h) \/ h \in Waiting' \/ HasEvent(h)'
    BY <1>5 DEF NoGetForgotten, ToAdd, HasEvent
  <2>1. ToAdd(h) \/ h \in Waiting \/ HasEvent(h)
    BY DEF GetsInv, NoGetForgotten, ToAdd, HasEvent
  <2>2. h \in Waiting => h \in Waiting' \/ h \in gets
    BY DEF Waiting
  <2> QED  BY <1>3, <2>1, <2>2
<1> QED  BY <1>6, <1>7, <1>8, <1>9, <1>10, <1>11, <1>12 DEF GetsInv

(* The backend refuses the query: every listener is told, and goes. *)
LEMMA GetsRejected ==
  ASSUME GetsInv, Post(listeners, "error"), listeners' = {},
         UNCHANGED <<calls, tasks, muted, answers, raised>>
  PROVE  GetsInv'
<1>1. listeners \in SUBSET Gets /\ events \in Seq(Event) /\ listeners \subseteq 1 .. calls
  BY DEF GetsInv, GetsTyped, CalledOnly
<1>2. /\ events' \in Seq(Event)
      /\ Len(events) \in Nat /\ Len(events') \in Nat /\ Len(events) <= Len(events')
      /\ \A i \in 1 .. Len(events) : events'[i] = events[i]
      /\ \A i \in 1 .. Len(events') :
           i > Len(events) => events'[i].get \in listeners
      /\ \A i, j \in 1 .. Len(events') :
           i > Len(events) /\ i < j => events'[i].get # events'[j].get
      /\ \A h : HasEvent(h)' <=> HasEvent(h) \/ h \in listeners
  BY <1>1, Posted
<1>3. \A i \in 1 .. Len(events') : i \in 1 .. Len(events) \/ i > Len(events)
  BY <1>2
<1>4. Answered' = Answered /\ (\A h : ToAdd(h)' <=> ToAdd(h))
  BY DEF Answered, ToAdd
<1>5. GetsTyped'
  BY <1>2 DEF GetsInv, GetsTyped
<1>6. CalledOnly'
  <2>1. listeners' \cup raised' \cup Answered' \subseteq 1 .. calls
    BY <1>4 DEF GetsInv, CalledOnly
  <2>2. \A h \in 1 .. calls : h <= calls
    BY CallsAreGets DEF GetsInv, GetsTyped
  <2>3. \A i \in 1 .. Len(events') : events'[i].get <= calls
    BY <1>1, <1>2, <1>3, <2>2 DEF GetsInv, CalledOnly
  <2> QED  BY <2>1, <2>3 DEF CalledOnly
<1>7. NewGets'
  <2> SUFFICES ASSUME NEW h \in Gets, ToAdd(h)
               PROVE  /\ h <= calls /\ h \notin raised \cup Answered /\ ~ HasEvent(h)'
    BY <1>4 DEF NewGets
  <2>1. h <= calls /\ h \notin listeners \cup raised \cup Answered /\ ~ HasEvent(h)
    BY DEF GetsInv, NewGets
  <2> QED  BY <1>2, <2>1
<1>8. AddedOnce' /\ RemovedWhenMuted' /\ AnsweredOnce'
  BY DEF GetsInv, AddedOnce, RemovedWhenMuted, AnsweredOnce
<1>9. ErrorIsLast'
  <2> SUFFICES ASSUME NEW i \in 1 .. Len(events'), events'[i].kind = "error",
                      NEW j \in 1 .. Len(events'), j > i
               PROVE  events'[j].get # events'[i].get
    BY DEF ErrorIsLast
  <2>1. CASE i > Len(events)
    BY <1>2, <2>1
  <2>2. CASE i \in 1 .. Len(events)
    <3>1. events'[i] = events[i]
      BY <1>2, <2>2
    <3>2. /\ events[i].get \notin listeners
          /\ \A k \in 1 .. Len(events) : k > i => events[k].get # events[i].get
      BY <2>2, <3>1 DEF GetsInv, ErrorIsLast
    <3> QED  BY <1>2, <1>3, <3>1, <3>2
  <2> QED  BY <1>3, <2>1, <2>2
<1>10. AnsweredIsQuiet'
  <2> SUFFICES ASSUME NEW h \in Answered, h \notin muted PROVE ~ HasEvent(h)'
    <3>1. muted \subseteq Answered
      BY DEF GetsInv, AnsweredIsQuiet
    <3> QED  BY <1>4, <3>1 DEF AnsweredIsQuiet
  <2>1. h \notin listeners /\ ~ HasEvent(h)
    BY DEF GetsInv, AnsweredIsQuiet
  <2> QED  BY <1>2, <2>1
<1>11. NoGetForgotten'
  <2> SUFFICES ASSUME NEW h \in (1 .. calls) \ Answered
               PROVE  ToAdd(h) \/ HasEvent(h)'
    BY <1>4 DEF NoGetForgotten, ToAdd, HasEvent
  <2>1. ToAdd(h) \/ h \in Waiting \/ HasEvent(h)
    BY DEF GetsInv, NoGetForgotten, ToAdd, HasEvent
  <2> QED  BY <1>2, <2>1 DEF Waiting
<1> QED  BY <1>5, <1>6, <1>7, <1>8, <1>9, <1>10, <1>11 DEF GetsInv

(* What is posted when the client goes offline. *)
LEMMA GetsOffline ==
  ASSUME GetsInv, GoOffline, UNCHANGED <<calls, tasks, muted, answers, listeners>>
  PROVE  GetsInv'
<1> DEFINE gets == IF view = "synced" THEN listeners ELSE Waiting
<1>1. gets \in SUBSET listeners /\ listeners \subseteq raised \cup gets
  BY DEF Waiting
<1>2. Post(gets, "cache") /\ raised' = raised \cup listeners
  BY DEF GoOffline
<1> HIDE DEF gets
<1> QED  BY <1>1, <1>2, GetsPosted

(* Every step keeps the gets in order. *)
LEMMA GetsStep == GetsInv /\ [Next]_vars => GetsInv'
<1> SUFFICES ASSUME GetsInv, [Next]_vars PROVE GetsInv'
  OBVIOUS
<1>1. CASE GetDocs
  BY <1>1, GetsCalled
<1>2. CASE DeliverEvent
  BY <1>2, GetsDelivered
<1>3. CASE AddQueryListener
  <2> DEFINE g == Head(tasks).get
  <2>1. /\ tasks # <<>> /\ Head(tasks).op = "add" /\ tasks' = Tail(tasks)
        /\ UNCHANGED <<calls, muted, answers>>
        /\ listeners' = listeners \cup {g}
    BY <1>3 DEF AddQueryListener, app
  <2>2. \/ \E kind \in {"cache", "server"} : Post({g}, kind) /\ raised' = raised \cup {g}
        \/ UNCHANGED <<events, raised>>
    <3>1. CASE view = "synced" \/ onlineState = "Offline"
      <4>1. /\ Post({g}, IF view = "synced" THEN "server" ELSE "cache")
            /\ raised' = raised \cup {g}
        BY <1>3, <3>1, Zenon DEF AddQueryListener
      <4>2. CASE view = "synced"
        BY <4>1, <4>2
      <4>3. CASE view # "synced"
        BY <4>1, <4>3
      <4> QED  BY <4>2, <4>3
    <3>2. CASE ~ (view = "synced" \/ onlineState = "Offline")
      BY <1>3, <3>2 DEF AddQueryListener
    <3> QED  BY <3>1, <3>2
  <2> QED  BY <2>1, <2>2, GetsAdded
<1>4. CASE RemoveQueryListener
  <2>1. /\ tasks # <<>> /\ Head(tasks).op = "remove" /\ tasks' = Tail(tasks)
        /\ listeners' = listeners \ {Head(tasks).get}
        /\ UNCHANGED <<calls, muted, answers, events, raised>>
    BY <1>4 DEF RemoveQueryListener, app
  <2> QED  BY <2>1, GetsRemoved
<1>5. CASE OnlineTimeout
  BY <1>5, GetsOffline DEF OnlineTimeout, app
<1>6. CASE StreamFailed
  <2>1. UNCHANGED <<calls, tasks, muted, answers, listeners>>
        /\ (GoOffline \/ UNCHANGED <<events, raised>>)
    BY <1>6 DEF StreamFailed, app
  <2> QED  BY <2>1, GetsOffline, GetsKept
<1>7. CASE WatchSnapshot
  <2>1. UNCHANGED <<calls, tasks, muted, answers, listeners>>
    BY <1>7 DEF WatchSnapshot, Receive, app
  <2>2. (\E v \in {"synced", "local"} : Snapshot(v)) \/ UNCHANGED <<events, raised>>
    BY <1>7 DEF WatchSnapshot
  <2>3. ASSUME Snapshot("synced") PROVE GetsInv'
    <3>1. Post(listeners, "server") /\ raised' = raised \cup listeners
      BY <2>3 DEF Snapshot
    <3> QED  BY <2>1, <3>1, GetsPosted
  <2>4. ASSUME Snapshot("local") PROVE GetsInv'
    <3>1. Post(listeners \cap raised, "cache") /\ raised' = raised
      BY <2>4 DEF Snapshot
    <3> QED  BY <2>1, <3>1, GetsPosted
  <2>5. ASSUME UNCHANGED <<events, raised>> PROVE GetsInv'
    BY <2>1, <2>5, GetsKept
  <2> QED  BY <2>2, <2>3, <2>4, <2>5
<1>8. CASE TargetRejected
  <2>1. UNCHANGED <<calls, tasks, muted, answers, raised>>
    BY <1>8 DEF TargetRejected, Receive, app
  <2>2. (Post(listeners, "error") /\ listeners' = {}) \/ UNCHANGED <<events, listeners>>
    BY <1>8 DEF TargetRejected
  <2> QED  BY <2>1, <2>2, GetsRejected, GetsKept
<1>9. CASE \/ StreamOpened \/ BackoffElapsed \/ IdleTimeout \/ RestartNetwork
           \/ TargetAdded \/ TargetRemoved \/ TargetIsCurrent
  <2>1. UNCHANGED <<calls, tasks, events, muted, answers, listeners, raised>>
    BY <1>9 DEF StreamOpened, BackoffElapsed, IdleTimeout, RestartNetwork,
                TargetAdded, TargetRemoved, TargetIsCurrent, Receive, app, queues, query
  <2> QED  BY <2>1, GetsKept
<1>10. CASE Backend \/ UNCHANGED vars
  <2>1. UNCHANGED <<calls, tasks, events, muted, answers, listeners, raised>>
    BY <1>10 DEF Backend, AnswerWatch, AnswerUnwatch, SendCurrent, SendSnapshot,
                 BackendRest, vars, app, queues, query
  <2> QED  BY <2>1, GetsKept
<1> QED  BY <1>1, <1>2, <1>3, <1>4, <1>5, <1>6, <1>7, <1>8, <1>9, <1>10 DEF Next, Client

-----------------------------------------------------------------------------
(***************************************************************************)
(* The layers from the listeners down to the timers.                       *)
(***************************************************************************)

LEMMA LayersStep == LayersInv /\ [Next]_vars => LayersInv'
<1> SUFFICES ASSUME LayersInv, [Next]_vars PROVE LayersInv'
  OBVIOUS
<1> USE DEF LayersInv
<1>1. CASE GetDocs
  <2> USE <1>1 DEF GetDocs, query, target, tracker, wire, history
  <2>1. LayersTyped'
    BY DEF LayersTyped
  <2>2. QueryIsWatched'
    BY DEF QueryIsWatched
  <2>3. NobodyWaitsInVain'
    BY DEF NobodyWaitsInVain, QueryIsWatched, Waiting
  <2>4. TimerMeansUndecided'
    BY DEF TimerMeansUndecided, IsStarted
  <2>5. IdleMeansUnneeded'
    BY DEF IdleMeansUnneeded
  <2> QED  BY <2>1, <2>2, <2>3, <2>4, <2>5
<1>2. CASE DeliverEvent
  <2> USE <1>2 DEF DeliverEvent, query, target, tracker, wire, history
  <2>1. LayersTyped'
    BY DEF LayersTyped
  <2>2. QueryIsWatched'
    BY DEF QueryIsWatched
  <2>3. NobodyWaitsInVain'
    BY DEF NobodyWaitsInVain, QueryIsWatched, Waiting
  <2>4. TimerMeansUndecided'
    BY DEF TimerMeansUndecided, IsStarted
  <2>5. IdleMeansUnneeded'
    BY DEF IdleMeansUnneeded
  <2> QED  BY <2>1, <2>2, <2>3, <2>4, <2>5
<1>3. CASE AddQueryListener
  <2> USE <1>3 DEF AddQueryListener, Listen, IsStarted, Start, HandleWatchStreamStart, SendWatchRequest, Waiting, target, tracker, history
  <2>1. LayersTyped'
    BY DEF LayersTyped
  <2>2. QueryIsWatched'
    BY DEF QueryIsWatched
  <2>3. NobodyWaitsInVain'
    BY DEF NobodyWaitsInVain, QueryIsWatched, Waiting
  <2>4. TimerMeansUndecided'
    BY DEF TimerMeansUndecided, IsStarted
  <2>5. IdleMeansUnneeded'
    BY DEF IdleMeansUnneeded
  <2> QED  BY <2>1, <2>2, <2>3, <2>4, <2>5
<1>4. CASE RemoveQueryListener
  <2> USE <1>4 DEF RemoveQueryListener, StopListening, SendUnwatchRequest, UpdateState, Waiting, target, tracker, history
  <2>1. LayersTyped'
    <3>1. view' \in {"none", "local", "synced"} /\ listening' \in BOOLEAN
      BY DEF LayersTyped
    <3>2. /\ state' \in {"Initial", "Starting", "Open", "Error", "Backoff"}
          /\ idleTimer' \in BOOLEAN
      BY DEF LayersTyped
    <3>3. targetCurrent' \in BOOLEAN
      BY DEF LayersTyped
    <3>4. onlineState' \in {"Unknown", "Online", "Offline"}
      BY DEF LayersTyped
    <3>5. failures' \in Nat
      BY DEF LayersTyped
    <3>6. onlineTimer' \in BOOLEAN
      BY DEF LayersTyped
    <3> QED  BY <3>1, <3>2, <3>3, <3>4, <3>5, <3>6, Zenon DEF LayersTyped
  <2>2. QueryIsWatched'
    BY DEF QueryIsWatched
  <2>3. NobodyWaitsInVain'
    BY DEF NobodyWaitsInVain, QueryIsWatched, Waiting
  <2>4. TimerMeansUndecided'
    BY DEF TimerMeansUndecided, IsStarted
  <2>5. IdleMeansUnneeded'
    BY DEF IdleMeansUnneeded
  <2> QED  BY <2>1, <2>2, <2>3, <2>4, <2>5
<1>5. CASE StreamOpened
  <2> USE <1>5 DEF StreamOpened, SendWatchRequest, query, target, tracker, history
  <2>1. LayersTyped'
    BY DEF LayersTyped
  <2>2. QueryIsWatched'
    BY DEF QueryIsWatched
  <2>3. NobodyWaitsInVain'
    BY DEF NobodyWaitsInVain, QueryIsWatched, Waiting
  <2>4. TimerMeansUndecided'
    BY DEF TimerMeansUndecided, IsStarted
  <2>5. IdleMeansUnneeded'
    BY DEF IdleMeansUnneeded
  <2> QED  BY <2>1, <2>2, <2>3, <2>4, <2>5
<1>6. CASE BackoffElapsed
  <2> USE <1>6 DEF BackoffElapsed, query, target, tracker
  <2>1. LayersTyped'
    BY DEF LayersTyped
  <2>2. QueryIsWatched'
    BY DEF QueryIsWatched
  <2>3. NobodyWaitsInVain'
    BY DEF NobodyWaitsInVain, QueryIsWatched, Waiting
  <2>4. TimerMeansUndecided'
    BY DEF TimerMeansUndecided, IsStarted
  <2>5. IdleMeansUnneeded'
    BY DEF IdleMeansUnneeded
  <2> QED  BY <2>1, <2>2, <2>3, <2>4, <2>5
<1>7. CASE IdleTimeout
  <2> USE <1>7 DEF IdleTimeout, Close, UpdateState, query
  <2>1. LayersTyped'
    BY DEF LayersTyped
  <2>2. QueryIsWatched'
    BY DEF QueryIsWatched
  <2>3. NobodyWaitsInVain'
    BY DEF NobodyWaitsInVain, QueryIsWatched, Waiting
  <2>4. TimerMeansUndecided'
    BY DEF TimerMeansUndecided, IsStarted
  <2>5. IdleMeansUnneeded'
    BY DEF IdleMeansUnneeded
  <2> QED  BY <2>1, <2>2, <2>3, <2>4, <2>5
<1>8. CASE OnlineTimeout
  <2> USE <1>8 DEF OnlineTimeout, GoOffline, Waiting, target
  <2>1. LayersTyped'
    BY DEF LayersTyped
  <2>2. QueryIsWatched'
    BY DEF QueryIsWatched
  <2>3. NobodyWaitsInVain'
    BY DEF NobodyWaitsInVain, QueryIsWatched, Waiting
  <2>4. TimerMeansUndecided'
    BY DEF TimerMeansUndecided, IsStarted
  <2>5. IdleMeansUnneeded'
    BY DEF IdleMeansUnneeded
  <2> QED  BY <2>1, <2>2, <2>3, <2>4, <2>5
<1>9. CASE StreamFailed
  <2> USE <1>9 DEF StreamFailed, Close, Start, HandleWatchStreamStart, GoOffline, UpdateState, Waiting, tracker
  <2>1. LayersTyped'
    <3>1. view' \in {"none", "local", "synced"} /\ listening' \in BOOLEAN
      BY DEF LayersTyped
    <3>2. /\ state' \in {"Initial", "Starting", "Open", "Error", "Backoff"}
          /\ idleTimer' \in BOOLEAN
      BY DEF LayersTyped
    <3>3. targetCurrent' \in BOOLEAN
      BY DEF LayersTyped
    <3>4. onlineState' \in {"Unknown", "Online", "Offline"}
      BY DEF LayersTyped
    <3>5. failures' \in Nat
      BY DEF LayersTyped
    <3>6. onlineTimer' \in BOOLEAN
      BY DEF LayersTyped
    <3> QED  BY <3>1, <3>2, <3>3, <3>4, <3>5, <3>6, Zenon DEF LayersTyped
  <2>2. QueryIsWatched'
    BY DEF QueryIsWatched
  <2>3. NobodyWaitsInVain'
    BY DEF NobodyWaitsInVain, QueryIsWatched, Waiting
  <2>4. TimerMeansUndecided'
    BY DEF TimerMeansUndecided, IsStarted
  <2>5. IdleMeansUnneeded'
    BY DEF IdleMeansUnneeded
  <2> QED  BY <2>1, <2>2, <2>3, <2>4, <2>5
<1>10. CASE RestartNetwork
  <2> USE <1>10 DEF RestartNetwork, Close, query
  <2>1. LayersTyped'
    BY DEF LayersTyped
  <2>2. QueryIsWatched'
    BY DEF QueryIsWatched
  <2>3. NobodyWaitsInVain'
    BY DEF NobodyWaitsInVain, QueryIsWatched, Waiting
  <2>4. TimerMeansUndecided'
    BY DEF TimerMeansUndecided, IsStarted
  <2>5. IdleMeansUnneeded'
    BY DEF IdleMeansUnneeded
  <2> QED  BY <2>1, <2>2, <2>3, <2>4, <2>5
<1>11. CASE TargetAdded
  <2> USE <1>11 DEF TargetAdded, Receive, UpdateState, query
  <2>1. LayersTyped'
    BY DEF LayersTyped
  <2>2. QueryIsWatched'
    BY DEF QueryIsWatched
  <2>3. NobodyWaitsInVain'
    BY DEF NobodyWaitsInVain, QueryIsWatched, Waiting
  <2>4. TimerMeansUndecided'
    BY DEF TimerMeansUndecided, IsStarted
  <2>5. IdleMeansUnneeded'
    BY DEF IdleMeansUnneeded
  <2> QED  BY <2>1, <2>2, <2>3, <2>4, <2>5
<1>12. CASE TargetRemoved
  <2> USE <1>12 DEF TargetRemoved, Receive, UpdateState, query
  <2>1. LayersTyped'
    BY DEF LayersTyped
  <2>2. QueryIsWatched'
    BY DEF QueryIsWatched
  <2>3. NobodyWaitsInVain'
    BY DEF NobodyWaitsInVain, QueryIsWatched, Waiting
  <2>4. TimerMeansUndecided'
    BY DEF TimerMeansUndecided, IsStarted
  <2>5. IdleMeansUnneeded'
    BY DEF IdleMeansUnneeded
  <2> QED  BY <2>1, <2>2, <2>3, <2>4, <2>5
<1>13. CASE TargetIsCurrent
  <2> USE <1>13 DEF TargetIsCurrent, Receive, UpdateState, IsActiveTarget, query
  <2>1. LayersTyped'
    BY DEF LayersTyped
  <2>2. QueryIsWatched'
    BY DEF QueryIsWatched
  <2>3. NobodyWaitsInVain'
    BY DEF NobodyWaitsInVain, QueryIsWatched, Waiting
  <2>4. TimerMeansUndecided'
    BY DEF TimerMeansUndecided, IsStarted
  <2>5. IdleMeansUnneeded'
    BY DEF IdleMeansUnneeded
  <2> QED  BY <2>1, <2>2, <2>3, <2>4, <2>5
<1>14. CASE WatchSnapshot
  <2> USE <1>14 DEF WatchSnapshot, Receive, UpdateState, Snapshot, IsActiveTarget, Waiting, target
  <2>1. LayersTyped'
    BY DEF LayersTyped
  <2>2. QueryIsWatched'
    BY DEF QueryIsWatched
  <2>3. NobodyWaitsInVain'
    BY DEF NobodyWaitsInVain, QueryIsWatched, Waiting
  <2>4. TimerMeansUndecided'
    BY DEF TimerMeansUndecided, IsStarted
  <2>5. IdleMeansUnneeded'
    BY DEF IdleMeansUnneeded
  <2> QED  BY <2>1, <2>2, <2>3, <2>4, <2>5
<1>15. CASE TargetRejected
  <2> USE <1>15 DEF TargetRejected, Receive, UpdateState, Waiting, target
  <2>1. LayersTyped'
    BY DEF LayersTyped
  <2>2. QueryIsWatched'
    BY DEF QueryIsWatched
  <2>3. NobodyWaitsInVain'
    BY DEF NobodyWaitsInVain, QueryIsWatched, Waiting
  <2>4. TimerMeansUndecided'
    BY DEF TimerMeansUndecided, IsStarted
  <2>5. IdleMeansUnneeded'
    BY DEF IdleMeansUnneeded
  <2> QED  BY <2>1, <2>2, <2>3, <2>4, <2>5
<1>16. CASE Backend \/ UNCHANGED vars
  <2> USE <1>16 DEF Backend, AnswerWatch, AnswerUnwatch, SendCurrent, SendSnapshot, BackendRest, vars, query, target, tracker
  <2>1. LayersTyped'
    BY DEF LayersTyped
  <2>2. QueryIsWatched'
    BY DEF QueryIsWatched
  <2>3. NobodyWaitsInVain'
    BY DEF NobodyWaitsInVain, QueryIsWatched, Waiting
  <2>4. TimerMeansUndecided'
    BY DEF TimerMeansUndecided, IsStarted
  <2>5. IdleMeansUnneeded'
    BY DEF IdleMeansUnneeded
  <2> QED  BY <2>1, <2>2, <2>3, <2>4, <2>5
<1> QED  BY <1>1, <1>2, <1>3, <1>4, <1>5, <1>6, <1>7, <1>8, <1>9, <1>10, <1>11, <1>12, <1>13, <1>14, <1>15, <1>16 DEF Next, Client

-----------------------------------------------------------------------------
(***************************************************************************)
(* The wire.                                                               *)
(***************************************************************************)

LEMMA PairsAreFinite ==
  ASSUME NEW r \in Seq(Response)
  PROVE  IsFiniteSet(PairsIn(r)) /\ Cardinality(PairsIn(r)) \in Nat
<1>1. Len(r) \in Int
  OBVIOUS
<1>2. IsFiniteSet(1 .. Len(r))
  BY <1>1, FS_Interval
<1>3. PairsIn(r) \in SUBSET (1 .. Len(r))
  BY DEF PairsIn
<1>4. IsFiniteSet(PairsIn(r))
  BY <1>2, <1>3, FS_Subset
<1> QED  BY <1>4, FS_CardinalityType

LEMMA PairsAppended ==
  ASSUME NEW r \in Seq(Response), NEW e \in Response
  PROVE  Cardinality(PairsIn(Append(r, e))) =
           IF e.kind \in Pairing THEN Cardinality(PairsIn(r)) + 1 ELSE Cardinality(PairsIn(r))
<1> DEFINE t == Append(r, e)
           n == Len(r)
<1>1. /\ t \in Seq(Response) /\ n \in Nat /\ Len(t) = n + 1
      /\ \A i \in 1 .. n : t[i] = r[i]
      /\ t[n + 1] = e
  BY AppendElements
<1>2. PairsIn(r) \subseteq 1 .. n
  BY DEF PairsIn
<1> HIDE DEF t, n
<1>3. 1 .. n + 1 = (1 .. n) \cup {n + 1} /\ n + 1 \notin 1 .. n
  BY <1>1
<1>4. CASE e.kind \in Pairing
  <2>1. PairsIn(t) = PairsIn(r) \cup {n + 1}
    BY <1>1, <1>3, <1>4 DEF PairsIn, n
  <2>2. n + 1 \notin PairsIn(r)
    BY <1>2, <1>3
  <2>3. Cardinality(PairsIn(r) \cup {n + 1}) = Cardinality(PairsIn(r)) + 1
    BY <2>2, PairsAreFinite, FS_AddElement
  <2> QED  BY <1>4, <2>1, <2>3, Zenon DEF t
<1>5. CASE e.kind \notin Pairing
  <2>1. PairsIn(t) = PairsIn(r)
    BY <1>1, <1>3, <1>5 DEF PairsIn, n
  <2> QED  BY <1>5, <2>1, Zenon DEF t
<1> QED  BY <1>4, <1>5

LEMMA PairsTaken ==
  ASSUME NEW r \in Seq(Response), r # <<>>
  PROVE  Cardinality(PairsIn(Tail(r))) =
           IF Head(r).kind \in Pairing THEN Cardinality(PairsIn(r)) - 1 ELSE Cardinality(PairsIn(r))
<1> DEFINE t == Tail(r)
           n == Len(r)
           S == PairsIn(r) \ {1}
           f == [i \in PairsIn(t) |-> i + 1]
<1>1. /\ t \in Seq(Response) /\ n \in Nat \ {0} /\ Len(t) = n - 1
      /\ \A i \in 1 .. n - 1 : t[i] = r[i + 1]
      /\ Head(r) = r[1]
  BY TailElements
<1> HIDE DEF t
<1>2. f \in [PairsIn(t) -> S]
  <2>1. ASSUME NEW i \in PairsIn(t) PROVE i + 1 \in S
    <3>1. i \in 1 .. n - 1 /\ r[i + 1].kind \in Pairing
      BY <1>1 DEF PairsIn
    <3>2. i + 1 \in 1 .. n /\ i + 1 # 1
      BY <1>1, <3>1
    <3> QED  BY <3>1, <3>2 DEF PairsIn
  <2> QED  BY <2>1
<1>3. \A i, j \in PairsIn(t) : f[i] = f[j] => i = j
  <2>1. \A i \in PairsIn(t) : i \in Nat
    BY <1>1 DEF PairsIn
  <2> QED  BY <2>1
<1>4. \A k \in S : \E i \in PairsIn(t) : f[i] = k
  <2> TAKE k \in S
  <2>1. k \in 1 .. n /\ k # 1 /\ r[k].kind \in Pairing
    BY DEF PairsIn
  <2>2. k - 1 \in 1 .. n - 1 /\ (k - 1) + 1 = k
    BY <1>1, <2>1
  <2>3. k - 1 \in PairsIn(t)
    BY <1>1, <2>1, <2>2 DEF PairsIn
  <2>4. f[k - 1] = k
    BY <2>2, <2>3
  <2> QED  BY <2>3, <2>4
<1> HIDE DEF f
<1>5. f \in Bijection(PairsIn(t), S)
  BY <1>2, <1>3, <1>4, Fun_IsBij
<1>6. IsFiniteSet(PairsIn(t)) /\ IsFiniteSet(PairsIn(r))
  BY <1>1, PairsAreFinite
<1>7. Cardinality(S) = Cardinality(PairsIn(t))
  BY <1>5, <1>6, FS_Bijection DEF ExistsBijection
<1>8. Cardinality(S) = IF 1 \in PairsIn(r) THEN Cardinality(PairsIn(r)) - 1
                                           ELSE Cardinality(PairsIn(r))
  BY <1>6, FS_RemoveElement
<1>9. 1 \in PairsIn(r) <=> Head(r).kind \in Pairing
  <2>1. 1 \in 1 .. n
    BY <1>1
  <2> QED  BY <1>1, <2>1 DEF PairsIn
<1> QED  BY <1>7, <1>8, <1>9, Zenon DEF t

LEMMA NoPairs ==
  /\ <<>> \in Seq(Response) /\ <<>> \in Seq(Request)
  /\ Len(<<>>) = 0 /\ Cardinality(PairsIn(<<>>)) = 0
<1>1. PairsIn(<<>>) = {}
  BY DEF PairsIn
<1>2. Cardinality(PairsIn(<<>>)) = 0
  BY <1>1, FS_EmptySet, Zenon
<1>3. <<>> \in Seq(Response) /\ <<>> \in Seq(Request) /\ Len(<<>>) = 0
  OBVIOUS
<1> QED  BY <1>2, <1>3

(* OutstandingUnderWay, with the count by name. *)
LEMMA OutstandingCounts ==
  OutstandingUnderWay <=>
    (permitted => outstanding = Len(requests) + Cardinality(PairsIn(responses)))
BY DEF OutstandingUnderWay, PairsIn, Pairing

(* A step that leaves the wire, the stream and the target alone. *)
LEMMA WireKept ==
  ASSUME WireInv, UNCHANGED <<listening, state, outstanding, requests, responses, served,
                              dirty, permitted, watches, currentWatch>>
  PROVE  WireInv'
<1>1. WireTyped' /\ ClosedIsEmpty' /\ PermittedOnly'
  BY DEF WireInv, WireTyped, ClosedIsEmpty, PermittedOnly
<1>2. LastRequest' /\ LatestIsServed' /\ OutstandingUnderWay'
  BY DEF WireInv, LastRequest, LatestIsServed, OutstandingUnderWay
<1> QED  BY <1>1, <1>2 DEF WireInv

(* A stream that is not open starts, stops or backs off. *)
LEMMA WireNotOpen ==
  ASSUME WireInv, state # "Open", state' # "Open", outstanding' = 0,
         UNCHANGED <<requests, responses, served, dirty, permitted, watches, currentWatch>>
  PROVE  WireInv'
<1>1. outstanding' = outstanding
  BY DEF WireInv, ClosedIsEmpty
<1>2. WireTyped' /\ ClosedIsEmpty' /\ PermittedOnly'
  BY <1>1 DEF WireInv, WireTyped, ClosedIsEmpty, PermittedOnly
<1>3. LastRequest' /\ LatestIsServed' /\ OutstandingUnderWay'
  BY <1>1 DEF WireInv, LastRequest, LatestIsServed, OutstandingUnderWay
<1> QED  BY <1>2, <1>3 DEF WireInv

(* A stream is closed. *)
LEMMA WireClosed ==
  ASSUME WireInv, Close, state' # "Open", UNCHANGED <<permitted, watches, currentWatch>>
  PROVE  WireInv'
<1>1. /\ outstanding' = 0 /\ requests' = <<>> /\ responses' = <<>>
      /\ served' = [at |-> "none", watch |-> 0] /\ dirty' = FALSE
  BY DEF Close
<1>2. WireTyped'
  <2>1. requests' \in Seq(Request) /\ responses' \in Seq(Response)
    BY <1>1, NoPairs, Zenon
  <2>2. outstanding' \in Int
    BY <1>1
  <2>3. dirty' \in BOOLEAN
    BY <1>1, Zenon
  <2>4. served' \in [at : {"none", "added", "current"}, watch : Nat]
    BY <1>1
  <2>5. permitted' \in BOOLEAN /\ watches' \in Nat /\ currentWatch' \in Nat
    BY DEF WireInv, WireTyped
  <2> QED  BY <2>1, <2>2, <2>3, <2>4, <2>5, Zenon DEF WireTyped
<1>3. Len(responses') = 0 /\ Len(requests') = 0
  BY <1>1, NoPairs, Zenon
<1>4. \A i : i \notin 1 .. Len(responses')
  BY <1>3
<1>5. ClosedIsEmpty' /\ PermittedOnly' /\ LastRequest' /\ LatestIsServed'
  BY <1>1, <1>4 DEF ClosedIsEmpty, PermittedOnly, LastRequest, LatestIsServed
<1>6. OutstandingUnderWay'
  <2>1. PairsIn(responses') = {}
    BY <1>4 DEF PairsIn
  <2>2. Cardinality(PairsIn(responses')) = 0
    BY <2>1, FS_EmptySet, Zenon
  <2>3. outstanding' = Len(requests') + Cardinality(PairsIn(responses'))
    BY <1>1, <1>3, <2>2
  <2> QED  BY <2>3 DEF OutstandingUnderWay, PairsIn, Pairing
<1> QED  BY <1>2, <1>5, <1>6 DEF WireInv

(* A request is sent on an open stream. *)
LEMMA WireRequested ==
  ASSUME WireInv, NEW op \in {"watch", "unwatch"}, NEW w \in Nat,
         requests' = Append(requests, [op |-> op, watch |-> w]),
         outstanding' = outstanding + 1, state' = "Open", watches' = w,
         listening' = (op = "watch"),
         UNCHANGED <<responses, served, dirty, permitted, currentWatch>>
  PROVE  WireInv'
<1> DEFINE e == [op |-> op, watch |-> w]
<1>1. e \in Request
  BY DEF Request
<1>2. requests \in Seq(Request)
  BY DEF WireInv, WireTyped
<1>3. /\ requests' \in Seq(Request) /\ Len(requests) \in Nat
      /\ Len(requests') = Len(requests) + 1
      /\ requests'[Len(requests) + 1] = e
  BY <1>1, <1>2, AppendElements
<1>4. requests' # <<>> /\ requests'[Len(requests')] = e
  BY <1>3
<1>5. WireTyped'
  BY <1>3 DEF WireInv, WireTyped
<1>6. ClosedIsEmpty' /\ PermittedOnly' /\ LatestIsServed'
  BY DEF WireInv, ClosedIsEmpty, PermittedOnly, LatestIsServed
<1>7. LastRequest'
  <2>1. listening' <=> e.op = "watch"
    OBVIOUS
  <2>2. e.watch = watches'
    OBVIOUS
  <2> HIDE DEF e
  <2> QED  BY <1>4, <2>1, <2>2 DEF LastRequest
<1>8. OutstandingUnderWay'
  <2> SUFFICES ASSUME permitted
               PROVE  outstanding' = Len(requests') + Cardinality(PairsIn(responses))
    BY DEF OutstandingUnderWay, PairsIn, Pairing
  <2>1. outstanding = Len(requests) + Cardinality(PairsIn(responses))
    BY OutstandingCounts DEF WireInv
  <2>2. Cardinality(PairsIn(responses)) \in Nat
    BY PairsAreFinite DEF WireInv, WireTyped
  <2> QED  BY <1>3, <2>1, <2>2
<1> QED  BY <1>5, <1>6, <1>7, <1>8 DEF WireInv

(* The client takes a response; if it was a refusal, it may drop the target. *)
LEMMA WireReceived ==
  ASSUME WireInv, responses # <<>>, responses' = Tail(responses),
         UNCHANGED <<state, requests, served, dirty, permitted, watches>>,
         currentWatch' \in Nat, outstanding' \in Int,
         \/ permitted /\ listening' = listening
                      /\ outstanding' = IF Head(responses).kind \in Pairing
                                        THEN outstanding - 1 ELSE outstanding
         \/ ~ permitted
  PROVE  WireInv'
<1>1. responses \in Seq(Response)
  BY DEF WireInv, WireTyped
<1>2. /\ responses' \in Seq(Response) /\ Len(responses) \in Nat \ {0}
      /\ Len(responses') = Len(responses) - 1
      /\ \A i \in 1 .. Len(responses') : /\ i + 1 \in 1 .. Len(responses)
                                         /\ responses'[i] = responses[i + 1]
  <2>1. /\ responses' \in Seq(Response) /\ Len(responses) \in Nat \ {0}
        /\ Len(responses') = Len(responses) - 1
        /\ \A i \in 1 .. Len(responses) - 1 : responses'[i] = responses[i + 1]
    BY <1>1, TailElements
  <2> QED  BY <2>1
<1>3. WireTyped'
  BY <1>2 DEF WireInv, WireTyped
<1>4. state = "Open" /\ state' = "Open"
  BY DEF WireInv, ClosedIsEmpty
<1>5. ClosedIsEmpty'
  BY <1>4 DEF ClosedIsEmpty
<1>6. PermittedOnly'
  BY <1>2 DEF WireInv, PermittedOnly
<1>7. LastRequest'
  <2> SUFFICES ASSUME permitted PROVE LastRequest'
    BY DEF LastRequest
  <2>1. listening' = listening
    OBVIOUS
  <2> QED  BY <1>4, <2>1 DEF WireInv, LastRequest
<1>8. LatestIsServed'
  <2> SUFFICES ASSUME NEW i \in 1 .. Len(responses'), served.at # "none",
                      \A j \in 1 .. Len(responses') : j > i => responses'[j].kind \notin Pairing
               PROVE  responses'[i].watch = served.watch
    BY DEF LatestIsServed
  <2>1. i + 1 \in 1 .. Len(responses) /\ responses'[i] = responses[i + 1]
    BY <1>2
  <2>2. ASSUME NEW j \in 1 .. Len(responses), j > i + 1
        PROVE  responses[j].kind \notin Pairing
    <3>1. PICK k \in 1 .. Len(responses') : j = k + 1
      <4>1. j - 1 \in 1 .. Len(responses') /\ j = (j - 1) + 1
        BY <1>2, <2>2
      <4> QED  BY <4>1
    <3>2. k > i
      BY <2>2, <3>1
    <3> QED  BY <1>2, <3>1, <3>2
  <2>3. responses[i + 1].watch = served.watch
    BY <2>1, <2>2 DEF WireInv, LatestIsServed
  <2> QED  BY <2>1, <2>3
<1>9. OutstandingUnderWay'
  <2> SUFFICES ASSUME permitted
               PROVE  outstanding' = Len(requests) + Cardinality(PairsIn(responses'))
    BY DEF OutstandingUnderWay, PairsIn, Pairing
  <2>1. outstanding = Len(requests) + Cardinality(PairsIn(responses))
    BY OutstandingCounts DEF WireInv
  <2>2. Cardinality(PairsIn(responses)) \in Nat /\ Len(requests) \in Nat
    BY PairsAreFinite DEF WireInv, WireTyped
  <2>3. Cardinality(PairsIn(responses')) =
          IF Head(responses).kind \in Pairing THEN Cardinality(PairsIn(responses)) - 1
                                              ELSE Cardinality(PairsIn(responses))
    BY <1>1, PairsTaken
  <2>4. CASE Head(responses).kind \in Pairing
    BY <2>1, <2>2, <2>3, <2>4
  <2>5. CASE Head(responses).kind \notin Pairing
    BY <2>1, <2>2, <2>3, <2>5
  <2> QED  BY <2>4, <2>5
<1> QED  BY <1>3, <1>5, <1>6, <1>7, <1>8, <1>9 DEF WireInv

(* What the backend leaves alone. *)
LEMMA WireBackendRest ==
  ASSUME BackendRest
  PROVE  UNCHANGED <<listening, state, outstanding, permitted, watches, currentWatch>>
BY DEF BackendRest, target, history

(* The first request is taken. *)
LEMMA RequestTaken ==
  ASSUME WireInv, requests # <<>>, requests' = Tail(requests)
  PROVE  /\ requests' \in Seq(Request) /\ Head(requests) \in Request
         /\ Len(requests) \in Nat \ {0} /\ Len(requests') = Len(requests) - 1
         /\ requests' = <<>> => requests[Len(requests)] = Head(requests)
         /\ requests' # <<>> => requests'[Len(requests')] = requests[Len(requests)]
<1>1. requests \in Seq(Request)
  BY DEF WireInv, WireTyped
<1>2. /\ requests' \in Seq(Request) /\ Len(requests) \in Nat \ {0}
      /\ Len(requests') = Len(requests) - 1
      /\ \A i \in 1 .. Len(requests) - 1 : requests'[i] = requests[i + 1]
      /\ Head(requests) = requests[1] /\ Head(requests) \in Request
  BY <1>1, TailElements
<1>3. ASSUME requests' = <<>> PROVE requests[Len(requests)] = Head(requests)
  <2>1. Len(requests') = 0
    BY <1>3, NoPairs, Zenon
  <2>2. Len(requests) = 1
    BY <1>2, <2>1
  <2> QED  BY <1>2, <2>2
<1>4. ASSUME requests' # <<>> PROVE requests'[Len(requests')] = requests[Len(requests)]
  <2>1. Len(requests') # 0
    BY <1>2, <1>4
  <2>2. Len(requests') \in 1 .. Len(requests) - 1 /\ Len(requests') + 1 = Len(requests)
    BY <1>2, <2>1
  <2> QED  BY <1>2, <2>2
<1> QED  BY <1>2, <1>3, <1>4

(* A response is sent. *)
LEMMA ResponseSent ==
  ASSUME WireInv, NEW e \in Response, responses' = Append(responses, e),
         UNCHANGED permitted
  PROVE  /\ responses' \in Seq(Response)
         /\ Len(responses) \in Nat
         /\ \A i \in 1 .. Len(responses) : i \in 1 .. Len(responses') /\ responses'[i] = responses[i]
         /\ Len(responses) + 1 \in 1 .. Len(responses') /\ responses'[Len(responses) + 1] = e
         /\ \A i \in 1 .. Len(responses') : i \in 1 .. Len(responses) \/ i = Len(responses) + 1
         /\ Cardinality(PairsIn(responses)) \in Nat
         /\ Cardinality(PairsIn(responses')) =
              IF e.kind \in Pairing THEN Cardinality(PairsIn(responses)) + 1
                                    ELSE Cardinality(PairsIn(responses))
         /\ (e.kind = "rejected" <=> ~ permitted /\ e.kind # "removed") =>
              \A i \in 1 .. Len(responses') :
                responses'[i].kind = "rejected" <=> ~ permitted /\ responses'[i].kind # "removed"
<1>1. responses \in Seq(Response)
  BY DEF WireInv, WireTyped
<1>2. /\ responses' \in Seq(Response) /\ Len(responses) \in Nat
      /\ Len(responses') = Len(responses) + 1
      /\ \A i \in 1 .. Len(responses) : responses'[i] = responses[i]
      /\ responses'[Len(responses) + 1] = e
  BY <1>1, AppendElements
<1>3. /\ \A i \in 1 .. Len(responses) : i \in 1 .. Len(responses')
      /\ Len(responses) + 1 \in 1 .. Len(responses')
      /\ \A i \in 1 .. Len(responses') : i \in 1 .. Len(responses) \/ i = Len(responses) + 1
  BY <1>2
<1>4. \A i \in 1 .. Len(responses) :
        responses[i].kind = "rejected" <=> ~ permitted /\ responses[i].kind # "removed"
  BY DEF WireInv, PermittedOnly
<1>5. (e.kind = "rejected" <=> ~ permitted /\ e.kind # "removed") =>
        \A i \in 1 .. Len(responses') :
          responses'[i].kind = "rejected" <=> ~ permitted /\ responses'[i].kind # "removed"
  BY <1>2, <1>3, <1>4
<1>6. Cardinality(PairsIn(responses)) \in Nat
  BY <1>1, PairsAreFinite
<1>7. Cardinality(PairsIn(responses')) =
        IF e.kind \in Pairing THEN Cardinality(PairsIn(responses)) + 1
                              ELSE Cardinality(PairsIn(responses))
  BY <1>1, PairsAppended
<1> QED  BY <1>2, <1>3, <1>5, <1>6, <1>7

(* The backend answers a watch. *)
LEMMA WireAnswerWatch == WireInv /\ AnswerWatch => WireInv'
<1> SUFFICES ASSUME WireInv, AnswerWatch PROVE WireInv'
  OBVIOUS
<1> DEFINE kind == IF permitted THEN "added" ELSE "rejected"
           h == Head(requests)
           e == [kind |-> kind, watch |-> h.watch]
<1>1. /\ requests # <<>> /\ requests' = Tail(requests) /\ h.op = "watch"
      /\ responses' = Append(responses, e)
      /\ served' = [at |-> IF permitted THEN "added" ELSE "none", watch |-> h.watch]
      /\ dirty' = permitted
      /\ UNCHANGED <<listening, state, outstanding, permitted, watches, currentWatch>>
  BY WireBackendRest DEF AnswerWatch, TakeRequest, Respond
<1>2. /\ requests' \in Seq(Request) /\ h \in Request
      /\ Len(requests) \in Nat \ {0} /\ Len(requests') = Len(requests) - 1
      /\ requests' = <<>> => requests[Len(requests)] = h
      /\ requests' # <<>> => requests'[Len(requests')] = requests[Len(requests)]
  BY <1>1, RequestTaken
<1> HIDE DEF h
<1>3. h.watch \in Nat /\ permitted \in BOOLEAN
  BY <1>2 DEF Request, WireInv, WireTyped
<1>4. e \in Response /\ (e.kind = "rejected" <=> ~ permitted /\ e.kind # "removed")
      /\ (e.kind \in Pairing <=> permitted) /\ e.watch = h.watch
  BY <1>3 DEF Response, Pairing
<1> HIDE DEF e
<1>5. /\ responses' \in Seq(Response) /\ Len(responses) \in Nat
      /\ Len(responses) + 1 \in 1 .. Len(responses') /\ responses'[Len(responses) + 1] = e
      /\ \A i \in 1 .. Len(responses') : i \in 1 .. Len(responses) \/ i = Len(responses) + 1
      /\ Cardinality(PairsIn(responses)) \in Nat
      /\ permitted => Cardinality(PairsIn(responses')) = Cardinality(PairsIn(responses)) + 1
      /\ \A i \in 1 .. Len(responses') :
           responses'[i].kind = "rejected" <=> ~ permitted /\ responses'[i].kind # "removed"
  BY <1>1, <1>4, ResponseSent
<1>6. WireTyped'
  <2>1. served' \in [at : {"none", "added", "current"}, watch : Nat]
    BY <1>1, <1>3
  <2>2. /\ outstanding' \in Int /\ watches' \in Nat /\ currentWatch' \in Nat
        /\ dirty' \in BOOLEAN /\ permitted' \in BOOLEAN
    BY <1>1 DEF WireInv, WireTyped
  <2> QED  BY <1>2, <1>5, <2>1, <2>2, Zenon DEF WireTyped
<1>7. ClosedIsEmpty'
  <2>1. state = "Open"
    BY <1>1 DEF WireInv, ClosedIsEmpty
  <2> QED  BY <1>1, <2>1 DEF ClosedIsEmpty
<1>8. PermittedOnly'
  <2>1. (served'.at # "none" => permitted) /\ (dirty' => served'.at # "none")
    BY <1>1
  <2> QED  BY <1>1, <1>5, <2>1 DEF PermittedOnly
<1>9. LastRequest'
  <2> SUFFICES ASSUME permitted, state = "Open" PROVE LastRequest'
    BY <1>1 DEF LastRequest
  <2>1. /\ listening <=> requests[Len(requests)].op = "watch"
        /\ listening => requests[Len(requests)].watch = watches
    BY <1>1 DEF WireInv, LastRequest
  <2>2. served'.at = "added" /\ served'.watch = h.watch
    BY <1>1
  <2>3. CASE requests' = <<>>
    BY <1>1, <1>2, <2>1, <2>2, <2>3 DEF LastRequest
  <2>4. CASE requests' # <<>>
    BY <1>1, <1>2, <2>1, <2>4 DEF LastRequest
  <2> QED  BY <2>3, <2>4
<1>10. LatestIsServed'
  <2> SUFFICES ASSUME NEW i \in 1 .. Len(responses'), served'.at # "none",
                      \A j \in 1 .. Len(responses') : j > i => responses'[j].kind \notin Pairing
               PROVE  responses'[i].watch = served'.watch
    BY DEF LatestIsServed
  <2>1. permitted
    BY <1>1
  <2>2. i \notin 1 .. Len(responses)
    <3>1. ASSUME i \in 1 .. Len(responses) PROVE FALSE
      <4>1. Len(responses) + 1 > i
        BY <1>5, <3>1
      <4> QED  BY <1>4, <1>5, <2>1, <4>1
    <3> QED  BY <3>1
  <2>3. i = Len(responses) + 1
    BY <1>5, <2>2
  <2> QED  BY <1>1, <1>4, <1>5, <2>3
<1>11. OutstandingUnderWay'
  <2> SUFFICES ASSUME permitted
               PROVE  outstanding = Len(requests') + Cardinality(PairsIn(responses'))
    BY <1>1 DEF OutstandingUnderWay, PairsIn, Pairing
  <2>1. outstanding = Len(requests) + Cardinality(PairsIn(responses))
    BY OutstandingCounts DEF WireInv
  <2> QED  BY <1>2, <1>5, <2>1
<1> QED  BY <1>6, <1>7, <1>8, <1>9, <1>10, <1>11 DEF WireInv

(* The backend stops serving the target. *)
LEMMA WireAnswerUnwatch == WireInv /\ AnswerUnwatch => WireInv'
<1> SUFFICES ASSUME WireInv, AnswerUnwatch PROVE WireInv'
  OBVIOUS
<1> DEFINE h == Head(requests)
           e == [kind |-> "removed", watch |-> h.watch]
<1>1. /\ requests # <<>> /\ requests' = Tail(requests) /\ h.op = "unwatch"
      /\ responses' = Append(responses, e) \/ (~ permitted /\ responses' = responses)
      /\ served' = [served EXCEPT !.at = "none"] /\ dirty' = FALSE
      /\ UNCHANGED <<listening, state, outstanding, permitted, watches, currentWatch>>
  BY WireBackendRest DEF AnswerUnwatch, TakeRequest, Respond
<1>2. /\ requests' \in Seq(Request) /\ h \in Request
      /\ Len(requests) \in Nat \ {0} /\ Len(requests') = Len(requests) - 1
      /\ requests' = <<>> => requests[Len(requests)] = h
      /\ requests' # <<>> => requests'[Len(requests')] = requests[Len(requests)]
  BY <1>1, RequestTaken
<1> HIDE DEF h
<1>3. h.watch \in Nat /\ permitted \in BOOLEAN
  BY <1>2 DEF Request, WireInv, WireTyped
<1>4. e \in Response /\ e.kind = "removed" /\ e.kind \in Pairing
  BY <1>3 DEF Response, Pairing
<1> HIDE DEF e
<1>5. /\ responses' \in Seq(Response)
      /\ \A i \in 1 .. Len(responses') :
           responses'[i].kind = "rejected" <=> ~ permitted /\ responses'[i].kind # "removed"
      /\ permitted =>
           /\ Cardinality(PairsIn(responses)) \in Nat
           /\ Cardinality(PairsIn(responses')) = Cardinality(PairsIn(responses)) + 1
  <2>1. CASE responses' = Append(responses, e)
    BY <1>1, <1>4, <2>1, ResponseSent
  <2>2. CASE ~ permitted /\ responses' = responses
    BY <2>2 DEF WireInv, WireTyped, PermittedOnly
  <2> QED  BY <1>1, <2>1, <2>2
<1>6. served' \in [at : {"none", "added", "current"}, watch : Nat] /\ served'.at = "none"
  BY <1>1 DEF WireInv, WireTyped
<1>7. WireTyped'
  <2>1. /\ outstanding' \in Int /\ watches' \in Nat /\ currentWatch' \in Nat
        /\ dirty' \in BOOLEAN /\ permitted' \in BOOLEAN
    BY <1>1 DEF WireInv, WireTyped
  <2> QED  BY <1>2, <1>5, <1>6, <2>1, Zenon DEF WireTyped
<1>8. ClosedIsEmpty'
  <2>1. state = "Open"
    BY <1>1 DEF WireInv, ClosedIsEmpty
  <2> QED  BY <1>1, <2>1 DEF ClosedIsEmpty
<1>9. PermittedOnly' /\ LatestIsServed'
  BY <1>1, <1>5, <1>6 DEF PermittedOnly, LatestIsServed
<1>10. LastRequest'
  <2> SUFFICES ASSUME permitted, state = "Open" PROVE LastRequest'
    BY <1>1 DEF LastRequest
  <2>1. /\ listening <=> requests[Len(requests)].op = "watch"
        /\ listening => requests[Len(requests)].watch = watches
    BY <1>1 DEF WireInv, LastRequest
  <2>2. CASE requests' = <<>>
    BY <1>1, <1>2, <1>6, <2>1, <2>2 DEF LastRequest
  <2>3. CASE requests' # <<>>
    BY <1>1, <1>2, <2>1, <2>3 DEF LastRequest
  <2> QED  BY <2>2, <2>3
<1>11. OutstandingUnderWay'
  <2> SUFFICES ASSUME permitted
               PROVE  outstanding = Len(requests') + Cardinality(PairsIn(responses'))
    BY <1>1 DEF OutstandingUnderWay, PairsIn, Pairing
  <2>1. outstanding = Len(requests) + Cardinality(PairsIn(responses))
    BY OutstandingCounts DEF WireInv
  <2> QED  BY <1>2, <1>5, <2>1
<1> QED  BY <1>7, <1>8, <1>9, <1>10, <1>11 DEF WireInv

(* The backend reports on the target it serves. *)
LEMMA WireReported == WireInv /\ (SendCurrent \/ SendSnapshot) => WireInv'
<1> SUFFICES ASSUME WireInv, SendCurrent \/ SendSnapshot PROVE WireInv'
  OBVIOUS
<1>1. PICK kind \in {"current", "snapshot"} :
        responses' = Append(responses, [kind |-> kind, watch |-> served.watch])
  BY DEF SendCurrent, SendSnapshot, Respond
<1>2. /\ served.at # "none" /\ served'.at # "none" /\ served'.watch = served.watch
      /\ served' \in [at : {"none", "added", "current"}, watch : Nat]
      /\ served.watch \in Nat /\ dirty' \in BOOLEAN
  BY DEF SendCurrent, SendSnapshot, WireInv, WireTyped, PermittedOnly
<1>3. UNCHANGED <<listening, state, outstanding, requests, permitted, watches, currentWatch>>
  BY WireBackendRest DEF SendCurrent, SendSnapshot
<1>4. permitted /\ state = "Open"
  BY <1>2 DEF WireInv, PermittedOnly, ClosedIsEmpty
<1> DEFINE e == [kind |-> kind, watch |-> served.watch]
<1>5. e \in Response /\ e.kind \notin Pairing /\ e.kind # "rejected" /\ e.watch = served.watch
  BY <1>2 DEF Response, Pairing
<1>6. responses' = Append(responses, e)
  BY <1>1
<1> HIDE DEF e
<1>7. /\ responses' \in Seq(Response) /\ Len(responses) \in Nat
      /\ \A i \in 1 .. Len(responses) : i \in 1 .. Len(responses') /\ responses'[i] = responses[i]
      /\ responses'[Len(responses) + 1] = e
      /\ \A i \in 1 .. Len(responses') : i \in 1 .. Len(responses) \/ i = Len(responses) + 1
      /\ Cardinality(PairsIn(responses')) = Cardinality(PairsIn(responses))
      /\ \A i \in 1 .. Len(responses') :
           responses'[i].kind = "rejected" <=> ~ permitted /\ responses'[i].kind # "removed"
  BY <1>3, <1>4, <1>5, <1>6, ResponseSent
<1>8. WireTyped'
  <2>1. /\ outstanding' \in Int /\ watches' \in Nat /\ currentWatch' \in Nat
        /\ permitted' \in BOOLEAN /\ requests' \in Seq(Request)
    BY <1>3 DEF WireInv, WireTyped
  <2> QED  BY <1>2, <1>7, <2>1, Zenon DEF WireTyped
<1>9. ClosedIsEmpty' /\ PermittedOnly'
  BY <1>2, <1>3, <1>4, <1>7 DEF ClosedIsEmpty, PermittedOnly
<1>10. LastRequest'
  BY <1>2, <1>3 DEF WireInv, LastRequest
<1>11. LatestIsServed'
  <2> SUFFICES ASSUME NEW i \in 1 .. Len(responses'),
                      \A j \in 1 .. Len(responses') : j > i => responses'[j].kind \notin Pairing
               PROVE  responses'[i].watch = served.watch
    BY <1>2 DEF LatestIsServed
  <2>1. CASE i \in 1 .. Len(responses)
    <3>1. \A j \in 1 .. Len(responses) : j > i => responses[j].kind \notin Pairing
      BY <1>7
    <3> QED  BY <1>2, <1>7, <2>1, <3>1 DEF WireInv, LatestIsServed
  <2>2. CASE i = Len(responses) + 1
    BY <1>5, <1>7, <2>2
  <2> QED  BY <1>7, <2>1, <2>2
<1>12. OutstandingUnderWay'
  <2>1. outstanding = Len(requests) + Cardinality(PairsIn(responses))
    BY <1>4, OutstandingCounts DEF WireInv
  <2>2. outstanding' = Len(requests') + Cardinality(PairsIn(responses'))
    BY <1>3, <1>7, <2>1
  <2> QED  BY <2>2 DEF OutstandingUnderWay, PairsIn, Pairing
<1> QED  BY <1>8, <1>9, <1>10, <1>11, <1>12 DEF WireInv

(* Every step keeps the wire in order. *)
LEMMA WireStep == WireInv /\ [Next]_vars => WireInv'
<1> SUFFICES ASSUME WireInv, [Next]_vars PROVE WireInv'
  OBVIOUS
<1>1. watches \in Nat /\ currentWatch \in Nat /\ outstanding \in Int /\ permitted \in BOOLEAN
  BY DEF WireInv, WireTyped
<1>2. CASE GetDocs \/ DeliverEvent \/ OnlineTimeout \/ UNCHANGED vars
  BY <1>2, WireKept DEF GetDocs, DeliverEvent, OnlineTimeout, vars, query, target, wire, history
<1>3. CASE AddQueryListener
  <2>1. UNCHANGED <<responses, served, dirty, permitted>>
    BY <1>3 DEF AddQueryListener
  <2>2. CASE listeners = {}
    <3>1. listening' = TRUE
      BY <1>3, <2>2 DEF AddQueryListener, Listen
    <3>2. \/ /\ ~ IsStarted /\ Start(state) /\ outstanding' = 0
             /\ UNCHANGED <<requests, watches, currentWatch>>
          \/ state = "Open" /\ SendWatchRequest /\ state' = state
          \/ /\ state \in {"Starting", "Backoff"}
             /\ UNCHANGED <<state, outstanding, requests, watches, currentWatch>>
      BY <1>3, <2>2 DEF AddQueryListener, Listen, target, history
    <3>3. CASE ~ IsStarted /\ Start(state) /\ outstanding' = 0
               /\ UNCHANGED <<requests, watches, currentWatch>>
      <4>1. state # "Open" /\ state' # "Open"
        BY <3>3 DEF IsStarted, Start
      <4> QED  BY <2>1, <3>3, <4>1, WireNotOpen
    <3>4. CASE state = "Open" /\ SendWatchRequest /\ state' = state
      <4>1. /\ requests' = Append(requests, [op |-> "watch", watch |-> watches + 1])
            /\ outstanding' = outstanding + 1 /\ state' = "Open" /\ watches' = watches + 1
            /\ UNCHANGED currentWatch
        BY <3>4 DEF SendWatchRequest
      <4>2. "watch" \in {"watch", "unwatch"} /\ watches + 1 \in Nat
        BY <1>1
      <4>3. listening' = ("watch" = "watch")
        BY <3>1
      <4> QED  BY <2>1, <4>1, <4>2, <4>3, WireRequested
    <3>5. CASE /\ state \in {"Starting", "Backoff"}
               /\ UNCHANGED <<state, outstanding, requests, watches, currentWatch>>
      <4>1. state # "Open" /\ state' # "Open" /\ outstanding' = 0
        BY <3>5 DEF WireInv, ClosedIsEmpty
      <4> QED  BY <2>1, <3>5, <4>1, WireNotOpen
    <3> QED  BY <3>2, <3>3, <3>4, <3>5
  <2>3. CASE listeners # {}
    <3>1. UNCHANGED <<listening, state, outstanding, requests, watches, currentWatch>>
      BY <1>3, <2>3 DEF AddQueryListener, target, history
    <3> QED  BY <2>1, <3>1, WireKept
  <2> QED  BY <2>2, <2>3
<1>4. CASE RemoveQueryListener
  <2>1. UNCHANGED <<state, responses, served, dirty, permitted>>
    BY <1>4 DEF RemoveQueryListener
  <2>2. CASE listeners # {} /\ listeners' = {}
    <3>1. StopListening
      BY <1>4, <2>2 DEF RemoveQueryListener
    <3>2. CASE state = "Open"
      <4>1. /\ requests' = Append(requests, [op |-> "unwatch", watch |-> watches])
            /\ outstanding' = outstanding + 1 /\ state' = "Open" /\ watches' = watches
            /\ UNCHANGED currentWatch /\ listening' = FALSE
        BY <2>1, <3>1, <3>2 DEF StopListening, SendUnwatchRequest, history
      <4>2. "unwatch" \in {"watch", "unwatch"} /\ listening' = ("unwatch" = "watch")
        BY <4>1
      <4> QED  BY <1>1, <2>1, <4>1, <4>2, WireRequested
    <3>3. CASE state # "Open"
      <4>1. UNCHANGED <<outstanding, requests, watches, currentWatch>>
        BY <3>1, <3>3 DEF StopListening, target, history
      <4>2. state' # "Open" /\ outstanding' = 0
        BY <2>1, <3>3, <4>1 DEF WireInv, ClosedIsEmpty
      <4> QED  BY <2>1, <3>3, <4>1, <4>2, WireNotOpen
    <3> QED  BY <3>2, <3>3
  <2>3. CASE ~ (listeners # {} /\ listeners' = {})
    <3>1. UNCHANGED <<listening, outstanding, requests, watches, currentWatch>>
      BY <1>4, <2>3 DEF RemoveQueryListener, target, history
    <3> QED  BY <2>1, <3>1, WireKept
  <2> QED  BY <2>2, <2>3
<1>5. CASE StreamOpened
  <2>1. state = "Starting" /\ state' = "Open"
        /\ UNCHANGED <<listening, responses, served, dirty, permitted>>
    BY <1>5 DEF StreamOpened
  <2>2. CASE listening
    <3>1. /\ requests' = Append(requests, [op |-> "watch", watch |-> watches + 1])
          /\ outstanding' = outstanding + 1 /\ watches' = watches + 1
          /\ UNCHANGED currentWatch
      BY <1>5, <2>2 DEF StreamOpened, SendWatchRequest
    <3>2. "watch" \in {"watch", "unwatch"} /\ watches + 1 \in Nat
      BY <1>1
    <3>3. listening' = ("watch" = "watch")
      BY <2>1, <2>2
    <3> QED  BY <2>1, <3>1, <3>2, <3>3, WireRequested
  <2>3. CASE ~ listening
    <3>1. UNCHANGED <<outstanding, requests, watches, currentWatch>>
      BY <1>5, <2>3 DEF StreamOpened, target, history
    <3>2. requests' = <<>> /\ served'.at = "none" /\ ~ listening'
      BY <2>1, <2>3, <3>1 DEF WireInv, ClosedIsEmpty
    <3>3. LastRequest'
      BY <3>2 DEF LastRequest
    <3>4. ClosedIsEmpty'
      BY <2>1 DEF ClosedIsEmpty
    <3>5. WireTyped' /\ PermittedOnly' /\ LatestIsServed' /\ OutstandingUnderWay'
      BY <2>1, <3>1 DEF WireInv, WireTyped, PermittedOnly, LatestIsServed, OutstandingUnderWay
    <3> QED  BY <3>3, <3>4, <3>5 DEF WireInv
  <2> QED  BY <2>2, <2>3
<1>6. CASE BackoffElapsed
  <2>1. state # "Open" /\ state' # "Open" /\ outstanding' = 0
        /\ UNCHANGED <<requests, responses, served, dirty, permitted, watches, currentWatch>>
    BY <1>6 DEF BackoffElapsed, target, wire, history, WireInv, ClosedIsEmpty
  <2> QED  BY <2>1, WireNotOpen
<1>7. CASE IdleTimeout \/ StreamFailed \/ RestartNetwork
  <2>1. Close /\ state' # "Open" /\ UNCHANGED <<permitted, watches, currentWatch>>
    BY <1>7 DEF IdleTimeout, StreamFailed, RestartNetwork, Start, history
  <2> QED  BY <2>1, WireClosed
<1>8. CASE TargetAdded \/ TargetRemoved \/ TargetIsCurrent \/ WatchSnapshot \/ TargetRejected
  <2>1. /\ responses # <<>> /\ responses' = Tail(responses)
        /\ UNCHANGED <<state, requests, served, dirty, permitted, watches>>
    BY <1>8 DEF TargetAdded, TargetRemoved, TargetIsCurrent, WatchSnapshot, TargetRejected, Receive
  <2>2. Head(responses) \in Response /\ 1 \in 1 .. Len(responses) /\ Head(responses) = responses[1]
    <3>1. responses \in Seq(Response)
      BY DEF WireInv, WireTyped
    <3>2. Len(responses) \in Nat \ {0} /\ Head(responses) \in Response /\ Head(responses) = responses[1]
      BY <2>1, <3>1, TailElements
    <3> QED  BY <3>2
  <2>3. currentWatch' \in Nat /\ outstanding' \in Int
    <3>1. Head(responses).watch \in Nat
      BY <2>2 DEF Response
    <3> QED  BY <1>1, <1>8, <3>1 DEF TargetAdded, TargetRemoved, TargetIsCurrent, WatchSnapshot,
                                     TargetRejected, target
  <2>4. CASE TargetRejected
    <3>1. Head(responses).kind = "rejected"
      BY <2>4 DEF TargetRejected, Receive
    <3>2. ~ permitted
      BY <2>2, <3>1 DEF WireInv, PermittedOnly
    <3> QED  BY <2>1, <2>3, <3>2, WireReceived
  <2>5. CASE TargetAdded \/ TargetRemoved
    <3>1. /\ listening' = listening /\ outstanding' = outstanding - 1
          /\ Head(responses).kind \in Pairing
      BY <2>5 DEF TargetAdded, TargetRemoved, Receive, Pairing
    <3>2. permitted \/ ~ permitted
      OBVIOUS
    <3> QED  BY <2>1, <2>3, <3>1, <3>2, WireReceived
  <2>6. CASE TargetIsCurrent \/ WatchSnapshot
    <3>1. /\ listening' = listening /\ outstanding' = outstanding
          /\ Head(responses).kind \notin Pairing
      BY <2>6 DEF TargetIsCurrent, WatchSnapshot, Receive, Pairing, target
    <3>2. permitted \/ ~ permitted
      OBVIOUS
    <3> QED  BY <2>1, <2>3, <3>1, <3>2, WireReceived
  <2> QED  BY <1>8, <2>4, <2>5, <2>6
<1>9. CASE Backend
  BY <1>9, WireAnswerWatch, WireAnswerUnwatch, WireReported DEF Backend
<1> QED  BY <1>2, <1>3, <1>4, <1>5, <1>6, <1>7, <1>8, <1>9 DEF Next, Client

-----------------------------------------------------------------------------
(***************************************************************************)
(* The theorems.                                                           *)
(***************************************************************************)

LEMMA InitIInv == Init => IInv
<1> SUFFICES ASSUME Init PROVE IInv
  OBVIOUS
<1>1. 0 \in 0 .. MaxGets /\ 0 \in 0 .. MaxFaults /\ 0 \in Nat
  BY GetDocumentsAssumption DEF GetDocumentsAssumption
<1>2. /\ tasks = <<>> /\ events = <<>> /\ answers = <<>> /\ requests = <<>> /\ responses = <<>>
      /\ calls = 0 /\ listeners = {} /\ raised = {} /\ muted = {}
  BY DEF Init
<1>3. /\ \A i : i \notin 1 .. Len(tasks)
      /\ \A i : i \notin 1 .. Len(events)
      /\ \A i : i \notin 1 .. Len(answers)
      /\ \A i : i \notin 1 .. Len(responses)
      /\ Len(requests) = 0
  BY <1>2
<1>4. GetsInv
  <2>1. GetsTyped
    BY <1>1, <1>2 DEF GetsTyped
  <2>2. Answered = {}
    BY <1>3 DEF Answered
  <2>3. CalledOnly /\ NewGets /\ AddedOnce /\ RemovedWhenMuted
    BY <1>2, <1>3, <2>2 DEF CalledOnly, NewGets, AddedOnce, RemovedWhenMuted, ToAdd
  <2>4. ErrorIsLast /\ AnsweredIsQuiet /\ AnsweredOnce
    BY <1>2, <1>3, <2>2 DEF ErrorIsLast, AnsweredIsQuiet, AnsweredOnce
  <2>5. \A g : g \notin 1 .. calls
    BY <1>2
  <2>6. NoGetForgotten
    BY <2>5 DEF NoGetForgotten
  <2> QED  BY <2>1, <2>3, <2>4, <2>6 DEF GetsInv
<1>5. LayersInv
  <2>1. LayersTyped
    BY DEF Init, LayersTyped
  <2>2. QueryIsWatched /\ NobodyWaitsInVain
    BY DEF Init, QueryIsWatched, NobodyWaitsInVain
  <2>3. TimerMeansUndecided /\ IdleMeansUnneeded
    BY DEF Init, TimerMeansUndecided, IdleMeansUnneeded
  <2> QED  BY <2>1, <2>2, <2>3 DEF LayersInv
<1>6. WireInv
  <2>1. WireTyped
    <3>1. requests \in Seq(Request) /\ responses \in Seq(Response)
      BY <1>2, NoPairs, Zenon
    <3>2. outstanding \in Int /\ watches \in Nat /\ currentWatch \in Nat
      BY DEF Init
    <3>3. served \in [at : {"none", "added", "current"}, watch : Nat]
      BY DEF Init
    <3>4. dirty \in BOOLEAN /\ permitted \in BOOLEAN
      BY Zenon DEF Init
    <3> QED  BY <3>1, <3>2, <3>3, <3>4, Zenon DEF WireTyped
  <2>2. ClosedIsEmpty /\ PermittedOnly /\ LastRequest /\ LatestIsServed
    BY <1>3 DEF Init, ClosedIsEmpty, PermittedOnly, LastRequest, LatestIsServed
  <2>3. OutstandingUnderWay
    <3>1. PairsIn(responses) = {}
      BY <1>3 DEF PairsIn
    <3>2. Cardinality(PairsIn(responses)) = 0
      BY <3>1, FS_EmptySet, Zenon
    <3>3. outstanding = 0
      BY DEF Init
    <3> QED  BY <1>3, <3>2, <3>3, OutstandingCounts
  <2> QED  BY <2>1, <2>2, <2>3 DEF WireInv
<1>7. faults \in 0 .. MaxFaults
  BY <1>1 DEF Init
<1> QED  BY <1>4, <1>5, <1>6, <1>7 DEF IInv

LEMMA FaultsStep == faults \in 0 .. MaxFaults /\ [Next]_vars => faults' \in 0 .. MaxFaults
<1> SUFFICES ASSUME faults \in 0 .. MaxFaults, [Next]_vars PROVE faults' \in 0 .. MaxFaults
  OBVIOUS
<1>1. CASE StreamFailed \/ RestartNetwork
  <2>1. MaxFaults \in Nat
    BY GetDocumentsAssumption DEF GetDocumentsAssumption
  <2>2. faults < MaxFaults /\ faults' = faults + 1
    BY <1>1 DEF StreamFailed, RestartNetwork
  <2> QED  BY <2>1, <2>2
<1>2. CASE \/ GetDocs \/ DeliverEvent \/ AddQueryListener \/ RemoveQueryListener
           \/ StreamOpened \/ BackoffElapsed \/ IdleTimeout \/ OnlineTimeout
  BY <1>2 DEF GetDocs, DeliverEvent, AddQueryListener, RemoveQueryListener,
              StreamOpened, BackoffElapsed, IdleTimeout, OnlineTimeout
<1>3. CASE \/ TargetAdded \/ TargetRemoved \/ TargetIsCurrent \/ WatchSnapshot
           \/ TargetRejected
  BY <1>3 DEF TargetAdded, TargetRemoved, TargetIsCurrent, WatchSnapshot, TargetRejected,
              Receive
<1>4. CASE Backend \/ UNCHANGED vars
  BY <1>4 DEF Backend, AnswerWatch, AnswerUnwatch, SendCurrent, SendSnapshot, BackendRest, vars
<1> QED  BY <1>1, <1>2, <1>3, <1>4 DEF Next, Client

LEMMA Invariant == Spec => []IInv
<1>1. IInv /\ [Next]_vars => IInv'
  BY GetsStep, LayersStep, WireStep, FaultsStep DEF IInv
<1> QED  BY <1>1, InitIInv, PTL DEF Spec

(* Every variable keeps its type, whatever the two queues, the timers and   *)
(* the network do (EventManager, RemoteStore, OnlineStateTracker).          *)
THEOREM TypeCorrect == Spec => []TypeOK
<1>1. IInv => TypeOK
  BY DEF IInv, GetsInv, LayersInv, WireInv, GetsTyped, LayersTyped, WireTyped, TypeOK,
         Request, Response
<1> QED  BY <1>1, Invariant, PTL

(* Listeners, view, target, stream, timers and the count of outstanding     *)
(* answers agree, so that the assertions of SyncEngine, RemoteStore and     *)
(* OnlineStateTracker hold for any number of gets and faults.               *)
THEOREM LayersStayInAgreement == Spec => []LayersAgree
<1>1. IInv => LayersAgree
  BY DEF IInv, LayersInv, WireInv, LayersAgree
<1> QED  BY <1>1, Invariant, PTL

(* Each call of getDocuments is answered at most once, although its         *)
(* listener may raise more events before it is removed, and none is lost    *)
(* between the two queues (ListenOnce, AsyncEventListener).                 *)
THEOREM EachGetIsAnsweredOnce == Spec => []OneAnswerEach
<1>1. IInv => OneAnswerEach
  BY DEF IInv, GetsInv, OneAnswerEach
<1> QED  BY <1>1, Invariant, PTL

(* Snapshots that an earlier watch of the target left on the wire never     *)
(* make the view synced (WatchChangeAggregator::IsActiveTarget).            *)
THEOREM SyncedByPresentWatch == Spec => SnapshotOfPresentWatch
<1>1. ASSUME IInv, [Next]_vars, view # "synced", view' = "synced"
      PROVE  Head(responses).watch = watches
  <2>1. WatchSnapshot /\ IsActiveTarget
    <3>1. CASE WatchSnapshot
      BY <1>1, <3>1 DEF WatchSnapshot
    <3>2. CASE \/ GetDocs \/ DeliverEvent \/ AddQueryListener \/ RemoveQueryListener
               \/ StreamOpened \/ BackoffElapsed \/ IdleTimeout \/ OnlineTimeout
               \/ StreamFailed \/ RestartNetwork
      BY <1>1, <3>2 DEF GetDocs, DeliverEvent, AddQueryListener, RemoveQueryListener, StreamOpened,
                        BackoffElapsed, IdleTimeout, OnlineTimeout, StreamFailed, RestartNetwork,
                        GoOffline, query
    <3>3. CASE TargetAdded \/ TargetRemoved \/ TargetIsCurrent \/ TargetRejected
      BY <1>1, <3>3 DEF TargetAdded, TargetRemoved, TargetIsCurrent, TargetRejected, query
    <3>4. CASE Backend \/ UNCHANGED vars
      BY <1>1, <3>4 DEF Backend, AnswerWatch, AnswerUnwatch, SendCurrent, SendSnapshot,
                        BackendRest, vars, query
    <3> QED  BY <1>1, <3>1, <3>2, <3>3, <3>4 DEF Next, Client
  <2>2. /\ listening /\ outstanding = 0
        /\ responses # <<>> /\ Head(responses).kind = "snapshot"
    BY <2>1 DEF WatchSnapshot, IsActiveTarget, Receive
  <2>3. /\ responses \in Seq(Response) /\ requests \in Seq(Request) /\ permitted \in BOOLEAN
    BY <1>1 DEF IInv, WireInv, WireTyped
  <2>4. Len(responses) \in Nat \ {0} /\ Head(responses) = responses[1] /\ 1 \in 1 .. Len(responses)
    <3>1. Len(responses) \in Nat \ {0} /\ Head(responses) = responses[1]
      BY <2>2, <2>3, TailElements
    <3> QED  BY <3>1
  <2>5. permitted
    BY <1>1, <2>2, <2>4 DEF IInv, WireInv, PermittedOnly
  <2>6. requests = <<>> /\ PairsIn(responses) = {}
    <3>1. 0 = Len(requests) + Cardinality(PairsIn(responses))
      BY <1>1, <2>2, <2>5, OutstandingCounts DEF IInv, WireInv
    <3>2. IsFiniteSet(PairsIn(responses)) /\ Cardinality(PairsIn(responses)) \in Nat
      BY <2>3, PairsAreFinite
    <3>3. Len(requests) \in Nat
      BY <2>3
    <3>4. Len(requests) = 0 /\ Cardinality(PairsIn(responses)) = 0
      BY <3>1, <3>2, <3>3
    <3>5. requests = <<>>
      BY <2>3, <3>4
    <3>6. PairsIn(responses) = {}
      BY <3>2, <3>4, FS_EmptySet
    <3> QED  BY <3>5, <3>6
  <2>7. state = "Open"
    BY <1>1, <2>2 DEF IInv, WireInv, ClosedIsEmpty
  <2>8. served.at # "none" /\ served.watch = watches
    BY <1>1, <2>2, <2>5, <2>6, <2>7 DEF IInv, WireInv, LastRequest
  <2>9. \A j \in 1 .. Len(responses) : responses[j].kind \notin Pairing
    BY <2>6 DEF PairsIn
  <2>10. responses[1].watch = served.watch
    BY <1>1, <2>4, <2>8, <2>9 DEF IInv, WireInv, LatestIsServed
  <2> QED  BY <2>4, <2>8, <2>10
<1>2. IInv /\ [Next]_vars =>
        [view # "synced" /\ view' = "synced" => Head(responses).watch = watches]_vars
  BY <1>1
<1> QED  BY <1>2, Invariant, PTL DEF Spec, SnapshotOfPresentWatch

-----------------------------------------------------------------------------
(***************************************************************************)
(* Induction over the natural numbers, for a set in the place of a         *)
(* predicate, and the recursion it justifies.                              *)
(***************************************************************************)

(* A set that contains 0, and n + 1 with n, contains every natural number:  *)
(* otherwise there would be a smallest number that is missing.              *)
LEMMA SetInduction ==
  ASSUME NEW S, 0 \in S, \A n \in Nat : n \in S => n + 1 \in S
  PROVE  \A n \in Nat : n \in S
<1> DEFINE Smaller == {p \in Nat \X Nat : p[1] < p[2]}
           missing == Nat \ S
<1>1. Smaller = OpToRel(<, Nat)
  BY Zenon DEF OpToRel
<1>2. IsWellFoundedOn(Smaller, Nat)
  BY <1>1, NatLessThanWellFounded, Zenon
<1> SUFFICES ASSUME missing # {} PROVE FALSE
  OBVIOUS
<1>3. PICK n \in missing : \A m \in missing : ~ (<<m, n>> \in Smaller)
  BY <1>2, WFMin, Zenon
<1>4. n # 0 /\ n \in Nat
  OBVIOUS
<1>5. n - 1 \in Nat /\ n - 1 < n /\ (n - 1) + 1 = n
  BY <1>4
<1>6. n - 1 \notin missing
  BY <1>3, <1>4, <1>5
<1> QED
  BY <1>4, <1>5, <1>6

(* A step of a loop over 1 .. len takes an index and a value to a value of  *)
(* V; a run of the loop lists the values, from the first one on.            *)
IsStep(step, len, V) == step \in [(1 .. len) \X V -> V]

IsRun(f, step, base, len, V) ==
  /\ f \in [0 .. len -> V]
  /\ f[0] = base
  /\ \A n \in 1 .. len : f[n] = step[<<n, f[n - 1]>>]

(* Every such loop has a run, whatever its step does.                       *)
LEMMA LoopRuns ==
  ASSUME NEW V, NEW base \in V, NEW len \in Nat, NEW step, IsStep(step, len, V)
  PROVE  \E f : IsRun(f, step, base, len, V)
<1> DEFINE Run(f, k) ==
             f[0] = base /\ \A n \in 1 .. k : f[n] = step[<<n, f[n - 1]>>]
           ok == {k \in Nat : k <= len => \E f \in [0 .. k -> V] : Run(f, k)}
<1>1. 0 \in ok
  <2>1. [n \in 0 .. 0 |-> base] \in [0 .. 0 -> V] /\ Run([n \in 0 .. 0 |-> base], 0)
    OBVIOUS
  <2> QED
    BY <2>1
<1>2. ASSUME NEW k \in Nat, k \in ok
      PROVE  k + 1 \in ok
  <2> SUFFICES ASSUME k + 1 <= len
               PROVE  \E f \in [0 .. k + 1 -> V] : Run(f, k + 1)
    OBVIOUS
  <2>1. PICK f \in [0 .. k -> V] : Run(f, k)
    BY <1>2
  <2> DEFINE g == [n \in 0 .. k + 1 |-> IF n = k + 1 THEN step[<<n, f[k]>>] ELSE f[n]]
  <2>2. f[k] \in V /\ k + 1 \in 1 .. len
    OBVIOUS
  <2>3. step[<<k + 1, f[k]>>] \in V
    BY <2>2 DEF IsStep
  <2>4. g \in [0 .. k + 1 -> V]
    BY <2>3
  <2>5. g[0] = base
    BY <2>1
  <2>6. ASSUME NEW n \in 1 .. k + 1 PROVE g[n] = step[<<n, g[n - 1]>>]
    <3>1. CASE n = k + 1
      BY <3>1
    <3>2. CASE n \in 1 .. k
      BY <2>1, <3>2
    <3> QED
      BY <3>1, <3>2
  <2> QED
    BY <2>4, <2>5, <2>6
<1>3. len \in ok
  <2> HIDE DEF ok
  <2> QED
    BY <1>1, <1>2, SetInduction
<1> QED
  BY <1>3 DEF IsRun

-----------------------------------------------------------------------------
(***************************************************************************)
(* The bookkeeping of limbo resolutions.                                   *)
(***************************************************************************)

(* Books that agree: RemoteStore listens to the targets that are known, the *)
(* target of a key is known with that key, and no id is reused.             *)
Agrees(t) ==
  /\ t.listens = DOMAIN t.byTarget
  /\ \A id \in DOMAIN t.byTarget : id < t.nextTarget
  /\ \A key \in DOMAIN t.byKey :
       t.byKey[key] \in DOMAIN t.byTarget /\ t.byTarget[t.byKey[key]] = key
  /\ Cardinality(DOMAIN t.byKey) <= MaxConcurrent

Targets == Nat \ {0}

Books ==
  {t \in [enqueued   : Seq(Keys),
          byKey      : UNION {[D -> Targets] : D \in SUBSET Keys},
          byTarget   : UNION {[D -> Keys] : D \in SUBSET Targets},
          listens    : SUBSET Targets,
          nextTarget : Targets] : Agrees(t)}

(* The queue is at rest: it is empty, or all places are taken. *)
Stuck(t) == t.enqueued = <<>> \/ Cardinality(DOMAIN t.byKey) = MaxConcurrent

(* Every target is that of its key: none is left over from an earlier one. *)
Exact(t) ==
  \A id \in DOMAIN t.byTarget :
    t.byTarget[id] \in DOMAIN t.byKey /\ t.byKey[t.byTarget[id]] = id

Known(t) == DOMAIN t.byKey \cup ToSet(t.enqueued)

(* What books consist of. *)
LEMMA BookFields ==
  ASSUME NEW t \in Books
  PROVE  /\ t.enqueued \in Seq(Keys)
         /\ DOMAIN t.byKey \subseteq Keys
         /\ t.byKey \in [DOMAIN t.byKey -> Targets]
         /\ DOMAIN t.byTarget \subseteq Targets
         /\ t.byTarget \in [DOMAIN t.byTarget -> Keys]
         /\ t.nextTarget \in Targets
         /\ t = [enqueued |-> t.enqueued, byKey |-> t.byKey, byTarget |-> t.byTarget,
                 listens |-> t.listens, nextTarget |-> t.nextTarget]
         /\ Agrees(t)
  BY DEF Books

(* A set of keys is finite. *)
LEMMA KeysAreFinite ==
  ASSUME NEW D \in SUBSET Keys
  PROVE  IsFiniteSet(D) /\ Cardinality(D) \in Nat
<1>1. IsFiniteSet(1 .. MaxKeys)
  BY LimboAssumption, FS_Interval DEF LimboAssumption
<1>2. IsFiniteSet(D)
  BY <1>1, FS_Subset DEF Keys
<1> QED
  BY <1>2, FS_CardinalityType

(* Books, made of the fields q, k, E, b and n, where k and b are maps of D  *)
(* and E.                                                                   *)
AreMade(t, q, k, E, b, n, D) ==
  /\ t = [enqueued |-> q, byKey |-> k, byTarget |-> b, listens |-> E, nextTarget |-> n]
  /\ q \in Seq(Keys) /\ D \in SUBSET Keys /\ E \in SUBSET Targets /\ n \in Targets
  /\ k \in [D -> Targets] /\ b \in [E -> Keys]
  /\ \A id \in E : id < n
  /\ \A key \in D : k[key] \in E /\ b[k[key]] = key
  /\ Cardinality(D) <= MaxConcurrent

LEMMA MakesBooks ==
  ASSUME NEW q, NEW D, NEW k, NEW E, NEW b, NEW n, NEW t, AreMade(t, q, k, E, b, n, D)
  PROVE  t \in Books
<1> USE DEF AreMade
<1>1. k \in UNION {[C -> Targets] : C \in SUBSET Keys}
  OBVIOUS
<1>2. b \in UNION {[C -> Keys] : C \in SUBSET Targets}
  OBVIOUS
<1>3. Agrees(t)
  BY DEF Agrees
<1> QED
  BY <1>1, <1>2, <1>3 DEF Books

(* What is left of books without a target and its key. *)
Dropped(t, key, id) ==
  [t EXCEPT !.byKey = Without(@, key),
            !.byTarget = Without(@, id),
            !.listens = @ \ {id}]

LEMMA DropKeepsBooks ==
  ASSUME NEW t \in Books, NEW id \in DOMAIN t.byTarget,
         NEW key, key = t.byTarget[id]
  PROVE  /\ Dropped(t, key, id) \in Books
         /\ Dropped(t, key, id).enqueued = t.enqueued
         /\ DOMAIN Dropped(t, key, id).byKey = DOMAIN t.byKey \ {key}
         /\ Exact(t) => Exact(Dropped(t, key, id))
<1> DEFINE u == Dropped(t, key, id)
           D == DOMAIN t.byKey \ {key}
           E == DOMAIN t.byTarget \ {id}
           k == [x \in D |-> t.byKey[x]]
           b == [x \in E |-> t.byTarget[x]]
<1>1. /\ t.enqueued \in Seq(Keys)
      /\ DOMAIN t.byKey \subseteq Keys /\ t.byKey \in [DOMAIN t.byKey -> Targets]
      /\ DOMAIN t.byTarget \subseteq Targets /\ t.byTarget \in [DOMAIN t.byTarget -> Keys]
      /\ t.nextTarget \in Targets
      /\ t = [enqueued |-> t.enqueued, byKey |-> t.byKey, byTarget |-> t.byTarget,
              listens |-> t.listens, nextTarget |-> t.nextTarget]
      /\ Agrees(t)
  BY BookFields
<1>2. Without(t.byKey, key) = k /\ Without(t.byTarget, id) = b
  <2>1. /\ DOMAIN t.byKey \ {key} = D
        /\ DOMAIN t.byTarget \ {id} = E
    OBVIOUS
  <2> QED
    BY <1>1 DEF Without, Restrict
<1>3. u = [enqueued |-> t.enqueued, byKey |-> k, byTarget |-> b, listens |-> E,
           nextTarget |-> t.nextTarget]
  <2>1. t.listens \ {id} = E
    BY <1>1 DEF Agrees
  <2>2. u = Dropped(t, key, id)
    OBVIOUS
  <2> HIDE DEF k, b, E, u
  <2> QED
    BY <1>1, <1>2, <2>1, <2>2 DEF Dropped
<1>4. /\ k \in [D -> Targets] /\ b \in [E -> Keys]
      /\ \A x \in E : x < t.nextTarget
      /\ \A x \in D : k[x] \in E /\ b[k[x]] = x
  BY <1>1 DEF Agrees
<1>5. Cardinality(D) <= MaxConcurrent
  <2>1. IsFiniteSet(DOMAIN t.byKey) /\ Cardinality(DOMAIN t.byKey) \in Nat
    BY <1>1, KeysAreFinite
  <2>2. Cardinality(D) <= Cardinality(DOMAIN t.byKey) /\ Cardinality(D) \in Nat
    BY <1>1, <2>1, FS_Subset, KeysAreFinite
  <2>3. Cardinality(DOMAIN t.byKey) <= MaxConcurrent /\ MaxConcurrent \in Nat
    BY <1>1, LimboAssumption DEF Agrees, LimboAssumption
  <2> QED
    BY <2>1, <2>2, <2>3
<1>6. D \in SUBSET Keys /\ E \in SUBSET Targets
  BY <1>1
<1>7. /\ DOMAIN k = D /\ DOMAIN b = E
      /\ \A x \in D : k[x] = t.byKey[x]
      /\ \A x \in E : b[x] = t.byTarget[x]
  OBVIOUS
<1> HIDE DEF k, b
<1>8. u \in Books
  <2> HIDE DEF D, E, u
  <2>1. AreMade(u, t.enqueued, k, E, b, t.nextTarget, D)
    BY <1>1, <1>3, <1>4, <1>5, <1>6 DEF AreMade
  <2> QED
    BY <2>1, MakesBooks
<1>9. u.enqueued = t.enqueued /\ u.byKey = k /\ u.byTarget = b
  BY <1>3
<1>10. ASSUME Exact(t) PROVE Exact(u)
  <2> SUFFICES ASSUME NEW x \in E PROVE t.byTarget[x] \in D /\ k[t.byTarget[x]] = x
    BY <1>7, <1>9 DEF Exact
  <2>1. /\ t.byTarget[x] \in DOMAIN t.byKey
        /\ t.byKey[t.byTarget[x]] = x /\ t.byKey[key] = id
    BY <1>10 DEF Exact
  <2> QED
    BY <1>7, <2>1
<1> QED
  BY <1>7, <1>8, <1>9, <1>10

(* Starting a resolution: the key has a target then, and keeps the one it   *)
(* had.                                                                     *)
LEMMA StartKeepsBooks ==
  ASSUME NEW t \in Books, NEW key \in Keys, Cardinality(DOMAIN t.byKey) < MaxConcurrent
  PROVE  /\ StartResolution(t, key) \in Books
         /\ StartResolution(t, key).enqueued = t.enqueued
         /\ DOMAIN StartResolution(t, key).byKey = DOMAIN t.byKey \cup {key}
         /\ Exact(t) /\ key \notin DOMAIN t.byKey => Exact(StartResolution(t, key))
<1> DEFINE u == StartResolution(t, key)
           n == t.nextTarget
           D == DOMAIN t.byKey \cup {key}
           E == DOMAIN t.byTarget \cup {n}
           k == [x \in D |-> IF x \in DOMAIN t.byKey THEN t.byKey[x] ELSE n]
           b == [x \in E |-> IF x = n THEN key ELSE t.byTarget[x]]
<1>1. /\ t.enqueued \in Seq(Keys)
      /\ DOMAIN t.byKey \subseteq Keys /\ t.byKey \in [DOMAIN t.byKey -> Targets]
      /\ DOMAIN t.byTarget \subseteq Targets /\ t.byTarget \in [DOMAIN t.byTarget -> Keys]
      /\ n \in Targets
      /\ t = [enqueued |-> t.enqueued, byKey |-> t.byKey, byTarget |-> t.byTarget,
              listens |-> t.listens, nextTarget |-> t.nextTarget]
      /\ Agrees(t)
  BY BookFields
<1>2. n \notin DOMAIN t.byTarget /\ n \in Nat
  BY <1>1 DEF Agrees, Targets
<1>3. Emplace(t.byKey, key, n) = k
  BY DEF Emplace
<1>4. Emplace(t.byTarget, n, key) = b
  BY <1>1, <1>2 DEF Emplace
<1>5. u = [enqueued |-> t.enqueued, byKey |-> k, byTarget |-> b, listens |-> E,
           nextTarget |-> n + 1]
  <2>1. t.listens \cup {n} = E
    BY <1>1 DEF Agrees
  <2>2. u = StartResolution(t, key)
    OBVIOUS
  <2> HIDE DEF k, b, E, u
  <2> QED
    BY <1>1, <1>3, <1>4, <2>1, <2>2 DEF StartResolution
<1>6. D \in SUBSET Keys /\ E \in SUBSET Targets /\ n + 1 \in Targets
  BY <1>1, <1>2 DEF Targets
<1>7. k \in [D -> Targets] /\ b \in [E -> Keys]
  BY <1>1
<1>8. \A x \in E : x < n + 1
  BY <1>1, <1>2 DEF Agrees, Targets
<1>9. \A x \in D : k[x] \in E /\ b[k[x]] = x
  BY <1>1, <1>2 DEF Agrees
<1>10. Cardinality(D) <= MaxConcurrent
  <2>1. IsFiniteSet(DOMAIN t.byKey) /\ Cardinality(DOMAIN t.byKey) \in Nat
    BY <1>1, KeysAreFinite
  <2>2. \/ Cardinality(D) = Cardinality(DOMAIN t.byKey)
        \/ Cardinality(D) = Cardinality(DOMAIN t.byKey) + 1
    BY <2>1, FS_AddElement
  <2>3. MaxConcurrent \in Nat
    BY LimboAssumption DEF LimboAssumption
  <2> HIDE DEF D
  <2> QED
    BY <2>1, <2>2, <2>3
<1>11. /\ DOMAIN k = D /\ DOMAIN b = E
       /\ \A x \in D : k[x] = IF x \in DOMAIN t.byKey THEN t.byKey[x] ELSE n
       /\ \A x \in E : b[x] = IF x = n THEN key ELSE t.byTarget[x]
  OBVIOUS
<1> HIDE DEF k, b
<1>12. u \in Books
  <2> HIDE DEF D, E, n, u
  <2>1. AreMade(u, t.enqueued, k, E, b, n + 1, D)
    BY <1>1, <1>5, <1>6, <1>7, <1>8, <1>9, <1>10 DEF AreMade
  <2> QED
    BY <2>1, MakesBooks
<1>13. u.enqueued = t.enqueued /\ u.byKey = k /\ u.byTarget = b
  BY <1>5
<1>14. ASSUME Exact(t), key \notin DOMAIN t.byKey PROVE Exact(u)
  <2> SUFFICES ASSUME NEW x \in E PROVE b[x] \in D /\ k[b[x]] = x
    BY <1>11, <1>13 DEF Exact
  <2> QED
    BY <1>11, <1>14 DEF Exact
<1> QED
  BY <1>11, <1>12, <1>13, <1>14

(* One round of the pump keeps the books and what they know, and does       *)
(* nothing when the queue is at rest.                                       *)
LEMMA PumpOnceKeepsBooks ==
  ASSUME NEW t \in Books
  PROVE  /\ PumpOnce(t) \in Books
         /\ Known(PumpOnce(t)) = Known(t)
         /\ DOMAIN t.byKey \subseteq DOMAIN PumpOnce(t).byKey
         /\ Stuck(t) => PumpOnce(t) = t
         /\ ~ Stuck(t) => PumpOnce(t).enqueued = Tail(t.enqueued)
         /\ Exact(t) /\ ToSet(t.enqueued) \cap DOMAIN t.byKey = {} => Exact(PumpOnce(t))
<1>1. /\ t.enqueued \in Seq(Keys) /\ DOMAIN t.byKey \subseteq Keys
      /\ Agrees(t)
  BY BookFields
<1>2. /\ Cardinality(DOMAIN t.byKey) \in Nat /\ MaxConcurrent \in Nat
      /\ Cardinality(DOMAIN t.byKey) <= MaxConcurrent
  BY <1>1, KeysAreFinite, LimboAssumption DEF LimboAssumption, Agrees
<1>3. CASE Stuck(t)
  <2>1. PumpOnce(t) = t
    BY <1>2, <1>3 DEF PumpOnce, Stuck
  <2> QED
    BY <1>3, <2>1
<1>4. CASE ~ Stuck(t)
  <2> DEFINE q == Tail(t.enqueued)
             s == [t EXCEPT !.enqueued = q]
             key == Head(t.enqueued)
  <2>1. /\ t.enqueued # <<>> /\ Cardinality(DOMAIN t.byKey) < MaxConcurrent
        /\ PumpOnce(t) = StartResolution(s, key)
    BY <1>2, <1>4 DEF PumpOnce, Stuck
  <2>2. key \in Keys /\ q \in Seq(Keys)
    BY <1>1, <2>1
  <2>3. ToSet(t.enqueued) = ToSet(q) \cup {key}
    <3>1. /\ Len(t.enqueued) \in Nat /\ Len(t.enqueued) > 0 /\ Len(q) = Len(t.enqueued) - 1
          /\ \A i \in 1 .. Len(q) : q[i] = t.enqueued[i + 1]
          /\ key = t.enqueued[1]
      BY <1>1, <2>1
    <3>2. ASSUME NEW i \in 1 .. Len(t.enqueued), i # 1
          PROVE  \E j \in 1 .. Len(q) : t.enqueued[i] = q[j]
      <4>1. i - 1 \in 1 .. Len(q) /\ q[i - 1] = t.enqueued[i]
        BY <3>1, <3>2
      <4> QED
        BY <4>1
    <3>3. ASSUME NEW i \in 1 .. Len(q)
          PROVE  \E j \in 1 .. Len(t.enqueued) : q[i] = t.enqueued[j]
      <4>1. i + 1 \in 1 .. Len(t.enqueued)
        BY <3>1
      <4> QED
        BY <3>1, <4>1
    <3>4. 1 \in 1 .. Len(t.enqueued)
      BY <3>1
    <3>5. \A x : x \in ToSet(t.enqueued) <=> \E i \in 1 .. Len(t.enqueued) : t.enqueued[i] = x
      BY <1>1 DEF ToSet
    <3>6. \A x : x \in ToSet(q) <=> \E i \in 1 .. Len(q) : q[i] = x
      BY <2>2 DEF ToSet
    <3> HIDE DEF q, key
    <3>7. ToSet(t.enqueued) \subseteq ToSet(q) \cup {key}
      <4>1. ASSUME NEW i \in 1 .. Len(t.enqueued)
            PROVE  t.enqueued[i] \in ToSet(q) \cup {key}
        BY <3>1, <3>2, <3>6
      <4> QED
        BY <3>5, <4>1
    <3>8. ToSet(q) \subseteq ToSet(t.enqueued)
      BY <3>3, <3>5, <3>6
    <3>9. key \in ToSet(t.enqueued)
      BY <3>1, <3>4, <3>5
    <3> QED
      BY <3>7, <3>8, <3>9
  <2> HIDE DEF q
  <2>4. /\ s \in Books /\ s.enqueued = q /\ s.byKey = t.byKey
        /\ Exact(t) => Exact(s)
    <3>1. s = [enqueued |-> q, byKey |-> t.byKey, byTarget |-> t.byTarget,
               listens |-> t.listens, nextTarget |-> t.nextTarget]
      BY BookFields
    <3>2. Agrees(s)
      BY <1>1, <3>1 DEF Agrees
    <3>3. s \in Books
      BY <2>2, <3>1, <3>2 DEF Books
    <3> QED
      BY <3>1, <3>3 DEF Exact
  <2> HIDE DEF s, key
  <2>5. /\ StartResolution(s, key) \in Books
        /\ StartResolution(s, key).enqueued = q
        /\ DOMAIN StartResolution(s, key).byKey = DOMAIN t.byKey \cup {key}
        /\ Exact(s) /\ key \notin DOMAIN t.byKey => Exact(StartResolution(s, key))
    BY <2>1, <2>2, <2>4, StartKeepsBooks
  <2>6. Known(StartResolution(s, key)) = Known(t)
    BY <2>3, <2>5 DEF Known
  <2> QED
    BY <1>4, <2>1, <2>3, <2>4, <2>5, <2>6 DEF q
<1> QED
  BY <1>3, <1>4

(* The pump runs until the queue is at rest.  It keeps the books and what   *)
(* they know.                                                               *)
LEMMA PumpKeepsBooks ==
  ASSUME NEW t \in Books
  PROVE  /\ Pump(t) \in Books
         /\ Known(Pump(t)) = Known(t)
         /\ DOMAIN t.byKey \subseteq DOMAIN Pump(t).byKey
         /\ Stuck(Pump(t))
         /\ Stuck(t) => Pump(t) = t
         /\ Len(t.enqueued) = 1 => Pump(t) = PumpOnce(t)
<1> DEFINE len == Len(t.enqueued)
           step == [p \in (1 .. len) \X Books |-> PumpOnce(p[2])]
           after == CHOOSE g : g = [n \in 0 .. Len(t.enqueued) |->
                                     IF n = 0 THEN t ELSE PumpOnce(g[n - 1])]
<1>1. t.enqueued \in Seq(Keys) /\ len \in Nat
  BY BookFields
<1>2. PICK f : IsRun(f, step, t, len, Books)
  <2>1. IsStep(step, len, Books)
    <3>1. ASSUME NEW p \in (1 .. len) \X Books PROVE PumpOnce(p[2]) \in Books
      <4>1. p[2] \in Books
        OBVIOUS
      <4> QED
        BY <4>1, PumpOnceKeepsBooks
    <3> QED
      BY <3>1, Zenon DEF IsStep
  <2> HIDE DEF step
  <2> QED
    BY <1>1, <2>1, LoopRuns, Zenon
<1>3. ASSUME NEW n \in 1 .. len PROVE f[n] = PumpOnce(f[n - 1])
  <2>1. n - 1 \in 0 .. len
    BY <1>1
  <2>2. f[n - 1] \in Books
    BY <1>2, <2>1 DEF IsRun
  <2>3. step[<<n, f[n - 1]>>] = PumpOnce(f[n - 1])
    BY <2>2
  <2> QED
    BY <1>2, <2>3 DEF IsRun
<1>4. f = [n \in 0 .. len |-> IF n = 0 THEN t ELSE PumpOnce(f[n - 1])]
  <2>1. ASSUME NEW n \in 0 .. len
        PROVE  f[n] = IF n = 0 THEN t ELSE PumpOnce(f[n - 1])
    <3>1. CASE n = 0
      BY <1>2, <3>1 DEF IsRun
    <3>2. CASE n # 0
      <4>1. n \in 1 .. len
        BY <1>1, <3>2
      <4> QED
        BY <1>3, <3>2, <4>1
    <3> QED
      BY <3>1, <3>2
  <2>2. f = [n \in 0 .. len |-> f[n]]
    BY <1>2 DEF IsRun
  <2> QED
    BY <2>1, <2>2
<1>5. after = [n \in 0 .. len |-> IF n = 0 THEN t ELSE PumpOnce(after[n - 1])]
  BY <1>4, Zenon
<1>6. Pump(t) = after[len]
  BY DEF Pump
<1> HIDE DEF after, step
<1>7. after[0] = t /\ \A n \in 1 .. len : after[n] = PumpOnce(after[n - 1])
  <2>1. \A n \in 0 .. len : after[n] = IF n = 0 THEN t ELSE PumpOnce(after[n - 1])
    BY <1>5, Zenon
  <2>2. 0 \in 0 .. len /\ \A n \in 1 .. len : n \in 0 .. len /\ n # 0
    BY <1>1
  <2> QED
    BY <2>1, <2>2, Zenon
<1> DEFINE Good(n) == /\ after[n] \in Books
                      /\ Known(after[n]) = Known(t)
                      /\ DOMAIN t.byKey \subseteq DOMAIN after[n].byKey
                      /\ Stuck(after[n]) \/ Len(after[n].enqueued) = len - n
                      /\ Stuck(t) => after[n] = t
           good == {n \in Nat : n <= len => Good(n)}
<1>8. 0 \in good
  BY <1>1, <1>7
<1>9. ASSUME NEW n \in Nat, n \in good PROVE n + 1 \in good
  <2> SUFFICES ASSUME n + 1 <= len PROVE Good(n + 1)
    OBVIOUS
  <2>1. n + 1 \in 1 .. len /\ (n + 1) - 1 = n /\ Good(n)
    BY <1>1, <1>9
  <2>2. after[n + 1] = PumpOnce(after[n])
    BY <1>7, <2>1
  <2> DEFINE s == after[n]
  <2>3. /\ PumpOnce(s) \in Books
        /\ Known(PumpOnce(s)) = Known(s)
        /\ DOMAIN s.byKey \subseteq DOMAIN PumpOnce(s).byKey
        /\ Stuck(s) => PumpOnce(s) = s
        /\ ~ Stuck(s) => PumpOnce(s).enqueued = Tail(s.enqueued)
    BY <2>1, PumpOnceKeepsBooks
  <2>4. CASE Stuck(s)
    BY <2>1, <2>2, <2>3, <2>4
  <2>5. CASE ~ Stuck(s)
    <3>1. s.enqueued \in Seq(Keys) /\ s.enqueued # <<>>
      BY <2>1, <2>5, BookFields DEF Stuck
    <3>2. Len(Tail(s.enqueued)) = Len(s.enqueued) - 1
      BY <3>1
    <3>3. Len(PumpOnce(s).enqueued) = len - (n + 1)
      <4>1. PumpOnce(s).enqueued = Tail(s.enqueued)
        BY <2>3, <2>5
      <4>2. Len(s.enqueued) = len - n
        BY <2>1, <2>5
      <4> HIDE DEF s
      <4> QED
        BY <1>1, <3>2, <4>1, <4>2
    <3>4. ~ Stuck(t)
      BY <2>1, <2>5
    <3> HIDE DEF s
    <3>5. s = after[n]
      BY DEF s
    <3> QED
      BY <2>1, <2>2, <2>3, <3>3, <3>4, <3>5
  <2> QED
    BY <2>4, <2>5
<1>10. Good(len)
  <2> HIDE DEF good
  <2>1. len \in good
    BY <1>1, <1>8, <1>9, SetInduction
  <2> QED
    BY <1>1, <2>1 DEF good
<1>11. Stuck(after[len])
  <2>1. after[len].enqueued \in Seq(Keys)
    BY <1>10, BookFields
  <2>2. Stuck(after[len]) \/ Len(after[len].enqueued) = 0
    BY <1>1, <1>10
  <2> QED
    BY <2>1, <2>2 DEF Stuck
<1>12. ASSUME len = 1 PROVE Pump(t) = PumpOnce(t)
  <2>1. 1 \in 1 .. len /\ 1 - 1 = 0
    BY <1>12
  <2> QED
    BY <1>6, <1>7, <1>12, <2>1
<1> QED
  BY <1>6, <1>10, <1>11, <1>12

(* Books whose queue is at rest, as they are between the calls. *)
Rest == {t \in Books : Stuck(t)}

(* A document that leaves limbo gives up its target, and no other is lost.  *)
LEMMA RemoveKeepsRest ==
  ASSUME NEW t \in Rest, NEW key
  PROVE  /\ RemoveLimboTarget(t, key) \in Rest
         /\ Known(t) \ {key} \subseteq Known(RemoveLimboTarget(t, key))
         /\ t.enqueued = <<>> =>
              /\ RemoveLimboTarget(t, key).enqueued = <<>>
              /\ Known(RemoveLimboTarget(t, key)) = Known(t) \ {key}
              /\ Exact(t) => Exact(RemoveLimboTarget(t, key))
<1>0. t \in Books /\ Stuck(t) /\ Agrees(t) /\ t.enqueued \in Seq(Keys)
  BY BookFields DEF Rest
<1>1. CASE key \notin DOMAIN t.byKey
  <2>1. RemoveLimboTarget(t, key) = t
    BY <1>1 DEF RemoveLimboTarget
  <2>2. t.enqueued = <<>> => key \notin Known(t)
    <3>1. t.enqueued = <<>> => ToSet(t.enqueued) = {}
      BY DEF ToSet
    <3> QED
      BY <1>1, <3>1 DEF Known
  <2> QED
    BY <2>1, <2>2
<1>2. CASE key \in DOMAIN t.byKey
  <2> DEFINE u == Dropped(t, key, t.byKey[key])
  <2>1. RemoveLimboTarget(t, key) = Pump(u)
    BY <1>2 DEF RemoveLimboTarget, Dropped
  <2>2. t.byKey[key] \in DOMAIN t.byTarget /\ t.byTarget[t.byKey[key]] = key
    BY <1>0, <1>2 DEF Agrees
  <2>3. /\ u \in Books
        /\ u.enqueued = t.enqueued
        /\ DOMAIN u.byKey = DOMAIN t.byKey \ {key}
        /\ Exact(t) => Exact(u)
    BY <1>0, <2>2, DropKeepsBooks
  <2> HIDE DEF u
  <2>4. /\ Pump(u) \in Books /\ Known(Pump(u)) = Known(u) /\ Stuck(Pump(u))
        /\ Stuck(u) => Pump(u) = u
    BY <2>3, PumpKeepsBooks
  <2>5. Known(t) \ {key} \subseteq Known(u)
    BY <2>3 DEF Known
  <2>6. ASSUME t.enqueued = <<>>
        PROVE  Pump(u) = u /\ Known(u) = Known(t) \ {key}
    <3>1. ToSet(t.enqueued) = {}
      BY <2>6 DEF ToSet
    <3> QED
      BY <2>3, <2>4, <2>6, <3>1 DEF Known, Stuck
  <2> QED
    BY <2>1, <2>3, <2>4, <2>5, <2>6 DEF Rest
<1> QED
  BY <1>1, <1>2

(* A document that comes into limbo gets a target or a place in the queue.  *)
(* An empty queue was empty before.                                         *)
LEMMA TrackKeepsRest ==
  ASSUME NEW t \in Rest, NEW key \in Keys
  PROVE  /\ Track(t, key) \in Rest
         /\ Known(Track(t, key)) = Known(t) \cup {key}
         /\ Track(t, key).enqueued = <<>> =>
              t.enqueued = <<>> /\ (Exact(t) => Exact(Track(t, key)))
<1>0. t \in Books /\ Stuck(t) /\ Agrees(t) /\ t.enqueued \in Seq(Keys)
  BY BookFields DEF Rest
<1>1. CASE key \in DOMAIN t.byKey
  BY <1>1 DEF Track, Known
<1>2. CASE key \notin DOMAIN t.byKey
  <2> DEFINE q == Append(t.enqueued, key)
             s == [t EXCEPT !.enqueued = q]
  <2>1. Track(t, key) = Pump(s)
    BY <1>2 DEF Track
  <2>2. q \in Seq(Keys) /\ q # <<>> /\ ToSet(q) = ToSet(t.enqueued) \cup {key}
    <3>1. /\ q \in Seq(Keys)
          /\ Len(t.enqueued) \in Nat /\ Len(q) = Len(t.enqueued) + 1
          /\ q[Len(q)] = key
          /\ \A i \in 1 .. Len(t.enqueued) : q[i] = t.enqueued[i]
      BY <1>0
    <3>2. \A i \in 1 .. Len(q) : i \in 1 .. Len(t.enqueued) \/ i = Len(q)
      BY <3>1
    <3>3. Len(q) \in 1 .. Len(q) /\ \A i \in 1 .. Len(t.enqueued) : i \in 1 .. Len(q)
      BY <3>1
    <3>4. \A x : x \in ToSet(t.enqueued) <=> \E i \in 1 .. Len(t.enqueued) : t.enqueued[i] = x
      BY <1>0 DEF ToSet
    <3>5. \A x : x \in ToSet(q) <=> \E i \in 1 .. Len(q) : q[i] = x
      BY <3>1 DEF ToSet
    <3>6. q # <<>>
      BY <1>0
    <3> HIDE DEF q
    <3> QED
      BY <3>1, <3>2, <3>3, <3>4, <3>5, <3>6
  <2>3. t.enqueued = <<>> => Len(q) = 1
    BY <1>0
  <2> HIDE DEF q
  <2>4. /\ s \in Books /\ s.enqueued = q /\ s.byKey = t.byKey
        /\ Exact(t) => Exact(s)
    <3>1. s = [enqueued |-> q, byKey |-> t.byKey, byTarget |-> t.byTarget,
               listens |-> t.listens, nextTarget |-> t.nextTarget]
      BY <1>0, BookFields
    <3>2. Agrees(s)
      BY <1>0, <3>1 DEF Agrees
    <3>3. s \in Books
      BY <1>0, <2>2, <3>1, <3>2 DEF Books
    <3> QED
      BY <3>1, <3>3 DEF Exact
  <2> HIDE DEF s
  <2>5. /\ Pump(s) \in Books /\ Known(Pump(s)) = Known(s) /\ Stuck(Pump(s))
        /\ Stuck(s) => Pump(s) = s
        /\ Len(s.enqueued) = 1 => Pump(s) = PumpOnce(s)
    BY <2>4, PumpKeepsBooks
  <2>6. Known(s) = Known(t) \cup {key}
    BY <2>2, <2>4 DEF Known
  <2>7. CASE t.enqueued = <<>>
    <3>1. Pump(s) = PumpOnce(s)
      BY <2>3, <2>4, <2>5, <2>7
    <3>2. ToSet(t.enqueued) = {}
      BY <2>7 DEF ToSet
    <3>3. ToSet(s.enqueued) \cap DOMAIN s.byKey = {}
      BY <1>2, <2>2, <2>4, <3>2
    <3>4. Exact(t) => Exact(PumpOnce(s))
      BY <2>4, <3>3, PumpOnceKeepsBooks
    <3> QED
      BY <2>1, <2>5, <2>6, <2>7, <3>1, <3>4 DEF Rest
  <2>8. CASE t.enqueued # <<>>
    <3>1. Pump(s) = s /\ s.enqueued # <<>>
      BY <1>0, <2>2, <2>4, <2>5, <2>8 DEF Stuck
    <3> QED
      BY <2>1, <2>5, <2>6, <3>1 DEF Rest
  <2> QED
    BY <2>7, <2>8
<1> QED
  BY <1>1, <1>2

(* Only documents of the query are known. *)
LEMMA KnownAreKeys ==
  ASSUME NEW t \in Rest
  PROVE  Known(t) \subseteq Keys
<1>1. t.enqueued \in Seq(Keys) /\ DOMAIN t.byKey \subseteq Keys
  BY BookFields DEF Rest
<1>2. ToSet(t.enqueued) \subseteq Keys
  BY <1>1 DEF ToSet
<1> QED
  BY <1>1, <1>2 DEF Known

(* The documents of a set leave limbo, one round for each key.                *)
RemoveRound(t, key, keys) == IF key \in keys THEN RemoveLimboTarget(t, key) ELSE t

LEMMA RemovedKeepsRest ==
  ASSUME NEW t \in Rest, NEW keys
  PROVE  /\ Removed(t, keys) \in Rest
         /\ Known(t) \ keys \subseteq Known(Removed(t, keys))
         /\ t.enqueued = <<>> =>
              /\ Removed(t, keys).enqueued = <<>>
              /\ Known(Removed(t, keys)) = Known(t) \ keys
              /\ Exact(t) => Exact(Removed(t, keys))
<1> DEFINE step == [p \in (1 .. MaxKeys) \X Rest |-> RemoveRound(p[2], p[1], keys)]
           after == CHOOSE g : g = [k \in 0 .. MaxKeys |->
                                     IF k = 0
                                     THEN t
                                     ELSE IF k \in keys
                                          THEN RemoveLimboTarget(g[k - 1], k)
                                          ELSE g[k - 1]]
<1>1. MaxKeys \in Nat /\ Keys = 1 .. MaxKeys
  BY LimboAssumption DEF LimboAssumption, Keys
<1>2. ASSUME NEW s \in Rest, NEW key \in Keys PROVE RemoveRound(s, key, keys) \in Rest
  <2>1. RemoveLimboTarget(s, key) \in Rest
    BY RemoveKeepsRest
  <2> QED
    BY <2>1 DEF RemoveRound
<1>3. PICK f : IsRun(f, step, t, MaxKeys, Rest)
  <2>1. IsStep(step, MaxKeys, Rest)
    <3>1. ASSUME NEW p \in (1 .. MaxKeys) \X Rest PROVE RemoveRound(p[2], p[1], keys) \in Rest
      <4>1. p[1] \in Keys /\ p[2] \in Rest
        BY <1>1
      <4> QED
        BY <1>2, <4>1, Zenon
    <3> QED
      BY <3>1, Zenon DEF IsStep
  <2> HIDE DEF step
  <2> QED
    BY <1>1, <2>1, LoopRuns, Zenon
<1>4. ASSUME NEW k \in 1 .. MaxKeys PROVE f[k] = RemoveRound(f[k - 1], k, keys)
  <2>1. k - 1 \in 0 .. MaxKeys
    BY <1>1
  <2>2. f[k - 1] \in Rest
    BY <1>3, <2>1 DEF IsRun
  <2>3. step[<<k, f[k - 1]>>] = RemoveRound(f[k - 1], k, keys)
    BY <2>2
  <2> QED
    BY <1>3, <2>3 DEF IsRun
<1>5. f = [k \in 0 .. MaxKeys |->
             IF k = 0
             THEN t
             ELSE IF k \in keys THEN RemoveLimboTarget(f[k - 1], k) ELSE f[k - 1]]
  <2>1. ASSUME NEW k \in 0 .. MaxKeys
        PROVE  f[k] = IF k = 0
                      THEN t
                      ELSE IF k \in keys THEN RemoveLimboTarget(f[k - 1], k) ELSE f[k - 1]
    <3>1. CASE k = 0
      BY <1>3, <3>1 DEF IsRun
    <3>2. CASE k # 0
      <4>1. k \in 1 .. MaxKeys
        BY <1>1, <3>2
      <4> QED
        BY <1>4, <3>2, <4>1 DEF RemoveRound
    <3> QED
      BY <3>1, <3>2
  <2>2. f = [k \in 0 .. MaxKeys |-> f[k]]
    BY <1>3 DEF IsRun
  <2> QED
    BY <2>1, <2>2
<1>6. after = [k \in 0 .. MaxKeys |->
                 IF k = 0
                 THEN t
                 ELSE IF k \in keys THEN RemoveLimboTarget(after[k - 1], k) ELSE after[k - 1]]
  BY <1>5, Zenon
<1>7. Removed(t, keys) = after[MaxKeys]
  BY DEF Removed
<1> HIDE DEF after, step
<1>8. after[0] = t /\ \A k \in 1 .. MaxKeys : after[k] = RemoveRound(after[k - 1], k, keys)
  <2>1. \A k \in 0 .. MaxKeys :
          after[k] = IF k = 0
                     THEN t
                     ELSE IF k \in keys THEN RemoveLimboTarget(after[k - 1], k) ELSE after[k - 1]
    BY <1>6, Zenon
  <2>2. 0 \in 0 .. MaxKeys /\ \A k \in 1 .. MaxKeys : k \in 0 .. MaxKeys /\ k # 0
    BY <1>1
  <2> QED
    BY <2>1, <2>2, Zenon DEF RemoveRound
<1> DEFINE done(k) == {key \in keys : key \in 1 .. k}
           Good(k) == /\ after[k] \in Rest
                      /\ Known(t) \ done(k) \subseteq Known(after[k])
                      /\ t.enqueued = <<>> =>
                           /\ after[k].enqueued = <<>>
                           /\ Known(after[k]) = Known(t) \ done(k)
                           /\ Exact(t) => Exact(after[k])
           good == {k \in Nat : k <= MaxKeys => Good(k)}
<1>9. 0 \in good
  <2>1. done(0) = {}
    OBVIOUS
  <2> QED
    BY <1>1, <1>8, <2>1
<1>10. ASSUME NEW k \in Nat, k \in good PROVE k + 1 \in good
  <2> SUFFICES ASSUME k + 1 <= MaxKeys PROVE Good(k + 1)
    OBVIOUS
  <2>1. k + 1 \in 1 .. MaxKeys /\ (k + 1) - 1 = k /\ Good(k) /\ k + 1 \in Keys
    BY <1>1, <1>10
  <2>2. after[k + 1] = RemoveRound(after[k], k + 1, keys)
    BY <1>8, <2>1
  <2>3. CASE k + 1 \notin keys
    <3>1. done(k + 1) = done(k)
      BY <2>3
    <3>2. after[k + 1] = after[k]
      BY <2>2, <2>3 DEF RemoveRound
    <3> QED
      BY <2>1, <3>1, <3>2
  <2>4. CASE k + 1 \in keys
    <3>1. done(k + 1) = done(k) \cup {k + 1}
      BY <2>4
    <3>2. after[k + 1] = RemoveLimboTarget(after[k], k + 1)
      BY <2>2, <2>4 DEF RemoveRound
    <3> DEFINE s == after[k]
               u == RemoveLimboTarget(s, k + 1)
    <3>3. /\ u \in Rest
          /\ Known(s) \ {k + 1} \subseteq Known(u)
          /\ s.enqueued = <<>> =>
               /\ u.enqueued = <<>>
               /\ Known(u) = Known(s) \ {k + 1}
               /\ Exact(s) => Exact(u)
      BY <2>1, RemoveKeepsRest
    <3> HIDE DEF done, u
    <3> QED
      BY <2>1, <3>1, <3>2, <3>3 DEF u
  <2> QED
    BY <2>3, <2>4
<1>11. Good(MaxKeys)
  <2> HIDE DEF good
  <2>1. MaxKeys \in good
    BY <1>1, <1>9, <1>10, SetInduction
  <2> QED
    BY <1>1, <2>1 DEF good
<1>12. Known(t) \ done(MaxKeys) = Known(t) \ keys
  <2>1. Known(t) \subseteq Keys
    BY KnownAreKeys
  <2> QED
    BY <1>1, <2>1
<1> QED
  BY <1>7, <1>11, <1>12

(* The documents of a set come into limbo, one round for each key.            *)
TrackRound(t, key, keys) == IF key \in keys THEN Track(t, key) ELSE t

LEMMA AddedKeepsRest ==
  ASSUME NEW t \in Rest, NEW keys \in SUBSET Keys
  PROVE  /\ Added(t, keys) \in Rest
         /\ Known(Added(t, keys)) = Known(t) \cup keys
         /\ Added(t, keys).enqueued = <<>> =>
              t.enqueued = <<>> /\ (Exact(t) => Exact(Added(t, keys)))
<1> DEFINE step == [p \in (1 .. MaxKeys) \X Rest |-> TrackRound(p[2], p[1], keys)]
           after == CHOOSE g : g = [k \in 0 .. MaxKeys |->
                                     IF k = 0
                                     THEN t
                                     ELSE IF k \in keys
                                          THEN Track(g[k - 1], k)
                                          ELSE g[k - 1]]
<1>1. MaxKeys \in Nat /\ Keys = 1 .. MaxKeys
  BY LimboAssumption DEF LimboAssumption, Keys
<1>2. ASSUME NEW s \in Rest, NEW key \in Keys PROVE TrackRound(s, key, keys) \in Rest
  <2>1. Track(s, key) \in Rest
    BY TrackKeepsRest
  <2> QED
    BY <2>1 DEF TrackRound
<1>3. PICK f : IsRun(f, step, t, MaxKeys, Rest)
  <2>1. IsStep(step, MaxKeys, Rest)
    <3>1. ASSUME NEW p \in (1 .. MaxKeys) \X Rest PROVE TrackRound(p[2], p[1], keys) \in Rest
      <4>1. p[1] \in Keys /\ p[2] \in Rest
        BY <1>1
      <4> QED
        BY <1>2, <4>1, Zenon
    <3> QED
      BY <3>1, Zenon DEF IsStep
  <2> HIDE DEF step
  <2> QED
    BY <1>1, <2>1, LoopRuns, Zenon
<1>4. ASSUME NEW k \in 1 .. MaxKeys PROVE f[k] = TrackRound(f[k - 1], k, keys)
  <2>1. k - 1 \in 0 .. MaxKeys
    BY <1>1
  <2>2. f[k - 1] \in Rest
    BY <1>3, <2>1 DEF IsRun
  <2>3. step[<<k, f[k - 1]>>] = TrackRound(f[k - 1], k, keys)
    BY <2>2
  <2> QED
    BY <1>3, <2>3 DEF IsRun
<1>5. f = [k \in 0 .. MaxKeys |->
             IF k = 0
             THEN t
             ELSE IF k \in keys THEN Track(f[k - 1], k) ELSE f[k - 1]]
  <2>1. ASSUME NEW k \in 0 .. MaxKeys
        PROVE  f[k] = IF k = 0
                      THEN t
                      ELSE IF k \in keys THEN Track(f[k - 1], k) ELSE f[k - 1]
    <3>1. CASE k = 0
      BY <1>3, <3>1 DEF IsRun
    <3>2. CASE k # 0
      <4>1. k \in 1 .. MaxKeys
        BY <1>1, <3>2
      <4> QED
        BY <1>4, <3>2, <4>1 DEF TrackRound
    <3> QED
      BY <3>1, <3>2
  <2>2. f = [k \in 0 .. MaxKeys |-> f[k]]
    BY <1>3 DEF IsRun
  <2> QED
    BY <2>1, <2>2
<1>6. after = [k \in 0 .. MaxKeys |->
                 IF k = 0
                 THEN t
                 ELSE IF k \in keys THEN Track(after[k - 1], k) ELSE after[k - 1]]
  BY <1>5, Zenon
<1>7. Added(t, keys) = after[MaxKeys]
  BY DEF Added
<1> HIDE DEF after, step
<1>8. after[0] = t /\ \A k \in 1 .. MaxKeys : after[k] = TrackRound(after[k - 1], k, keys)
  <2>1. \A k \in 0 .. MaxKeys :
          after[k] = IF k = 0
                     THEN t
                     ELSE IF k \in keys THEN Track(after[k - 1], k) ELSE after[k - 1]
    BY <1>6, Zenon
  <2>2. 0 \in 0 .. MaxKeys /\ \A k \in 1 .. MaxKeys : k \in 0 .. MaxKeys /\ k # 0
    BY <1>1
  <2> QED
    BY <2>1, <2>2, Zenon DEF TrackRound
<1> DEFINE done(k) == {key \in keys : key \in 1 .. k}
           Good(k) == /\ after[k] \in Rest
                      /\ Known(after[k]) = Known(t) \cup done(k)
                      /\ after[k].enqueued = <<>> =>
                           t.enqueued = <<>> /\ (Exact(t) => Exact(after[k]))
           good == {k \in Nat : k <= MaxKeys => Good(k)}
<1>9. 0 \in good
  <2>1. done(0) = {}
    OBVIOUS
  <2> QED
    BY <1>1, <1>8, <2>1
<1>10. ASSUME NEW k \in Nat, k \in good PROVE k + 1 \in good
  <2> SUFFICES ASSUME k + 1 <= MaxKeys PROVE Good(k + 1)
    OBVIOUS
  <2>1. k + 1 \in 1 .. MaxKeys /\ (k + 1) - 1 = k /\ Good(k) /\ k + 1 \in Keys
    BY <1>1, <1>10
  <2>2. after[k + 1] = TrackRound(after[k], k + 1, keys)
    BY <1>8, <2>1
  <2>3. CASE k + 1 \notin keys
    <3>1. done(k + 1) = done(k)
      BY <2>3
    <3>2. after[k + 1] = after[k]
      BY <2>2, <2>3 DEF TrackRound
    <3> QED
      BY <2>1, <3>1, <3>2
  <2>4. CASE k + 1 \in keys
    <3>1. done(k + 1) = done(k) \cup {k + 1}
      BY <2>4
    <3>2. after[k + 1] = Track(after[k], k + 1)
      BY <2>2, <2>4 DEF TrackRound
    <3> DEFINE s == after[k]
               u == Track(s, k + 1)
    <3>3. /\ u \in Rest
          /\ Known(u) = Known(s) \cup {k + 1}
          /\ u.enqueued = <<>> => s.enqueued = <<>> /\ (Exact(s) => Exact(u))
      BY <2>1, TrackKeepsRest
    <3> HIDE DEF done, u
    <3> QED
      BY <2>1, <3>1, <3>2, <3>3 DEF u
  <2> QED
    BY <2>3, <2>4
<1>11. Good(MaxKeys)
  <2> HIDE DEF good
  <2>1. MaxKeys \in good
    BY <1>1, <1>9, <1>10, SetInduction
  <2> QED
    BY <1>1, <2>1 DEF good
<1>12. done(MaxKeys) = keys
  BY <1>1
<1> QED
  BY <1>7, <1>11, <1>12

(* An update of the documents in limbo, from old to new.                    *)
LEMMA TrackedKeepsRest ==
  ASSUME NEW t \in Rest, NEW old \in SUBSET Keys, NEW new \in SUBSET Keys
  PROVE  /\ Tracked(t, old, new) \in Rest
         /\ (Known(t) \ (old \ new)) \cup (new \ old) \subseteq Known(Tracked(t, old, new))
         /\ Tracked(t, old, new).enqueued = <<>> /\ t.enqueued = <<>> =>
              /\ Known(Tracked(t, old, new)) = (Known(t) \ (old \ new)) \cup (new \ old)
              /\ Exact(t) => Exact(Tracked(t, old, new))
<1> DEFINE r == Removed(t, old \ new)
           a == Added(r, new \ old)
<1>1. /\ r \in Rest
      /\ Known(t) \ (old \ new) \subseteq Known(r)
      /\ t.enqueued = <<>> =>
           /\ r.enqueued = <<>>
           /\ Known(r) = Known(t) \ (old \ new)
           /\ Exact(t) => Exact(r)
  BY RemovedKeepsRest
<1> HIDE DEF r
<1>2. /\ a \in Rest
      /\ Known(a) = Known(r) \cup (new \ old)
      /\ a.enqueued = <<>> => r.enqueued = <<>> /\ (Exact(r) => Exact(a))
  BY <1>1, AddedKeepsRest
<1>3. Tracked(t, old, new) = a
  BY DEF Tracked, r
<1> HIDE DEF a
<1> QED
  BY <1>1, <1>2, <1>3

-----------------------------------------------------------------------------
(***************************************************************************)
(* The inductive invariant of Limbo.                                       *)
(***************************************************************************)

(* The variables besides the books have their types, and a current view     *)
(* keeps no deletion back.                                                  *)
LimboTypes ==
  /\ queryView \in {"none", "local", "current"}
  /\ limbo \in SUBSET Keys
  /\ deleted \in SUBSET limbo
  /\ updates \in 0 .. MaxUpdates
  /\ waited \in BOOLEAN
  /\ queryView = "current" => deleted = {}

(* The books are at rest, know each document in limbo that is not known to  *)
(* be deleted, and, while none had to wait, nothing else.                   *)
Covers(t, some) == t \in Rest /\ some \subseteq Known(t)

Tight(t, all) == t.enqueued = <<>> /\ Exact(t) /\ Known(t) \subseteq all

LimboIInv ==
  /\ LimboTypes
  /\ Covers(tracking, limbo \ deleted)
  /\ ~ waited => Tight(tracking, limbo)

(* The books of an update cover what stays or comes into limbo.             *)
LEMMA TrackedCovers ==
  ASSUME NEW t, NEW old \in SUBSET Keys, NEW new \in SUBSET Keys,
         Covers(t, old \cap new)
  PROVE  /\ Covers(Tracked(t, old, new), new)
         /\ Tracked(t, old, new).enqueued = <<>> /\ Tight(t, old) =>
              Tight(Tracked(t, old, new), new)
<1>1. t \in Rest /\ old \cap new \subseteq Known(t)
  BY DEF Covers
<1>2. /\ Tracked(t, old, new) \in Rest
      /\ (Known(t) \ (old \ new)) \cup (new \ old) \subseteq Known(Tracked(t, old, new))
      /\ Tracked(t, old, new).enqueued = <<>> /\ t.enqueued = <<>> =>
           /\ Known(Tracked(t, old, new)) = (Known(t) \ (old \ new)) \cup (new \ old)
           /\ Exact(t) => Exact(Tracked(t, old, new))
  BY <1>1, TrackedKeepsRest
<1>3. new \subseteq Known(Tracked(t, old, new))
  BY <1>1, <1>2
<1>4. ASSUME Tracked(t, old, new).enqueued = <<>>, Tight(t, old)
      PROVE  Tight(Tracked(t, old, new), new)
  BY <1>2, <1>4 DEF Tight
<1> QED
  BY <1>2, <1>3, <1>4 DEF Covers

(* No query, no document, no books yet. *)
LEMMA LimboInitHolds == LimboInit => LimboIInv
<1> SUFFICES ASSUME LimboInit PROVE LimboIInv
  OBVIOUS
<1> DEFINE none == [x \in {} |-> x]
<1>1. <<>> = none
  OBVIOUS
<1>2. /\ tracking.enqueued = <<>> /\ tracking.byKey = <<>> /\ tracking.byTarget = <<>>
      /\ tracking.listens = {} /\ tracking.nextTarget = 1
      /\ tracking = [enqueued |-> <<>>, byKey |-> <<>>, byTarget |-> <<>>,
                     listens |-> {}, nextTarget |-> 1]
  BY DEF LimboInit
<1>3. AreMade(tracking, <<>>, <<>>, {}, <<>>, 1, {})
  <2>1. Cardinality({}) <= MaxConcurrent
    BY FS_EmptySet, LimboAssumption DEF LimboAssumption
  <2>2. <<>> \in [{} -> Targets] /\ <<>> \in [{} -> Keys]
    BY <1>1
  <2>3. <<>> \in Seq(Keys) /\ 1 \in Targets
    BY DEF Targets
  <2> QED
    BY <1>2, <2>1, <2>2, <2>3 DEF AreMade
<1>4. tracking \in Rest
  BY <1>2, <1>3, MakesBooks DEF Rest, Stuck
<1>5. limbo = {} /\ deleted = {}
  BY DEF LimboInit
<1>6. Known(tracking) = {}
  <2>1. DOMAIN tracking.byKey = {} /\ ToSet(tracking.enqueued) = {}
    BY <1>1, <1>2 DEF ToSet
  <2> QED
    BY <2>1 DEF Known
<1>7. Exact(tracking)
  <2>1. DOMAIN tracking.byTarget = {}
    BY <1>1, <1>2
  <2> QED
    BY <2>1 DEF Exact
<1>8. Covers(tracking, limbo \ deleted) /\ Tight(tracking, limbo)
  BY <1>2, <1>4, <1>5, <1>6, <1>7 DEF Covers, Tight
<1>9. LimboTypes
  <2>1. 0 \in 0 .. MaxUpdates
    BY LimboAssumption DEF LimboAssumption
  <2>2. queryView = "none" /\ updates = 0 /\ waited = FALSE
    BY DEF LimboInit
  <2> QED
    BY <1>5, <2>1, <2>2 DEF LimboTypes
<1> QED
  BY <1>8, <1>9 DEF LimboIInv

(* The backend brings the query up to date.                                 *)
LEMMA QueryUpdatedKeeps ==
  ASSUME LimboIInv, NEW new \in SUBSET Keys, QueryUpdated(new)
  PROVE  LimboIInv'
<1>1. /\ queryView' = "current" /\ limbo' = new /\ deleted' = {}
      /\ tracking' = Tracked(tracking, limbo, new)
      /\ updates' = updates + 1 /\ updates < MaxUpdates
      /\ waited' = (waited \/ tracking'.enqueued # <<>>)
      /\ new \cap deleted = {}
  BY DEF QueryUpdated
<1>2. LimboTypes'
  <2>1. updates' \in 0 .. MaxUpdates
    BY <1>1, LimboAssumption DEF LimboIInv, LimboTypes, LimboAssumption
  <2> QED
    BY <1>1, <2>1 DEF LimboTypes
<1>3. Covers(tracking, limbo \cap new) /\ limbo \in SUBSET Keys
  BY <1>1 DEF LimboIInv, Covers, LimboTypes
<1>4. /\ Covers(Tracked(tracking, limbo, new), new)
      /\ Tracked(tracking, limbo, new).enqueued = <<>> /\ Tight(tracking, limbo) =>
           Tight(Tracked(tracking, limbo, new), new)
  BY <1>3, TrackedCovers
<1>5. Covers(tracking', limbo' \ deleted')
  BY <1>1, <1>4 DEF Covers
<1>6. ~ waited' => Tight(tracking', limbo')
  BY <1>1, <1>4 DEF LimboIInv
<1> QED
  BY <1>2, <1>5, <1>6 DEF LimboIInv, Covers, Tight

(* The query is given up. *)
LEMMA StopQueryKeeps ==
  ASSUME LimboIInv, StopQuery
  PROVE  LimboIInv'
<1>1. /\ queryView' = "none" /\ limbo' = {} /\ deleted' = {}
      /\ tracking' = Tracked(tracking, limbo, {})
      /\ waited' = (waited \/ tracking'.enqueued # <<>>)
      /\ updates' = updates
  BY DEF StopQuery
<1>2. LimboTypes'
  BY <1>1 DEF LimboTypes, LimboIInv
<1>3. Covers(tracking, limbo \cap {}) /\ limbo \in SUBSET Keys
  BY <1>1 DEF LimboIInv, Covers, LimboTypes
<1>4. /\ Covers(Tracked(tracking, limbo, {}), {})
      /\ Tracked(tracking, limbo, {}).enqueued = <<>> /\ Tight(tracking, limbo) =>
           Tight(Tracked(tracking, limbo, {}), {})
  BY <1>3, TrackedCovers
<1>5. Covers(tracking', limbo' \ deleted')
  BY <1>1, <1>4 DEF Covers
<1>6. ~ waited' => Tight(tracking', limbo')
  BY <1>1, <1>4 DEF LimboIInv
<1> QED
  BY <1>2, <1>5, <1>6 DEF LimboIInv, Covers, Tight

(* A deletion is learnt, with books that have given up this document.       *)
LEMMA DeletedKeeps ==
  ASSUME LimboTypes, NEW t, NEW key, Deleted(t, key),
         Covers(t, limbo \ (deleted \cup {key})),
         ~ waited => Tight(t, limbo)
  PROVE  LimboIInv'
<1>0. /\ limbo \in SUBSET Keys /\ deleted \in SUBSET limbo /\ waited \in BOOLEAN
      /\ t \in Rest /\ limbo \ (deleted \cup {key}) \subseteq Known(t)
  BY DEF LimboTypes, Covers
<1>1. /\ waited' = (waited \/ tracking'.enqueued # <<>>)
      /\ queryView' = queryView /\ updates' = updates
  BY DEF Deleted
<1>2. CASE queryView = "current"
  <2> DEFINE new == limbo \ {key}
  <2>1. tracking' = Tracked(t, limbo, new) /\ limbo' = new /\ deleted' = {} /\ deleted = {}
    BY <1>2 DEF Deleted, LimboTypes
  <2>2. Covers(t, limbo \cap new) /\ new \in SUBSET Keys
    BY <1>0, <2>1 DEF Covers
  <2> HIDE DEF new
  <2>3. /\ Covers(Tracked(t, limbo, new), new)
        /\ Tracked(t, limbo, new).enqueued = <<>> /\ Tight(t, limbo) =>
             Tight(Tracked(t, limbo, new), new)
    BY <1>0, <2>2, TrackedCovers
  <2>4. Covers(tracking', limbo' \ deleted')
    BY <2>1, <2>3 DEF Covers
  <2>5. ~ waited' => Tight(tracking', limbo')
    BY <1>1, <2>1, <2>3
  <2>6. LimboTypes'
    BY <1>1, <2>1, <2>2 DEF LimboTypes
  <2> QED
    BY <2>4, <2>5, <2>6 DEF LimboIInv, Covers, Tight
<1>3. CASE queryView # "current"
  <2>1. tracking' = t /\ deleted' = deleted \cup ({key} \cap limbo) /\ limbo' = limbo
    BY <1>3 DEF Deleted
  <2>2. Covers(tracking', limbo' \ deleted')
    BY <1>0, <2>1 DEF Covers
  <2>3. ~ waited' => Tight(tracking', limbo')
    BY <1>1, <2>1
  <2>4. LimboTypes'
    BY <1>0, <1>1, <1>3, <2>1 DEF LimboTypes
  <2> QED
    BY <2>2, <2>3, <2>4 DEF LimboIInv, Covers, Tight
<1> QED
  BY <1>2, <1>3

(* A listen has found its document deleted. *)
LEMMA LimboResolvedKeeps ==
  ASSUME LimboIInv, NEW id \in tracking.listens, LimboResolved(id)
  PROVE  LimboIInv'
<1> DEFINE key == tracking.byTarget[id]
<1>1. Deleted(tracking, key) /\ LimboTypes
  BY DEF LimboResolved, LimboIInv
<1>2. Covers(tracking, limbo \ (deleted \cup {key})) /\ (~ waited => Tight(tracking, limbo))
  BY DEF LimboIInv, Covers
<1> HIDE DEF key
<1> QED
  BY <1>1, <1>2, DeletedKeeps

(* A listen is refused: its target and its key are given up.                *)
LEMMA LimboRejectedKeeps ==
  ASSUME LimboIInv, NEW id \in tracking.listens, LimboRejected(id)
  PROVE  LimboIInv'
<1> DEFINE key == tracking.byTarget[id]
           u == Dropped(tracking, key, id)
           t == Forgotten(id)
<1>1. /\ tracking \in Books /\ Agrees(tracking) /\ LimboTypes
      /\ limbo \ deleted \subseteq Known(tracking)
      /\ ~ waited => Tight(tracking, limbo)
  BY BookFields DEF LimboIInv, Covers, Rest
<1>2. id \in DOMAIN tracking.byTarget
  BY <1>1 DEF Agrees
<1>3. t = Pump(u)
  <2>1. [tracking EXCEPT !.listens = @ \ {id},
                         !.byKey = Without(@, key),
                         !.byTarget = Without(@, id)]
          = Dropped(tracking, key, id)
    BY <1>1, BookFields DEF Dropped
  <2> QED
    BY <2>1 DEF Forgotten
<1>4. /\ u \in Books
      /\ u.enqueued = tracking.enqueued
      /\ DOMAIN u.byKey = DOMAIN tracking.byKey \ {key}
      /\ Exact(tracking) => Exact(u)
  BY <1>1, <1>2, DropKeepsBooks
<1>5. Deleted(t, key)
  BY DEF LimboRejected
<1> HIDE DEF u, key, t
<1>6. /\ t \in Rest /\ Known(t) = Known(u)
      /\ Stuck(u) => t = u
  BY <1>3, <1>4, PumpKeepsBooks DEF Rest
<1>7. Covers(t, limbo \ (deleted \cup {key}))
  BY <1>1, <1>4, <1>6 DEF Covers, Known
<1>8. ASSUME ~ waited PROVE Tight(t, limbo)
  <2>1. Tight(tracking, limbo)
    BY <1>1, <1>8
  <2>2. t = u
    BY <1>4, <1>6, <2>1 DEF Stuck, Tight
  <2> QED
    BY <1>4, <2>1, <2>2 DEF Tight, Known
<1> QED
  BY <1>1, <1>5, <1>7, <1>8, DeletedKeeps

(* The other steps leave the books and the documents in limbo alone.        *)
LEMMA LimboStepKeeps == LimboIInv /\ [LimboNext]_limboVars => LimboIInv'
<1> SUFFICES ASSUME LimboIInv, [LimboNext]_limboVars PROVE LimboIInv'
  OBVIOUS
<1>1. CASE InitializeView
  BY <1>1 DEF InitializeView, LimboIInv, LimboTypes, Covers, Tight
<1>2. CASE \E new \in SUBSET Keys : QueryUpdated(new)
  BY <1>2, QueryUpdatedKeeps
<1>3. CASE ApplyOnlineStateChange
  BY <1>3 DEF ApplyOnlineStateChange, LimboIInv, LimboTypes, Covers, Tight
<1>4. CASE StopQuery
  BY <1>4, StopQueryKeeps
<1>5. CASE \E id \in tracking.listens : LimboResolved(id)
  BY <1>5, LimboResolvedKeeps
<1>6. CASE \E id \in tracking.listens : LimboRejected(id)
  BY <1>6, LimboRejectedKeeps
<1>7. CASE UNCHANGED limboVars
  BY <1>7 DEF limboVars, LimboIInv, LimboTypes, Covers, Tight
<1> QED
  BY <1>1, <1>2, <1>3, <1>4, <1>5, <1>6, <1>7 DEF LimboNext

(* Through every behaviour the books cover the documents in limbo.          *)
LEMMA LimboInvariant == LimboSpec => []LimboIInv
<1>1. LimboInit => LimboIInv
  BY LimboInitHolds
<1>2. LimboIInv /\ [LimboNext]_limboVars => LimboIInv'
  BY LimboStepKeeps
<1> QED
  BY <1>1, <1>2, PTL DEF LimboSpec

(* The books have their types: no resolution has an id that was not handed  *)
(* out, or is for anything but a document of the query (sync_engine.cc:539, *)
(* :555).                                                                   *)
THEOREM LimboTypeCorrect == LimboSpec => []LimboTypeOK
<1>1. LimboIInv => LimboTypeOK
  <2> SUFFICES ASSUME LimboIInv PROVE LimboTypeOK
    OBVIOUS
  <2> DEFINE below == 1 .. tracking.nextTarget - 1
  <2>1. tracking \in Books /\ Agrees(tracking) /\ LimboTypes
    BY BookFields DEF LimboIInv, Covers, Rest
  <2>2. /\ tracking.enqueued \in Seq(Keys)
        /\ DOMAIN tracking.byKey \subseteq Keys
        /\ DOMAIN tracking.byTarget \subseteq Targets
        /\ tracking.byTarget \in [DOMAIN tracking.byTarget -> Keys]
        /\ tracking.nextTarget \in Targets
    BY <2>1, BookFields
  <2>3. DOMAIN tracking.byTarget \subseteq below
    <3>1. ASSUME NEW id \in DOMAIN tracking.byTarget PROVE id \in below
      <4>1. id \in Targets /\ id < tracking.nextTarget
        BY <2>1, <2>2 DEF Agrees
      <4> QED
        BY <2>2, <4>1 DEF Targets
    <3> QED
      BY <3>1
  <2>4. tracking.listens \subseteq below
    BY <2>1, <2>3 DEF Agrees
  <2>5. Range(tracking.byKey) \subseteq below
    BY <2>1, <2>3 DEF Agrees, Range
  <2>6. Range(tracking.byTarget) \subseteq Keys
    BY <2>2 DEF Range
  <2>7. tracking.nextTarget \in Nat \ {0}
    BY <2>2 DEF Targets
  <2> QED
    BY <2>1, <2>2, <2>3, <2>4, <2>5, <2>6, <2>7 DEF LimboTypeOK, LimboTypes
<1> QED
  BY <1>1, LimboInvariant, PTL

(* Through updates, losses of the connection, refusals and the end of the   *)
(* query, for any number of documents and of places: the books of the       *)
(* resolutions agree, no document in limbo is forgotten, and none waits     *)
(* while fewer keys have a target than there are places (sync_engine.cc:302,*)
(* :504, :539).  It says nothing of the number of listens.                  *)
THEOREM ResolutionsStayInOrder == LimboSpec => []ResolutionsInOrder
<1>1. LimboIInv => ResolutionsInOrder
  <2> SUFFICES ASSUME LimboIInv PROVE ResolutionsInOrder
    OBVIOUS
  <2>1. /\ tracking \in Books /\ Agrees(tracking) /\ Stuck(tracking)
        /\ limbo \ deleted \subseteq Known(tracking)
        /\ ~ waited => Tight(tracking, limbo)
    BY BookFields DEF LimboIInv, Covers, Rest
  <2>2. ListensAccounted
    BY <2>1 DEF Agrees, ListensAccounted
  <2>3. NoLimboForgotten
    BY <2>1 DEF NoLimboForgotten, Known
  <2>4. PlacesUsed
    BY <2>1 DEF PlacesUsed, Agrees, Stuck
  <2>5. ListensAreLimbo
    <3> SUFFICES ASSUME ~ waited
                 PROVE  /\ \A t, u \in tracking.listens :
                             tracking.byTarget[t] = tracking.byTarget[u] => t = u
                        /\ limbo \ deleted \subseteq Range(tracking.byTarget)
                        /\ Range(tracking.byTarget) \subseteq limbo
      BY DEF ListensAreLimbo
    <3>1. Exact(tracking) /\ Known(tracking) \subseteq limbo /\ tracking.enqueued = <<>>
      BY <2>1 DEF Tight
    <3>2. tracking.listens = DOMAIN tracking.byTarget
      BY <2>1 DEF Agrees
    <3>3. Known(tracking) = DOMAIN tracking.byKey
      <4>1. ToSet(tracking.enqueued) = {}
        BY <3>1 DEF ToSet
      <4> QED
        BY <4>1 DEF Known
    <3>4. ASSUME NEW t \in tracking.listens, NEW u \in tracking.listens,
                 tracking.byTarget[t] = tracking.byTarget[u]
          PROVE  t = u
      BY <3>1, <3>2, <3>4 DEF Exact
    <3>5. limbo \ deleted \subseteq Range(tracking.byTarget)
      BY <2>1, <3>3 DEF Agrees, Range
    <3>6. Range(tracking.byTarget) \subseteq limbo
      BY <3>1, <3>3 DEF Exact, Range
    <3> QED
      BY <3>4, <3>5, <3>6
  <2> QED
    BY <2>2, <2>3, <2>4, <2>5 DEF ResolutionsInOrder
<1> QED
  BY <1>1, LimboInvariant, PTL

=============================================================================
