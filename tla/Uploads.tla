------------------------------ MODULE Uploads ------------------------------
(***************************************************************************)
(* What `setData` promises to the app, whatever streams, retries and       *)
(* restarts carry it out.  Writes are numbered in the order they are       *)
(* issued, all to one document.  They are settled one by one in that       *)
(* order, each by being stored by the backend or refused by it; the caller *)
(* is told at most once, and not at all when the app was restarted in      *)
(* between.  Until it is settled a write may reach the backend any number  *)
(* of times.  WritePipeline.tla, the model of the client's write path,     *)
(* implements this specification.                                          *)
(***************************************************************************)
EXTENDS Naturals, Sequences

CONSTANTS
  MaxWrites,  \* bound on the writes that are issued
  Refused     \* the writes the backend's rules refuse

VARIABLES
  running,    \* the app runs
  issued,     \* writes issued so far
  settled,    \* writes settled so far
  listening,  \* writes whose caller waits to be told
  told,       \* writes whose caller was told, in that order
  document    \* the write the backend's document holds, 0 if none

vars == <<running, issued, settled, listening, told, document>>

Init ==
  /\ running = FALSE
  /\ issued = 0
  /\ settled = 0
  /\ listening = {}
  /\ told = <<>>
  /\ document = 0

Issue ==
  /\ running
  /\ issued < MaxWrites
  /\ issued' = issued + 1
  /\ listening' = listening \cup {issued + 1}
  /\ UNCHANGED <<running, settled, told, document>>

(* A write that waits reaches the backend, perhaps once more. *)
Store(w) ==
  /\ w \in (settled + 1) .. issued
  /\ w \notin Refused
  /\ document' = w
  /\ UNCHANGED <<running, issued, settled, listening, told>>

(* The next write to settle can be: the backend holds it, or refuses it. *)
Decided(w) ==
  /\ w = settled + 1
  /\ w <= issued
  /\ w \notin Refused => document >= w

Settle(w) ==
  /\ running
  /\ Decided(w)
  /\ settled' = w
  /\ told' = IF w \in listening THEN Append(told, w) ELSE told
  /\ listening' = listening \ {w}
  /\ UNCHANGED <<running, issued, document>>

(* The process ends; between two steps of settling a write it may already  *)
(* have told the caller of a stored write, or have dropped a refused one.  *)
Stop ==
  /\ running
  /\ running' = FALSE
  /\ listening' = {}
  /\ \/ UNCHANGED <<settled, told>>
     \/ \E w \in listening \ Refused :
          /\ Decided(w)
          /\ told' = Append(told, w)
          /\ UNCHANGED settled
     \/ \E w \in Refused :
          /\ Decided(w)
          /\ settled' = w
          /\ UNCHANGED told
  /\ UNCHANGED <<issued, document>>

Launch ==
  /\ ~running
  /\ running' = TRUE
  /\ UNCHANGED <<issued, settled, listening, told, document>>

Next ==
  \/ Issue
  \/ \E w \in 1 .. MaxWrites : Store(w) \/ Settle(w)
  \/ Stop
  \/ Launch

Spec == Init /\ [][Next]_vars

=============================================================================
