------------------------------ MODULE WorkQueue ------------------------------
(***************************************************************************)
(* What a SEDA stage promises the network layer: events are started in the *)
(* order in which they were added, each exactly once, by at most as many   *)
(* threads as the pool has; the order in which they finish is free.        *)
(***************************************************************************)
EXTENDS Sequences, FiniteSets, Naturals

CONSTANTS Items, Width     \* the events, and the number of service threads

VARIABLES waiting,         \* added and not started, oldest first
          running,         \* being handled
          finished         \* handled

qvars == <<waiting, running, finished>>

QInit == waiting = <<>> /\ running = {} /\ finished = {}

Add(e) ==
  /\ e \notin running \cup finished
  /\ \A i \in 1 .. Len(waiting) : waiting[i] # e
  /\ waiting' = Append(waiting, e)
  /\ UNCHANGED <<running, finished>>

Start ==
  /\ waiting # <<>>
  /\ Cardinality(running) < Width
  /\ waiting' = Tail(waiting)
  /\ running' = running \cup {Head(waiting)}
  /\ UNCHANGED finished

Finish(e) ==
  /\ e \in running
  /\ running' = running \ {e}
  /\ finished' = finished \cup {e}
  /\ UNCHANGED waiting

QNext == Start \/ \E e \in Items : Add(e) \/ Finish(e)

QSpec == QInit /\ [][QNext]_qvars
=============================================================================
