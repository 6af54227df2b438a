----------------------------- MODULE EventFeed -----------------------------
(***************************************************************************)
(* What App.Emit promises a page, whatever transport carries the event:    *)
(* events are numbered in the order they were emitted, a page may miss any *)
(* of them (every queue on the way drops when full), but what it does see  *)
(* it sees once, in order, and never before it was emitted.                *)
(***************************************************************************)
EXTENDS Naturals

CONSTANT Client    \* the pages (connections) events are pushed to

VARIABLES
  emitted,         \* number of events emitted so far
  lastEvent        \* last event each page has seen, 0 before the first

feedVars == <<emitted, lastEvent>>

Init ==
  /\ emitted = 0
  /\ lastEvent = [c \in Client |-> 0]

Emit ==
  /\ emitted' = emitted + 1
  /\ UNCHANGED lastEvent

\* The page sees some later event; those in between are lost to it.
See(c) ==
  /\ \E n \in (lastEvent[c] + 1) .. emitted : lastEvent' = [lastEvent EXCEPT ![c] = n]
  /\ UNCHANGED emitted

Next == Emit \/ \E c \in Client : See(c)

Spec == Init /\ [][Next]_feedVars
=============================================================================
