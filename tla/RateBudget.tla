----------------------------- MODULE RateBudget -----------------------------
(***************************************************************************)
(* What the historical-data pacing of LiveProvider promises, without the   *)
(* threads, the lock, the gateway or the pruned list that keep it: a       *)
(* request is granted only while fewer than Capacity requests lie in the   *)
(* rolling window that ends now.                                           *)
(***************************************************************************)
EXTENDS Integers, FiniteSets

CONSTANTS
  Capacity,    (* requests that may lie in one rolling window               *)
  Window,      (* length of the window                                      *)
  MaxClock     (* bound: the clock stops here                               *)

VARIABLES
  granted,     (* every request ever sent: [id, at]                         *)
  clock

(* The requests of S that the window ending at time now still counts.  The  *)
(* comparison is inclusive: a request exactly Window old still counts.      *)
InWindow(S, now) == {r \in S : r.at >= now - Window}

Init ==
  /\ granted = {}
  /\ clock = 0

Grant ==
  /\ Cardinality(InWindow(granted, clock)) < Capacity
  /\ granted' = granted \cup {[id |-> Cardinality(granted) + 1, at |-> clock]}
  /\ UNCHANGED clock

Tick ==
  /\ clock < MaxClock
  /\ clock' = clock + 1
  /\ UNCHANGED granted

Next == Grant \/ Tick

Spec == Init /\ [][Next]_<<granted, clock>>
=============================================================================
