-------------------------- MODULE MCRefreshSchedule --------------------------
(***************************************************************************)
(* RefreshSchedule with three candidates: two that scans found and one     *)
(* added by hand.                                                          *)
(***************************************************************************)
EXTENDS RefreshSchedule

(* Classes a step apart, which is 25, and a little pressure. *)
MixedWorths == <<{150, 160}, {125, 150}, {125}>>

OneWorth == [s \in 1..N |-> {150}]

(* From a scan of the broker only, from a usable Finviz row, and by hand. *)
ScannedOrManual == <<{60}, {60, 750}, {0}>>
=============================================================================
