---------------------------- MODULE MCCausalState ----------------------------
(***************************************************************************)
(* CausalState on four rows: a quiet candidate, one squeezed but           *)
(* contradicted by its invalidation score, one whose squeeze order flow    *)
(* confirms, and one whose providers disagree.                             *)
(***************************************************************************)
EXTENDS CausalState

Quiet ==
  [pressure |-> 300, ignition |-> 300, catalyst |-> Missing, invalidation |-> Missing,
   lending |-> Missing, flow |-> FALSE, buy |-> FALSE, sell |-> FALSE, slope |-> 0,
   priorSlope |-> 0, priorFuel |-> Missing, gamma |-> FALSE, hedging |-> FALSE,
   reversal |-> FALSE, decay |-> FALSE, normalizing |-> FALSE, rules |-> NoRules,
   conflicted |-> FALSE]

Squeezed == [Quiet EXCEPT !.pressure = 700, !.lending = 600]
Broken == [Squeezed EXCEPT !.invalidation = 800]
Confirmed == [Squeezed EXCEPT !.ignition = 600, !.flow = TRUE, !.buy = TRUE, !.slope = 10]
Conflicting == [Quiet EXCEPT !.conflicted = TRUE]

MCEvidence == {Quiet, Broken, Confirmed, Conflicting}
=============================================================================
