--------------------------- MODULE CausalEvaluator ---------------------------
(***************************************************************************)
(* The causal state of a candidate: evaluate_squeeze_intelligence          *)
(* (evaluator.py) with the fuel proxies it rests on (fuel.py), and the     *)
(* hysteresis applied to what it proposes (hysteresis.py).                 *)
(*                                                                         *)
(* Scores are whole tenths, as the code rounds them; Missing stands for    *)
(* None and is below every threshold.  Evidence is a record e:             *)
(*   pressure, ignition       scores of the Adam methodology               *)
(*   catalyst, invalidation   market-context scores, catalyst of whole     *)
(*                            points                                       *)
(*   lending                  score of the securities-lending snapshot     *)
(*   flow, buy, sell          order flow available, aggressive sides       *)
(*   slope, priorSlope        CVD slopes, 0 for None                       *)
(*   priorFuel                remaining fuel of an earlier evaluation      *)
(*   gamma, hedging           amplification, pressure at its threshold     *)
(*   reversal, decay          of options flow and of gamma                 *)
(*   normalizing              borrow normalization score of 50 or more     *)
(*   rules                    rules that pass; NoRules when none are given *)
(*   conflicted               provider conflicts                           *)
(***************************************************************************)
EXTENDS Integers

Missing == -1

Least(a, b) == IF a < b THEN a ELSE b
Most(a, b) == IF a > b THEN a ELSE b
Points(condition, score) == IF condition THEN score ELSE 0

(* _STATE_ORDER *)
Rank == [UNEVALUABLE |-> -1, BASELINE |-> 0, VULNERABLE |-> 1, ARMED |-> 2,
         IGNITION_WATCH |-> 3, LIVE_CONFIRMATION |-> 4, ACTIVE_SQUEEZE |-> 5,
         EXHAUSTION |-> 6, POST_SQUEEZE |-> 7]

States == DOMAIN Rank

NoRules == {"none given"}
-----------------------------------------------------------------------------
(* Fuel proxies.                                                            *)

(* estimate_reflexivity_strength *)
Reflexivity(e) ==
  LET score == Points(e.buy, 500) + Points(e.slope > 0, 100)
               + Points(e.gamma, 150) + Points(e.hedging, 100)
  IN IF (e.flow \/ e.gamma) /\ score > 0 THEN score ELSE Missing

(* estimate_covering_pressure; the slope counts a tenth *)
Covering(e) ==
  LET score == Points(e.buy, 400) - Points(e.sell, 200)
               + Most(-300, Least(400, e.slope))
  IN IF e.flow /\ score > 0 THEN score ELSE Missing

(* estimate_remaining_fuel: four tenths of the covering are consumed; the   *)
(* rounding never meets a tie.                                              *)
RemainingFuel(e) ==
  IF e.pressure = Missing THEN Missing
  ELSE Most(0, (10 * e.pressure - 4 * Most(0, Covering(e)) + 5) \div 10)

(* detect_cvd_divergence *)
Diverges(e) == e.buy /\ e.priorSlope > 0 /\ e.slope < 0

(* estimate_exhaustion_risk *)
Depletion(e) ==
  LET fuel == RemainingFuel(e)
  IN IF fuel = Missing \/ fuel >= 250 THEN 0
     ELSE IF e.priorFuel >= 500 THEN 350
     ELSE Points(fuel < 150, 250)

ExhaustionRisk(e) ==
  Least(1000, Points(e.buy /\ e.slope < 0, 450) + Points(Diverges(e), 200) + Depletion(e)
              + Points(Covering(e) >= 700, 150) + Points(e.normalizing, 150)
              + Points(e.reversal, 200) + Points(e.decay, 150))
-----------------------------------------------------------------------------
(* Dimensions and the state cascade.                                        *)

Constraint(e) ==
  IF "BORROW" \notin e.rules THEN e.lending
  ELSE IF e.pressure = Missing THEN 550 ELSE e.pressure

IgnitionStrength(e) ==
  IF e.catalyst = Missing THEN e.ignition
  ELSE Least(1000, Most(Most(0, e.ignition), (9 * e.catalyst) \div 10))

(* The gate that fails closed. *)
Unevaluable(e) ==
  \/ e.conflicted
  \/ {e.pressure, Constraint(e), IgnitionStrength(e)} = {Missing} /\ e.rules = NoRules

(* Reflexive feedback, or live confirmation by order flow. *)
Active(e) == Reflexivity(e) >= 700 /\ IgnitionStrength(e) >= 700 /\ e.pressure >= 600
Live(e) == Reflexivity(e) >= 500 /\ IgnitionStrength(e) >= 550

(* Ignition without the structure of a squeeze. *)
Momentum(e) ==
  /\ ~Unevaluable(e) /\ ~Active(e) /\ ~Live(e)
  /\ IgnitionStrength(e) >= 700 /\ e.pressure < 450

Ignites(e) ==
  \/ IgnitionStrength(e) >= 700 /\ e.pressure < 450
  \/ IgnitionStrength(e) >= 550 /\ ("CATALYST" \in e.rules \/ IgnitionStrength(e) >= 650)

Armed(e) == e.pressure >= 600 /\ (Constraint(e) >= 550 \/ "DTC" \in e.rules)
Vulnerable(e) == e.pressure >= 450 /\ e.rules \cap {"SI", "DTC"} # {}

Cascade(e) ==
  CASE Unevaluable(e)            -> "UNEVALUABLE"
    [] ~Unevaluable(e) /\ ExhaustionRisk(e) >= 700 -> "EXHAUSTION"
    [] OTHER -> IF Active(e) THEN "ACTIVE_SQUEEZE"
                ELSE IF Live(e) THEN "LIVE_CONFIRMATION"
                ELSE IF Ignites(e) THEN "IGNITION_WATCH"
                ELSE IF Armed(e) THEN "ARMED"
                ELSE IF Vulnerable(e) THEN "VULNERABLE"
                ELSE "BASELINE"

(* A thesis invalidated for sure. *)
Invalidated(e) == e.invalidation >= 750

(* A contradiction of strength HIGH. *)
StrongContradiction(e) == Invalidated(e) \/ Diverges(e) \/ Momentum(e)

Assess(e) == [state |-> Cascade(e), strong |-> StrongContradiction(e)]
-----------------------------------------------------------------------------
(* apply_hysteresis: the state shown, for what is proposed now, the one     *)
(* shown before and the time since, as far as the cooldown.                 *)
Held(proposed, previous, elapsed, cooldown) ==
  IF /\ 0 =< Rank[proposed.state] /\ Rank[proposed.state] < Rank[previous]
     /\ elapsed < cooldown /\ ~proposed.strong
  THEN previous ELSE proposed.state
=============================================================================
