------------------------- MODULE CausalEvaluator_proofs -------------------------
(***************************************************************************)
(* What the causal cascade and its hysteresis do for every evidence.       *)
(***************************************************************************)
EXTENDS CausalEvaluator, TLAPS

Score == 0..1000
MaybeScore == Missing..1000

Records ==
  [pressure : MaybeScore, ignition : MaybeScore, catalyst : MaybeScore,
   invalidation : MaybeScore, lending : MaybeScore, flow : BOOLEAN, buy : BOOLEAN,
   sell : BOOLEAN, slope : Int, priorSlope : Int, priorFuel : MaybeScore,
   gamma : BOOLEAN, hedging : BOOLEAN, reversal : BOOLEAN, decay : BOOLEAN,
   normalizing : BOOLEAN, rules : SUBSET {"none given", "SI", "DTC", "BORROW", "CATALYST"},
   conflicted : BOOLEAN]

(* e has what d has, with higher scores. *)
Strengthens(e, d) ==
  /\ d.pressure =< e.pressure /\ d.ignition =< e.ignition /\ d.catalyst =< e.catalyst
  /\ \A f \in DOMAIN d \ {"pressure", "ignition", "catalyst"} : e[f] = d[f]
-----------------------------------------------------------------------------
LEMMA Fields ==
  ASSUME NEW e \in Records
  PROVE  /\ e.pressure \in MaybeScore /\ e.ignition \in MaybeScore
         /\ e.catalyst \in MaybeScore /\ e.lending \in MaybeScore
         /\ e.flow \in BOOLEAN /\ e.buy \in BOOLEAN /\ e.gamma \in BOOLEAN
         /\ e.hedging \in BOOLEAN /\ e.conflicted \in BOOLEAN
         /\ e.slope \in Int
  BY DEF Records

LEMMA SameOtherwise ==
  ASSUME NEW d \in Records, NEW e \in Records, Strengthens(e, d)
  PROVE  /\ e.lending = d.lending /\ e.flow = d.flow /\ e.buy = d.buy /\ e.slope = d.slope
         /\ e.gamma = d.gamma /\ e.hedging = d.hedging
         /\ e.rules = d.rules /\ e.conflicted = d.conflicted
  BY DEF Strengthens, Records

(* Every record is given one of the states, and none is POST_SQUEEZE.       *)
THEOREM CascadeAssigns ==
  ASSUME NEW e \in Records
  PROVE  Cascade(e) \in States \ {"POST_SQUEEZE"}
  BY DEF Cascade, States, Rank

LEMMA ScoresAreIntegers == \A x \in MaybeScore : x \in Int
  BY DEF MaybeScore, Missing

LEMMA PresentStays ==
  \A x, y \in MaybeScore : x =< y /\ x # Missing => y # Missing
  BY DEF MaybeScore, Missing

LEMMA IgnitionRises ==
  ASSUME NEW d \in Records, NEW e \in Records, Strengthens(e, d)
  PROVE  /\ IgnitionStrength(d) \in MaybeScore /\ IgnitionStrength(e) \in MaybeScore
         /\ IgnitionStrength(d) =< IgnitionStrength(e)
  <1>1. /\ d.ignition \in MaybeScore /\ e.ignition \in MaybeScore
        /\ d.catalyst \in MaybeScore /\ e.catalyst \in MaybeScore
        /\ d.ignition =< e.ignition /\ d.catalyst =< e.catalyst
    BY Fields DEF Strengthens
  <1> DEFINE raised(k, s) == IF s = Missing THEN k
                             ELSE Least(1000, Most(Most(0, k), (9 * s) \div 10))
  <1>2. ASSUME NEW i \in MaybeScore, NEW j \in MaybeScore, i =< j,
               NEW b \in MaybeScore, NEW c \in MaybeScore, b =< c
        PROVE  /\ raised(i, b) \in MaybeScore /\ raised(j, c) \in MaybeScore
               /\ raised(i, b) =< raised(j, c)
    <2>1. (9 * b) \div 10 =< (9 * c) \div 10 /\ (9 * b) \div 10 \in Int /\ (9 * c) \div 10 \in Int
      BY <1>2 DEF MaybeScore, Missing
    <2>2. c # Missing => (9 * c) \div 10 >= 0
      BY <1>2 DEF MaybeScore, Missing
    <2> QED
      BY <2>1, <2>2, <1>2 DEF MaybeScore, Missing, Least, Most
  <1>3. /\ IgnitionStrength(d) = raised(d.ignition, d.catalyst)
        /\ IgnitionStrength(e) = raised(e.ignition, e.catalyst)
    BY Zenon DEF IgnitionStrength
  <1> HIDE DEF raised
  <1>4. /\ raised(d.ignition, d.catalyst) \in MaybeScore
        /\ raised(e.ignition, e.catalyst) \in MaybeScore
        /\ raised(d.ignition, d.catalyst) =< raised(e.ignition, e.catalyst)
    BY <1>1, <1>2, Zenon
  <1> QED
    BY <1>3, <1>4, Zenon

LEMMA ReflexivitySame ==
  ASSUME NEW d \in Records, NEW e \in Records, Strengthens(e, d)
  PROVE  Reflexivity(e) = Reflexivity(d)
  <1>1. /\ e.flow = d.flow /\ e.buy = d.buy /\ e.slope = d.slope
        /\ e.gamma = d.gamma /\ e.hedging = d.hedging
    BY SameOtherwise
  <1> QED
    BY <1>1, SMT DEF Reflexivity

(* Where the structure is strong enough to arm, the constraint only rises. *)
LEMMA ConstraintRises ==
  ASSUME NEW d \in Records, NEW e \in Records, Strengthens(e, d),
         d.pressure >= 600, Constraint(d) >= 550
  PROVE  Constraint(e) >= 550
  <1>1. /\ d.pressure \in MaybeScore /\ e.pressure \in MaybeScore /\ d.pressure =< e.pressure
        /\ e.lending = d.lending /\ e.rules = d.rules
    BY SameOtherwise, Fields, Zenon DEF Strengthens
  <1>2. CASE "BORROW" \notin d.rules
    <2>1. Constraint(d) = d.lending /\ Constraint(e) = e.lending
      BY <1>1, <1>2, SMT DEF Constraint
    <2> QED
      BY <1>1, <2>1
  <1>3. CASE "BORROW" \in d.rules
    <2>0. d.pressure \in Int /\ e.pressure \in Int
      BY <1>1, ScoresAreIntegers, Zenon
    <2>1. e.pressure >= 550 /\ e.pressure # Missing
      BY <1>1, <2>0, SMT DEF Missing
    <2>2. Constraint(e) = e.pressure
      BY <1>1, <1>3, <2>1, SMT DEF Constraint
    <2> QED
      BY <2>1, <2>2
  <1> QED
    BY <1>2, <1>3

LEMMA EvaluableStays ==
  ASSUME NEW d \in Records, NEW e \in Records, Strengthens(e, d), ~Unevaluable(d)
  PROVE  ~Unevaluable(e)
  <1>1. e.conflicted = d.conflicted /\ e.rules = d.rules /\ e.lending = d.lending
    BY SameOtherwise
  <1>2. ~d.conflicted
    BY DEF Unevaluable
  <1>3. CASE d.rules # NoRules
    BY <1>1, <1>2, <1>3 DEF Unevaluable
  <1>4. CASE d.rules = NoRules
    <2> "BORROW" \notin NoRules
      BY DEF NoRules
    <2>0. "BORROW" \notin d.rules /\ "BORROW" \notin e.rules
      BY <1>1, <1>4, Zenon
    <2>1. Constraint(d) = d.lending /\ Constraint(e) = d.lending
      BY <2>0, <1>1, Zenon DEF Constraint
    <2>2. d.pressure # Missing \/ d.lending # Missing \/ IgnitionStrength(d) # Missing
      BY <2>1, <1>4, <1>2, Zenon DEF Unevaluable
    <2>3. d.pressure # Missing => e.pressure # Missing
      <3>1. /\ d.pressure \in MaybeScore /\ e.pressure \in MaybeScore
            /\ d.pressure =< e.pressure
        BY Fields, Zenon DEF Strengthens
      <3> QED
        BY <3>1, PresentStays, Zenon
    <2>4. IgnitionStrength(d) # Missing => IgnitionStrength(e) # Missing
      BY IgnitionRises, PresentStays, Zenon
    <2> QED
      BY <2>1, <2>2, <2>3, <2>4, <1>1, <1>2, Zenon DEF Unevaluable
  <1> QED
    BY <1>3, <1>4

(* Higher scores of pressure, ignition or catalyst never lower the state    *)
(* of a candidate that is not exhausted: the gates of the cascade, with the *)
(* detour for ignition without structure, leave no hole.                    *)
THEOREM StrongerNeverLower ==
  ASSUME NEW d \in Records, NEW e \in Records, Strengthens(e, d),
         Cascade(d) # "EXHAUSTION"
  PROVE  Rank[Cascade(d)] =< Rank[Cascade(e)]
  <1>1. CASE Unevaluable(d)
    BY <1>1, CascadeAssigns DEF Cascade, Rank, States
  <1>2. CASE ~Unevaluable(d)
    <2>1. ~Unevaluable(e)
      BY <1>2, EvaluableStays
    <2>2. ~(ExhaustionRisk(d) >= 700)
      BY <1>2 DEF Cascade
    <2>3. CASE ExhaustionRisk(e) >= 700
      BY <2>1, <2>3, CascadeAssigns DEF Cascade, Rank, States
    <2>4. CASE ~(ExhaustionRisk(e) >= 700)
      <3>1. /\ IgnitionStrength(d) \in MaybeScore /\ IgnitionStrength(e) \in MaybeScore
            /\ IgnitionStrength(d) =< IgnitionStrength(e)
            /\ IgnitionStrength(d) \in Int /\ IgnitionStrength(e) \in Int
        BY IgnitionRises, ScoresAreIntegers, Zenon
      <3>2. Reflexivity(e) = Reflexivity(d)
        BY ReflexivitySame
      <3>3. /\ d.pressure \in MaybeScore /\ e.pressure \in MaybeScore
            /\ d.pressure \in Int /\ e.pressure \in Int
            /\ d.pressure =< e.pressure /\ d.rules = e.rules
        BY SameOtherwise, Fields, ScoresAreIntegers, Zenon DEF Strengthens
      <3>4. Active(d) => Active(e)
        BY <3>1, <3>2, <3>3, SMT DEF Active
      <3>5. Live(d) => Live(e)
        BY <3>1, <3>2, SMT DEF Live
      <3>6. Ignites(d) => Ignites(e)
        BY <3>1, <3>3, SMT DEF Ignites
      <3>7. Armed(d) => Armed(e)
        BY <3>3, ConstraintRises, SMT DEF Armed
      <3>8. Vulnerable(d) => Vulnerable(e)
        BY <3>3, SMT DEF Vulnerable
      <3> QED
        BY <3>4, <3>5, <3>6, <3>7, <3>8, <2>1, <2>2, <2>4, <1>2 DEF Cascade, Rank
    <2> QED
      BY <2>3, <2>4
  <1> QED
    BY <1>1, <1>2

(* Rows of the screen carry no rules to the evaluation, and without rules   *)
(* no candidate is ever VULNERABLE, whatever its scores.                    *)
THEOREM NoRulesNeverVulnerable ==
  ASSUME NEW e \in Records, e.rules = NoRules
  PROVE  Cascade(e) # "VULNERABLE"
  <1>1. ~Vulnerable(e)
    BY DEF Vulnerable, NoRules
  <1> QED
    BY <1>1 DEF Cascade

(* Hysteresis shows the proposed state or keeps the one before, and lowers  *)
(* an evaluable one only after the cooldown or against a strong             *)
(* contradiction.                                                           *)
THEOREM HeldKeepsOrLowersForCause ==
  ASSUME NEW e \in Records, NEW previous \in States,
         NEW elapsed \in Nat, NEW cooldown \in Nat
  PROVE  LET now == Held(Assess(e), previous, elapsed, cooldown)
         IN /\ now \in {Cascade(e), previous}
            /\ Rank[now] < Rank[previous] =>
                 Unevaluable(e) \/ elapsed >= cooldown \/ StrongContradiction(e)
  <1>1. Cascade(e) \in States
    BY CascadeAssigns
  <1>2. Rank[Cascade(e)] < 0 => Unevaluable(e)
    BY DEF Cascade, Rank
  <1>3. Rank[Cascade(e)] \in Int /\ Rank[previous] \in Int
    BY <1>1 DEF Rank, States
  <1> QED
    BY <1>1, <1>2, <1>3 DEF Held, Assess
=============================================================================
