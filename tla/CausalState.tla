----------------------------- MODULE CausalState -----------------------------
(***************************************************************************)
(* The causal state of one candidate as it is shown: every thread that     *)
(* renders its row (ScreenerSession.row_for) evaluates the evidence, holds *)
(* the state back by hysteresis and records a change                       *)
(* (_record_causal_transition), without the session's lock.                *)
(*                                                                         *)
(* Time is kept as ages, which stop at Cooldown: from there on the code    *)
(* treats them alike.  Rows carry no rules to the evaluation and no fuel   *)
(* history, so the evidence has neither.                                   *)
(***************************************************************************)
EXTENDS CausalEvaluator, FiniteSets

CONSTANTS
  Threads,    (* request handlers and the loop                               *)
  Evidence,   (* what the rows of the candidate may hold                     *)
  NoState,    (* None                                                        *)
  Cooldown,   (* DEFAULT_COOLDOWN_SECONDS                                    *)
  MaxHistory  (* MAX_HISTORY_PER_SYMBOL                                      *)

ASSUME EvidenceAssumption ==
  /\ Evidence # {}
  /\ \A e \in Evidence : Cascade(e) \in States /\ StrongContradiction(e) \in BOOLEAN
ASSUME NoStateAssumption == NoState \notin States
ASSUME ThreadsAssumption == IsFiniteSet(Threads)
ASSUME BoundsAssumption == Cooldown \in Nat \ {0} /\ MaxHistory \in Nat \ {0}

VARIABLES
  current,   (* what the evidence of the moment amounts to                   *)
  snapshot,  (* age of snapshot_at                                           *)
  last,      (* last_causal_state                                            *)
  since,     (* age of causal_state_since                                    *)
  trail,     (* length of causal_transitions                                 *)
  pc,        (* where each rendering thread is                               *)
  proposed,  (* what the evidence it renders amounts to                      *)
  previous,  (* the state it has read                                        *)
  at         (* age of the time it records                                   *)

candidate == <<last, since, trail>>
world == <<current, snapshot>>
locals == <<proposed, previous, at>>
vars == <<world, candidate, pc, locals>>

Proposals == {Assess(e) : e \in Evidence}
Recording == {"look", "append", "initial", "trim", "write", "stamp"}
Ages == 0..Cooldown

TypeOK ==
  /\ current \in Proposals
  /\ snapshot \in Ages /\ since \in Ages
  /\ last \in States \cup {NoState}
  /\ trail \in Nat
  /\ pc \in [Threads -> {"idle", "since", "call", "look"} \cup Recording]
  /\ proposed \in [Threads -> [state : States, strong : BOOLEAN]]
  /\ previous \in [Threads -> States \cup {NoState}]
  /\ at \in [Threads -> Ages]

Nothing == [state |-> "BASELINE", strong |-> FALSE]

Init ==
  /\ current \in Proposals
  /\ snapshot = 0 /\ since = 0
  /\ last = NoState /\ trail = 0
  /\ pc = [t \in Threads |-> "idle"]
  /\ proposed = [t \in Threads |-> Nothing]
  /\ previous = [t \in Threads |-> NoState]
  /\ at = [t \in Threads |-> 0]
-----------------------------------------------------------------------------
(* A refresh, a provider, or POST of a cross-lane snapshot.                 *)
EvidenceChanges ==
  /\ current' \in Proposals
  /\ UNCHANGED <<snapshot, candidate, pc, locals>>

(* A refresh commits a snapshot. *)
Snapshot ==
  /\ snapshot' = 0
  /\ UNCHANGED <<current, candidate, pc, locals>>

Older(age) == Least(Cooldown, age + 1)

Tick ==
  /\ snapshot' = Older(snapshot) /\ since' = Older(since)
  /\ at' = [t \in Threads |-> IF pc[t] \in Recording THEN Older(at[t]) ELSE at[t]]
  /\ UNCHANGED <<current, last, trail, pc, proposed, previous>>
-----------------------------------------------------------------------------
Go(t, from, to) == pc[t] = from /\ pc' = [pc EXCEPT ![t] = to]

(* row_for: the row, taken at once, and the state shown so far.             *)
Render(t) ==
  /\ Go(t, "idle", "since")
  /\ proposed' = [proposed EXCEPT ![t] = current]
  /\ previous' = [previous EXCEPT ![t] = last]
  /\ UNCHANGED <<world, candidate, at>>

(* Seeded bug: a first state is held back too, at none. *)
JudgeFirst(t) ==
  /\ Go(t, "since", "call")
  /\ proposed' = [proposed EXCEPT ![t].state =
                    IF previous[t] # NoState THEN Held(proposed[t], previous[t], since, Cooldown)
                    ELSE IF since < Cooldown THEN NoState ELSE proposed[t].state]
  /\ previous' = [previous EXCEPT ![t] = NoState]
  /\ UNCHANGED <<world, candidate, at>>

(* Then its time; finalize_causal_intelligence_for_row works on the two.    *)
Judge(t) ==
  /\ Go(t, "since", "call")
  /\ IF previous[t] = NoState THEN UNCHANGED proposed
     ELSE proposed' = [proposed EXCEPT ![t].state =
                         Held(proposed[t], previous[t], since, Cooldown)]
  /\ previous' = [previous EXCEPT ![t] = NoState]
  /\ UNCHANGED <<world, candidate, at>>

(* What is recorded is dated by the snapshot of the row. *)
Call(t) ==
  /\ Go(t, "call", "look")
  /\ at' = [at EXCEPT ![t] = snapshot]
  /\ UNCHANGED <<world, candidate, proposed, previous>>

Forget(t) ==
  /\ proposed' = [proposed EXCEPT ![t] = Nothing]
  /\ at' = [at EXCEPT ![t] = 0]

(* Seeded bug: the time is set again although the state has not changed. *)
SameStamped(t) ==
  /\ Go(t, "look", "idle")
  /\ last = proposed[t].state
  /\ Forget(t)
  /\ since' = at[t]
  /\ UNCHANGED <<world, last, trail, previous>>

(* _record_causal_transition: nothing to record.                            *)
Same(t) ==
  /\ Go(t, "look", "idle")
  /\ last = proposed[t].state
  /\ Forget(t)
  /\ UNCHANGED <<world, candidate, previous>>

Differs(t) ==
  /\ Go(t, "look", IF last = NoState THEN "initial" ELSE "append")
  /\ last # proposed[t].state
  /\ UNCHANGED <<world, candidate, proposed, previous, at>>

Record(t, from, to) ==
  /\ Go(t, from, to)
  /\ trail' = trail + 1
  /\ UNCHANGED <<world, last, since, locals>>

(* The first record is not followed by a trim. *)
Initial(t) == Record(t, "initial", "write")
Append(t) == Record(t, "append", "trim")

(* Seeded bug: the trail is not trimmed. *)
Untrimmed(t) ==
  /\ Go(t, "trim", "write")
  /\ UNCHANGED <<world, candidate, locals>>

Trim(t) ==
  /\ Go(t, "trim", "write")
  /\ trail' = Least(MaxHistory, trail)
  /\ UNCHANGED <<world, last, since, locals>>

Write(t) ==
  /\ Go(t, "write", "stamp")
  /\ last' = proposed[t].state
  /\ UNCHANGED <<world, since, trail, locals>>

Stamp(t) ==
  /\ Go(t, "stamp", "idle")
  /\ since' = at[t]
  /\ Forget(t)
  /\ UNCHANGED <<world, last, trail, previous>>

Look(t) == Same(t) \/ Differs(t)
Store(t) == Initial(t) \/ Append(t) \/ Trim(t) \/ Write(t) \/ Stamp(t)
Step(t) == Render(t) \/ Judge(t) \/ Call(t) \/ Look(t) \/ Store(t)

Next ==
  \/ EvidenceChanges
  \/ Snapshot
  \/ Tick
  \/ \E t \in Threads : Step(t)

Spec == Init /\ [][Next]_vars

(* Time passes, the row goes on being rendered (the page polls, the loop    *)
(* ranks), and every rendering ends.                                        *)
FairSpec == Spec /\ WF_vars(Tick) /\ \A t \in Threads : WF_vars(Step(t))
-----------------------------------------------------------------------------
(* The unlocked appends and trims never let the trail grow: beyond its      *)
(* limit it holds what is about to be trimmed, and the first records of     *)
(* threads that met at the start, which nothing trims.                      *)
Trimming == {t \in Threads : pc[t] = "trim"}
TrailBounded == trail =< MaxHistory + Cardinality(Trimming) + Cardinality(Threads) - 1

(* What the evidence amounts to, if it stays so and renderings no longer    *)
(* overlap, comes to be shown for good: hysteresis delays a state and never *)
(* suppresses it, whatever earlier overlaps have left behind.  (While they  *)
(* overlap it may be suppressed: a thread that was held back writes the old *)
(* state over the new one, with a fresh cooldown.)                          *)
OneAtATime == Cardinality({t \in Threads : pc[t] # "idle"}) =< 1
EvidenceShown ==
  \A p \in Proposals : <>[](current = p /\ OneAtATime) => <>[](last = p.state)
=============================================================================
