--------------------------- MODULE RefreshSchedule ---------------------------
(***************************************************************************)
(* Which candidates a refresh cycle takes: ScreenerSession.refresh_all and *)
(* compute_symbols_per_cycle (session_state.py), the ranking they use      *)
(* (squeeze_priority.py) and the cycle of _loop around them.               *)
(*                                                                         *)
(* A score is what the rendered row is worth plus terms for being stale,   *)
(* for the age of the snapshot and for not being evaluated yet.  Time is   *)
(* counted in cycles.  Rows are rendered anew in every cycle from evidence *)
(* of many sources, so what a candidate's row is worth is any of its       *)
(* Worths each time.  The screen does not change.  The bootstrap warms it  *)
(* before the loop starts, and cycles that users ask for run between those *)
(* of the loop: ScreenerSession has the overlaps.                          *)
(***************************************************************************)
EXTENDS Integers, Sequences, Functions

CONSTANTS
  N,                 (* candidates, numbered in the order of their symbols   *)
  SymbolsPerCycle,   (* SYMBOLS_PER_CYCLE                                    *)
  SymbolsPerCycleMax,(* SYMBOLS_PER_CYCLE_MAX                                *)
  MaxRequests,       (* historical requests the provider grants per window   *)
  CyclesInWindow,    (* cycles_left: cycles in the pacing window             *)
  ScanEvery,         (* scanner_refresh_s, in cycles                         *)
  WarmCycles,        (* BOOTSTRAP_WARM_CYCLES                                *)
  Worths,            (* pressure, ignition, class and Finviz terms that each *)
                     (* candidate's row may have                             *)
  Bonuses,           (* 0.25 * discovery_score that scans may give each, for *)
                     (* one added by hand only 0: counts until it is         *)
                     (* evaluated                                            *)
  StaleBonus,        (* 80                                                   *)
  AgePerCycle,       (* a cycle's length over 30 s: what age adds per cycle  *)
  FreshAge,          (* FRESH_WITHIN_S over 30 s: no age term up to here     *)
  AgeCap             (* 120: the most that age adds                          *)

ASSUME SizesAssumption ==
  /\ {N, SymbolsPerCycle, SymbolsPerCycleMax, CyclesInWindow, WarmCycles} \subseteq Nat \ {0}
  /\ {MaxRequests, ScanEvery} \subseteq Nat
ASSUME RowsAssumption ==
  \A s \in 1..N : Worths[s] # {} /\ Worths[s] \subseteq Nat /\ Bonuses[s] # {} /\ Bonuses[s] \subseteq Nat
ASSUME ScoresAssumption ==
  /\ {StaleBonus, FreshAge, AgeCap} \subseteq Nat
  /\ AgePerCycle \in Nat \ {0}
  /\ FreshAge < AgeCap

VARIABLES
  age,       (* cycles since snapshot_at, Never while there is no snapshot   *)
  stale,     (* CandidateState.stale                                         *)
  evaluated, (* CandidateState.evaluation is not None                        *)
  spent,     (* requests in this cycle and in the earlier ones of the window *)
  others,    (* users or the bootstrap refreshed in this cycle, in the       *)
             (* earlier ones                                                 *)
  sinceScan, (* cycles since _last_scan_ts, as far as ScanEvery              *)
  warm,      (* warm cycles the bootstrap has still to begin                 *)
  phase,     (* where the cycle is                                           *)
  caller,    (* whose cycle it is                                            *)
  slice,     (* candidates this cycle has still to refresh, in order         *)
  trouble    (* history: something other than the budget failed this cycle   *)

candidates == <<age, stale, evaluated>>
budget == <<spent, others>>
vars == <<candidates, budget, sinceScan, warm, phase, caller, slice, trouble>>

Symbols == 1..N
Never == -1
Least(a, b) == IF a < b THEN a ELSE b
Most(a, b) == IF a > b THEN a ELSE b

(* From this age on the age term stays at its cap: counting further tells   *)
(* no states apart.                                                         *)
Oldest == (AgeCap + AgePerCycle - 1) \div AgePerCycle

TypeOK ==
  /\ age \in [Symbols -> {Never} \cup 0..Oldest]
  /\ stale \in [Symbols -> BOOLEAN] /\ evaluated \in [Symbols -> BOOLEAN]
  /\ spent \in [1..CyclesInWindow -> 0..MaxRequests]
  /\ others \in [1..CyclesInWindow -> BOOLEAN]
  /\ sinceScan \in 0..ScanEvery /\ warm \in 0..WarmCycles
  /\ phase \in {"wait", "top", "rank", "refresh"}
  /\ caller \in {"boot", "loop", "user"}
  /\ slice \in Seq(Symbols)
  /\ trouble \in BOOLEAN

(* The bootstrap begins its first warm cycle.  It notes its discovery, if  *)
(* that succeeded, as the loop's last scan.                                *)
Init ==
  /\ age = [s \in Symbols |-> Never]
  /\ stale = [s \in Symbols |-> FALSE]
  /\ evaluated = [s \in Symbols |-> FALSE]
  /\ spent = [i \in 1..CyclesInWindow |-> 0]
  /\ others = [i \in 1..CyclesInWindow |-> i = 1]
  /\ sinceScan \in {0, ScanEvery}
  /\ warm = WarmCycles - 1
  /\ phase = "rank" /\ caller = "boot"
  /\ slice = <<>>
  /\ trouble = FALSE
-----------------------------------------------------------------------------
(* score_refresh_priority *)

(* Seeded bug: only an age below FRESH_WITHIN_S counts. *)
AgeTermInverted(a) ==
  IF a * AgePerCycle =< FreshAge THEN Least(AgeCap, a * AgePerCycle) ELSE 0

AgeTerm(a) ==
  IF a * AgePerCycle > FreshAge THEN Least(AgeCap, a * AgePerCycle) ELSE 0

Score(s, value) == value[s] + AgeTerm(age[s]) + (IF stale[s] THEN StaleBonus ELSE 0)

(* What a candidate scores apart from that: its row, and what it was        *)
(* discovered with as long as it has no evaluation.                         *)
ValuesOf(s) ==
  IF evaluated[s] THEN Worths[s] ELSE {w + b : w \in Worths[s], b \in Bonuses[s]}

Values ==
  {value \in [Symbols -> UNION {ValuesOf(s) : s \in Symbols}] :
     \A s \in Symbols : value[s] \in ValuesOf(s)}

(* rank_symbols_for_refresh sorts by score, then by symbol. *)
Before(s, t, value) ==
  \/ Score(s, value) > Score(t, value)
  \/ Score(s, value) = Score(t, value) /\ s < t

(* The requests of this cycle and the k - 1 before it, for each k. *)
Charges(ledger) ==
  LET charges[k \in 0..CyclesInWindow] == IF k = 0 THEN 0 ELSE charges[k - 1] + ledger[k]
  IN charges

(* historical_budget_remaining *)
Remaining == MaxRequests - Charges(spent)[CyclesInWindow]

(* compute_symbols_per_cycle *)
Take ==
  LET adaptive == Most(1, Remaining \div CyclesInWindow)
      take == Least(SymbolsPerCycleMax, Most(SymbolsPerCycle, adaptive))
  IN Least(N, Most(1, take))
-----------------------------------------------------------------------------
(* _bootstrap_live_data: warm cycles without a pause, so without time for   *)
(* the window to move; what one raises ends them.  Then the loop starts.    *)
WarmsAgain ==
  /\ phase = "wait" /\ caller = "boot"
  /\ warm > 0
  /\ warm' = warm - 1
  /\ phase' = "rank"
  /\ UNCHANGED <<candidates, budget, sinceScan, caller, slice, trouble>>

LoopStarts ==
  /\ phase = "wait" /\ caller = "boot"
  /\ warm = 0
  /\ phase' = "top" /\ caller' = "loop"
  /\ UNCHANGED <<candidates, budget, sinceScan, warm, slice, trouble>>

(* Seeded bug: requests never leave the ledger. *)
WaitUnpruned ==
  /\ phase = "wait" /\ caller # "boot"
  /\ phase' = "top" /\ caller' = "loop"
  /\ age' = [s \in Symbols |-> IF age[s] = Never THEN Never ELSE Least(Oldest, age[s] + 1)]
  /\ others' = [i \in 1..CyclesInWindow |-> i > 1 /\ others[i - 1]]
  /\ sinceScan' = Least(ScanEvery, sinceScan + 1)
  /\ trouble' = FALSE
  /\ UNCHANGED <<stale, evaluated, warm, slice, spent>>

(* self._stop.wait(quote_sleep) *)
Wait ==
  /\ phase = "wait" /\ caller # "boot"
  /\ phase' = "top" /\ caller' = "loop"
  /\ age' = [s \in Symbols |-> IF age[s] = Never THEN Never ELSE Least(Oldest, age[s] + 1)]
  /\ spent' = [i \in 1..CyclesInWindow |-> IF i = 1 THEN 0 ELSE spent[i - 1]]
  /\ others' = [i \in 1..CyclesInWindow |-> i > 1 /\ others[i - 1]]
  /\ sinceScan' = Least(ScanEvery, sinceScan + 1)
  /\ trouble' = FALSE
  /\ UNCHANGED <<stale, evaluated, warm, slice>>

(* The scan of _loop, if one is due; if it raises the cycle is over, and   *)
(* the next one scans again.                                               *)
Scan ==
  /\ phase = "top"
  /\ sinceScan = ScanEvery
  /\ \/ /\ phase' = "rank"
        /\ sinceScan' = 0
        /\ UNCHANGED trouble
     \/ /\ phase' = "wait"
        /\ trouble' = TRUE
        /\ UNCHANGED sinceScan
  /\ UNCHANGED <<candidates, budget, warm, caller, slice>>

NoScan ==
  /\ phase = "top"
  /\ sinceScan < ScanEvery
  /\ phase' = "rank"
  /\ UNCHANGED <<candidates, budget, sinceScan, warm, caller, slice, trouble>>

(* POST /api/live/refresh, and the refresh of everything.  Bound: one in a *)
(* cycle, none in the one that begins with the bootstrap's.                *)
UserAsks ==
  /\ phase = "wait"
  /\ ~others[1]
  /\ phase' = "rank" /\ caller' = "user"
  /\ others' = [others EXCEPT ![1] = TRUE]
  /\ UNCHANGED <<candidates, spent, sinceScan, warm, slice, trouble>>

(* What the ranking's best `take` candidates may be, best first. *)
Slices(take) ==
  {q \in [1..take -> Symbols] : \E value \in Values :
     /\ \A i, j \in 1..take : i < j => Before(q[i], q[j], value)
     /\ \A t \in Symbols \ Range(q) : Before(q[take], t, value)}

(* A cycle takes the best Take; the refresh of everything (limit=total)    *)
(* takes them all.                                                         *)
Rank ==
  /\ phase = "rank"
  /\ \E take \in {Take} \cup (IF caller = "user" THEN {N} ELSE {}) :
       slice' \in Slices(take)
  /\ phase' = "refresh"
  /\ UNCHANGED <<candidates, budget, sinceScan, warm, caller, trouble>>

(* Rendering a row may ask Finviz for it and raise: the cycle is over, and *)
(* the bootstrap's warm cycles are.                                        *)
RankRaises ==
  /\ phase = "rank"
  /\ phase' = "wait"
  /\ warm' = 0
  /\ trouble' = TRUE
  /\ UNCHANGED <<candidates, budget, sinceScan, caller, slice>>
-----------------------------------------------------------------------------
(* refresh_symbol, for the next candidate of the slice                     *)

Refreshing(s) == phase = "refresh" /\ slice # <<>> /\ s = Head(slice)

NextInSlice ==
  /\ slice' = Tail(slice)
  /\ phase' = IF Tail(slice) = <<>> THEN "wait" ELSE "refresh"
  /\ UNCHANGED <<others, sinceScan, warm, caller>>

Charge == spent' = [spent EXCEPT ![1] = @ + 1]

(* A failure marks a candidate that has a snapshot stale; otherwise the    *)
(* empty collection becomes its snapshot.                                  *)
Failed(s) ==
  /\ stale' = [stale EXCEPT ![s] = TRUE]
  /\ age' = [age EXCEPT ![s] = IF @ = Never THEN 0 ELSE @]
  /\ UNCHANGED evaluated

(* The provider refuses: nothing is left of the budget. *)
Refused(s) ==
  /\ Refreshing(s)
  /\ Remaining = 0
  /\ Failed(s)
  /\ NextInSlice
  /\ UNCHANGED <<spent, trouble>>

(* No contract, no connection, or no bars; the last one was a request. *)
Unanswered(s) ==
  /\ Refreshing(s)
  /\ Remaining > 0
  /\ Charge \/ UNCHANGED spent
  /\ Failed(s)
  /\ trouble' = TRUE
  /\ NextInSlice

(* Bars that could not be evaluated. *)
Unevaluable(s) ==
  /\ Refreshing(s)
  /\ Remaining > 0
  /\ Charge
  /\ age' = [age EXCEPT ![s] = 0]
  /\ stale' = [stale EXCEPT ![s] = TRUE]
  /\ trouble' = TRUE
  /\ NextInSlice
  /\ UNCHANGED evaluated

(* Seeded bug: the request is sent without a look at the budget. *)
AnsweredBlindly(s) ==
  /\ Refreshing(s)
  /\ Charge
  /\ age' = [age EXCEPT ![s] = 0]
  /\ stale' = [stale EXCEPT ![s] = FALSE]
  /\ evaluated' = [evaluated EXCEPT ![s] = TRUE]

Answered(s) ==
  /\ Refreshing(s)
  /\ Remaining > 0
  /\ Charge
  /\ age' = [age EXCEPT ![s] = 0]
  /\ stale' = [stale EXCEPT ![s] = FALSE]
  /\ evaluated' = [evaluated EXCEPT ![s] = TRUE]

Refreshed(s) == Answered(s) /\ NextInSlice /\ UNCHANGED trouble

(* The row for the history is rendered after the snapshot is in place; if  *)
(* that raises, the rest of the slice is not refreshed.                    *)
HistoryRaises(s) ==
  /\ Answered(s)
  /\ slice' = <<>>
  /\ phase' = "wait"
  /\ warm' = 0
  /\ trouble' = TRUE
  /\ UNCHANGED <<others, sinceScan, caller>>
-----------------------------------------------------------------------------
Refresh(s) ==
  Refused(s) \/ Unanswered(s) \/ Unevaluable(s) \/ Refreshed(s) \/ HistoryRaises(s)

Cycle ==
  WarmsAgain \/ LoopStarts \/ Wait \/ Scan \/ NoScan \/ Rank \/ RankRaises
  \/ \E s \in Symbols : Refresh(s)

Next == Cycle \/ UserAsks

Spec == Init /\ [][Next]_vars

(* The loop waits with a timeout, and so does everything that a cycle calls *)
(* but the gateway's handshake, which is taken to end here (LiveProvider).  *)
FairSpec == Spec /\ WF_vars(Cycle)
-----------------------------------------------------------------------------
(* Properties.                                                             *)

(* No row outscores the candidate's once it has waited: not even a stale   *)
(* one, as long as a turn of all the others keeps it fresh by age.         *)
InReach(s) ==
  /\ (N - 1) * AgePerCycle =< FreshAge
  /\ \A t \in Symbols : \A v \in Worths[t], w \in Worths[s] : v + StaleBonus < w + AgeCap

(* When nothing fails any more but for want of budget, every candidate     *)
(* that has had its first pass, and is in reach of the best rows, is fresh *)
(* again and again: ranking by a score, users who spend the budget, and    *)
(* refusals that mark the best candidates stale, leave none of them        *)
(* behind.  Before its first pass a candidate does not age, and one added  *)
(* by hand has no bonus either: it is promised nothing.                    *)
SweptWhenHealthy ==
  <>[]~trouble =>
    \A s \in Symbols : InReach(s) =>
      []<>(age[s] = Never \/ (evaluated[s] /\ ~stale[s] /\ age[s] = 0))

(* If the plain slice fits into the budget of a window, a cycle of the     *)
(* loop is refused only within a window of a user's refresh or of the      *)
(* bootstrap's, which run ahead of the pauses: taking more while the       *)
(* budget lasts never leaves a later cycle without.                        *)
RefusedOnlyBesideOthers ==
  [][SymbolsPerCycle * CyclesInWindow =< MaxRequests /\ caller = "loop" =>
       \A s \in Symbols : Refused(s) => \E i \in 1..CyclesInWindow : others[i]]_vars

(* "Candidates are refreshed round-robin": while cycles go on, each one    *)
(* gets its turn again and again.  Refuted: candidates that keep failing   *)
(* stay stale and age, and with them at the top the rest never has a turn. *)
RoundRobin ==
  []<>(phase = "refresh") => \A s \in Symbols : []<>Refreshing(s)
=============================================================================
