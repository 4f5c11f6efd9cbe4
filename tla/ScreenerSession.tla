--------------------------- MODULE ScreenerSession ---------------------------
(***************************************************************************)
(* ScreenerSession (session_state.py): the candidate store of the current  *)
(* screen, and the refresh passes that run over it.                        *)
(*                                                                         *)
(* self.states maps a symbol to a CandidateState object.  Discovery, the   *)
(* HTTP handlers and the refresh threads change the map and the objects    *)
(* under one lock, but a refresh pass looks its object up, lets the lock   *)
(* go for as long as the provider takes, and commits to the object it      *)
(* looked up -- which may have left the screen in between.  Objects are    *)
(* therefore kept apart from symbols here.                                 *)
(*                                                                         *)
(* A pass is a number: the count of collections so far when it collected.  *)
(* It stands for the collection and its snapshot_at, which the code always *)
(* assigns together.  One rule outcome stands for the outcomes of the      *)
(* rules.  Left out: what a row shows, scores, names, ranks and texts.     *)
(***************************************************************************)
EXTENDS Integers, FiniteSets, Sequences

CONSTANTS
  Symbols,
  Workers,     (* threads that run refresh_symbol                           *)
  Objects,     (* CandidateState objects alive at one time                  *)
  Outcomes,    (* outcomes a rule can have                                  *)
  Cap,         (* CURRENT_SCREEN_CAP                                        *)
  MaxHistory,  (* MAX_HISTORY_PER_SYMBOL                                    *)
  MaxPass,     (* bound: collections                                        *)
  MaxLeaves,   (* bound: times a symbol leaves the screen                   *)
  NoState, NoSymbol, NoOutcome

ASSUME StoreAssumption ==
  /\ IsFiniteSet(Symbols)
  /\ NoState \notin Objects
  /\ NoSymbol \notin Symbols
  /\ NoOutcome \notin Outcomes
ASSUME BoundsAssumption ==
  /\ Cap \in Nat \ {0}
  /\ MaxHistory \in Nat \ {0}
  /\ MaxPass \in Nat
  /\ MaxLeaves \in Nat

VARIABLES
  states,      (* self.states: the object of each symbol, or NoState        *)
  info,        (* the fields of each object                                 *)
  passes,      (* collections so far                                        *)
  pc,          (* where each worker is in refresh_symbol                    *)
  symbol,      (* its argument                                              *)
  held,        (* the object it looked up                                   *)
  pass,        (* the pass it is on                                         *)
  leaves,      (* history: times each symbol left the screen                *)
  began,       (* history: leaves[symbol] when the worker looked it up      *)
  asked        (* history: symbols the user added, until the user clears    *)

workerVars == <<pc, symbol, held, pass, began>>
vars == <<states, info, passes, leaves, asked, workerVars>>

Passes == 0..MaxPass        (* 0: none *)
Profiles == {"MANUAL_SYMBOL", "DISCOVERED"}   (* by a scan or by Finviz *)
Places == {"idle", "collect", "commit"}
Change == [from : Outcomes, to : Outcomes]

Fields == [profile : Profiles,
           inScan : BOOLEAN,
           collection : Passes,       (* collection, and its snapshot_at    *)
           usable : BOOLEAN,          (* it resolved and has bars           *)
           evaluation : Passes,       (* the pass whose bars were evaluated *)
           stale : BOOLEAN,
           outcome : Outcomes \cup {NoOutcome},   (* last_outcomes          *)
           transitions : Seq(Change),
           history : Seq(Passes),
           since : 0..MaxLeaves]      (* history: `began` of the collection *)

TypeOK ==
  /\ states \in [Symbols -> Objects \cup {NoState}]
  /\ info \in [Objects -> Fields]
  /\ passes \in Passes
  /\ pc \in [Workers -> Places]
  /\ symbol \in [Workers -> Symbols \cup {NoSymbol}]
  /\ held \in [Workers -> Objects \cup {NoState}]
  /\ \A w \in Workers : pc[w] # "idle" => held[w] \in Objects
  /\ pass \in [Workers -> Passes]
  /\ leaves \in [Symbols -> 0..MaxLeaves]
  /\ began \in [Workers -> 0..MaxLeaves]
  /\ asked \subseteq Symbols

(* CandidateState(candidate=...): every other field at its default. *)
NewState(profile) ==
  [profile |-> profile, inScan |-> TRUE, collection |-> 0, usable |-> FALSE,
   evaluation |-> 0, stale |-> FALSE, outcome |-> NoOutcome,
   transitions |-> <<>>, history |-> <<>>, since |-> 0]

Init ==
  /\ states = [s \in Symbols |-> NoState]
  /\ info = [o \in Objects |-> NewState("DISCOVERED")]
  /\ passes = 0
  /\ pc = [w \in Workers |-> "idle"]
  /\ symbol = [w \in Workers |-> NoSymbol]
  /\ held = [w \in Workers |-> NoState]
  /\ pass = [w \in Workers |-> 0]
  /\ leaves = [s \in Symbols |-> 0]
  /\ began = [w \in Workers |-> 0]
  /\ asked = {}
-----------------------------------------------------------------------------
OnScreen == {s \in Symbols : states[s] # NoState}
Manual == {s \in OnScreen : info[states[s]].profile = "MANUAL_SYMBOL"}
Scanned == OnScreen \ Manual

(* Objects nothing refers to: free to stand for a new CandidateState. *)
FreeObjects == {o \in Objects : /\ \A s \in Symbols : states[s] # o
                                /\ \A w \in Workers : held[w] # o}

(* The symbols `gone` leave the screen. *)
Leave(gone) ==
  /\ \A s \in gone : leaves[s] < MaxLeaves
  /\ leaves' = [s \in Symbols |-> IF s \in gone THEN leaves[s] + 1 ELSE leaves[s]]

(* del seq[:-n] *)
KeepLast(seq, n) == IF Len(seq) <= n THEN seq ELSE SubSeq(seq, Len(seq) - n + 1, Len(seq))
-----------------------------------------------------------------------------
(* refresh_discovery: the scan and the Finviz fetch run unlocked; what     *)
(* they bring is any two sets of symbols.                                  *)

(* Nothing found: the screen is retained, out of the current scan. *)
DiscoveryEmpty ==
  /\ info' = [o \in Objects |->
                IF \E s \in Symbols : states[s] = o
                THEN [info[o] EXCEPT !.inScan = FALSE] ELSE info[o]]
  /\ UNCHANGED <<states, passes, leaves, asked, workerVars>>

(* Seeded bug: the union is not cut to the cap. *)
Untrimmed(top, found) == top = found

(* The best-scored Cap of the union; scores are abstracted. *)
Trimmed(top, found) ==
  /\ top \subseteq found
  /\ \/ Cardinality(top) = Cap
     \/ top = found /\ Cardinality(top) < Cap

(* Seeded bug: the manual symbols are not added back. *)
KeepTop(top) == top

KeepOf(top) == top \cup Manual

(* Seeded bugs: a known symbol gets a new CandidateState; in_current_scan  *)
(* is not set again after an empty scan.                                   *)
Rebuilt(existing) == NewState("DISCOVERED")
RelabelledOnly(existing) == [existing EXCEPT !.profile = "DISCOVERED"]

(* One of the best that was on the screen: re-labelled, manual or not. *)
Refound(existing) == [existing EXCEPT !.inScan = TRUE, !.profile = "DISCOVERED"]

(* Something found: the top of the union, and every symbol that is manual  *)
(* at this moment, make the new screen.  A symbol that was there keeps its *)
(* object; new gives the others an unused one.  The union is empty when    *)
(* the scan found nothing and no row that Finviz returned is usable.       *)
DiscoveryFinds(ibkr, finviz, top, new) ==
  /\ Cardinality(ibkr) <= Cap /\ Cardinality(finviz) <= Cap
  /\ Trimmed(top, ibkr \cup finviz)
  /\ \A s, r \in top \ OnScreen : s # r => new[s] # new[r]
  /\ states' = [s \in Symbols |-> IF s \notin KeepOf(top) THEN NoState
                                  ELSE IF s \in OnScreen THEN states[s] ELSE new[s]]
  /\ info' = [o \in Objects |->
       IF \E s \in top \ OnScreen : new[s] = o THEN NewState("DISCOVERED")
       ELSE IF \E s \in top : states[s] = o THEN Refound(info[o])
       ELSE IF \E s \in Manual : states[s] = o
       THEN [info[o] EXCEPT !.inScan = \E s \in Manual \cap ibkr : states[s] = o]
       ELSE info[o]]
  /\ Leave(OnScreen \ KeepOf(top))
  /\ UNCHANGED <<passes, asked, workerVars>>

(* add_manual_symbols: one valid ticker; one already there is left alone. *)
AddManual(s, o) ==
  /\ s \notin OnScreen
  /\ o \in FreeObjects
  /\ states' = [states EXCEPT ![s] = o]
  /\ info' = [info EXCEPT ![o] = NewState("MANUAL_SYMBOL")]
  /\ asked' = asked \cup {s}
  /\ UNCHANGED <<passes, leaves, workerVars>>

(* clear() *)
Clear ==
  /\ states' = [s \in Symbols |-> NoState]
  /\ Leave(OnScreen)
  /\ asked' = {}
  /\ UNCHANGED <<info, passes, workerVars>>
-----------------------------------------------------------------------------
(* refresh_symbol: the lookup, the collection, and one of four commits.    *)

(* Seeded bug: a symbol that is not on the screen is not turned away. *)
LookUpAny(w, s) ==
  /\ pc[w] = "idle"
  /\ pc' = [pc EXCEPT ![w] = "collect"]
  /\ symbol' = [symbol EXCEPT ![w] = s]
  /\ held' = [held EXCEPT ![w] = states[s]]
  /\ began' = [began EXCEPT ![w] = leaves[s]]
  /\ UNCHANGED <<states, info, passes, leaves, asked, pass>>

LookUp(w, s) ==
  /\ pc[w] = "idle"
  /\ s \in OnScreen
  /\ pc' = [pc EXCEPT ![w] = "collect"]
  /\ symbol' = [symbol EXCEPT ![w] = s]
  /\ held' = [held EXCEPT ![w] = states[s]]
  /\ began' = [began EXCEPT ![w] = leaves[s]]
  /\ UNCHANGED <<states, info, passes, leaves, asked, pass>>

(* provider.collect_symbol, outside the lock; what it returned, and whether *)
(* evaluate_current raises, shows in the commit.                            *)
Collect(w) ==
  /\ pc[w] = "collect"
  /\ passes < MaxPass
  /\ passes' = passes + 1
  /\ pass' = [pass EXCEPT ![w] = passes + 1]
  /\ pc' = [pc EXCEPT ![w] = "commit"]
  /\ UNCHANGED <<states, info, leaves, asked, symbol, held, began>>

(* Seeded bug: the symbol is looked up again before the commit. *)
TargetBySymbol(w) ==
  IF symbol[w] \in OnScreen THEN states[symbol[w]] ELSE held[w]

(* The object a commit writes to: the one looked up, on the screen or not. *)
Target(w) == held[w]

(* One locked block of refresh_symbol, and its return, or its end in an    *)
(* exception.                                                              *)
Commits(w, result) ==
  /\ pc[w] = "commit"
  /\ info' = [info EXCEPT ![Target(w)] = result]
  /\ pc' = [pc EXCEPT ![w] = "idle"]
  /\ symbol' = [symbol EXCEPT ![w] = NoSymbol]
  /\ held' = [held EXCEPT ![w] = NoState]
  /\ pass' = [pass EXCEPT ![w] = 0]
  /\ began' = [began EXCEPT ![w] = 0]
  /\ UNCHANGED <<states, passes, leaves, asked>>

(* The collection of the pass takes its place. *)
Holding(old, w, usable) ==
  [old EXCEPT !.collection = pass[w], !.usable = usable, !.since = began[w]]

(* Seeded bug: the failed collection replaces the one at hand. *)
FailureReplaces(old, w) == [Holding(old, w, FALSE) EXCEPT !.stale = TRUE]

(* Unresolved or without bars: stale, and the object keeps the collection  *)
(* it has; it takes this one only when it has none.                        *)
AfterFailure(old, w) ==
  [(IF old.collection # 0 THEN old ELSE Holding(old, w, FALSE)) EXCEPT !.stale = TRUE]

CommitFailed(w) == Commits(w, AfterFailure(info[Target(w)], w))

(* Seeded bug: the new collection is not marked stale. *)
UnmarkedFault(old, w) == Holding(old, w, TRUE)

(* evaluate_current raised: the new collection, stale, beside whatever     *)
(* evaluation the object had.                                              *)
AfterFault(old, w) == [Holding(old, w, TRUE) EXCEPT !.stale = TRUE]

CommitUnevaluated(w) == Commits(w, AfterFault(info[Target(w)], w))

(* Seeded bug: last_outcomes is only ever set once. *)
JudgedOnce(old, outcome) ==
  IF old.outcome = NoOutcome THEN [old EXCEPT !.outcome = outcome]
  ELSE IF old.outcome = outcome THEN old
  ELSE [old EXCEPT !.transitions =
          KeepLast(Append(old.transitions, [from |-> old.outcome, to |-> outcome]), MaxHistory)]

(* _record_transitions *)
Judged(old, outcome) ==
  [old EXCEPT !.outcome = outcome,
              !.transitions =
                 IF old.outcome \in {NoOutcome, outcome} THEN old.transitions
                 ELSE KeepLast(Append(old.transitions, [from |-> old.outcome, to |-> outcome]),
                               MaxHistory)]

(* The evaluation takes its place, and _record_transitions. *)
AfterEvaluation(old, w, outcome) ==
  [Judged(Holding(old, w, TRUE), outcome) EXCEPT !.stale = FALSE, !.evaluation = pass[w]]

(* _record_history *)
Recorded(r, w) == [r EXCEPT !.history = KeepLast(Append(r.history, pass[w]), MaxHistory)]

CommitEvaluated(w, outcome) ==
  Commits(w, Recorded(AfterEvaluation(info[Target(w)], w, outcome), w))

(* Building the row of the history point may fetch from Finviz, and raise: *)
(* all that was written before stays, and the point is missing.            *)
CommitUnrecorded(w, outcome) == Commits(w, AfterEvaluation(info[Target(w)], w, outcome))
-----------------------------------------------------------------------------
Discover ==
  \/ DiscoveryEmpty
  \/ \E ibkr, finviz, top \in SUBSET Symbols :
       \E new \in [top \ OnScreen -> FreeObjects] : DiscoveryFinds(ibkr, finviz, top, new)

Refresh(w) ==
  \/ \E s \in Symbols : LookUp(w, s)
  \/ Collect(w)
  \/ CommitFailed(w)
  \/ CommitUnevaluated(w)
  \/ \E outcome \in Outcomes : CommitEvaluated(w, outcome) \/ CommitUnrecorded(w, outcome)

Next ==
  \/ Discover
  \/ \E s \in Symbols, o \in Objects : AddManual(s, o)
  \/ Clear
  \/ \E w \in Workers : Refresh(w)

Spec == Init /\ [][Next]_vars
-----------------------------------------------------------------------------
(* Properties.                                                             *)

Objs == {states[s] : s \in OnScreen}

(* What is shown as current hangs together: on an object that is not       *)
(* marked stale the collection is usable and the evaluation is of that very *)
(* collection.  Passes of several threads over one object, a pass that     *)
(* fails or raises after another succeeded, and one that raises with only  *)
(* its history point missing, never put parts of two passes under a fresh  *)
(* mark.  The history may end at an earlier pass than the one shown.       *)
FreshIsConsistent ==
  \A o \in Objs : ~info[o].stale /\ info[o].collection # 0 =>
    /\ info[o].usable
    /\ info[o].evaluation = info[o].collection

(* The research-state changes of a symbol tell one story: each starts at   *)
(* the outcome the one before ended at, and the last one ends at the       *)
(* outcome the next evaluation is compared with.                           *)
TransitionsChain ==
  \A o \in Objs : LET story == info[o].transitions IN
    /\ \A i \in 1..Len(story) : story[i].from # story[i].to
    /\ \A i \in 1..Len(story) - 1 : story[i].to = story[i + 1].from
    /\ Len(story) > 0 => story[Len(story)].to = info[o].outcome

(* A pass that was under way when the user cleared the screen, or when the *)
(* symbol fell out of discovery, leaves no trace on the symbol if it comes *)
(* back: what it shows was looked up since.                                *)
NothingSurvivesLeaving ==
  \A s \in OnScreen :
    info[states[s]].collection # 0 => info[states[s]].since = leaves[s]

(* "Hard max candidates on the CURRENT screen after discovery union +      *)
(* score trim": manual symbols apart, however they joined and left.        *)
ScreenBounded == Cardinality(Scanned) <= Cap

(* Discovered symbols agree on whether the latest scan found them: an      *)
(* empty scan takes them all out, and no later one leaves one out.         *)
ScanFlagAgrees ==
  \A s, r \in Scanned : info[states[s]].inScan = info[states[r]].inScan

(* A failed refresh, or any other step, never takes the usable snapshot    *)
(* from a symbol that stays on the screen, whichever pass commits first.    *)
RetainsUsable ==
  [][\A s \in OnScreen : states'[s] = states[s] /\ info[states[s]].usable =>
       info'[states[s]].usable]_vars

(* "History is retained for symbols that remain": across a discovery, and  *)
(* any other step, a symbol that stays keeps its object, and the object's  *)
(* history and transitions never shrink.                                   *)
HistoryRetained ==
  [][\A s \in OnScreen : states'[s] # NoState =>
       /\ states'[s] = states[s]
       /\ Len(info'[states[s]].history) >= Len(info[states[s]].history)
       /\ Len(info'[states[s]].transitions) >= Len(info[states[s]].transitions)]_vars

(* A symbol that is labelled manual leaves the screen by clear() alone.    *)
ManualLeavesByClear ==
  [][\A s \in Manual : states'[s] = NoState => OnScreen' = {}]_vars

(* The docstring of refresh_discovery: "manual symbols are always kept".   *)
(* Refuted: a scan that also finds the symbol re-labels it, and the next   *)
(* scan that does not drops it, with its history.                          *)
ManualAlwaysKept == asked \subseteq OnScreen
=============================================================================
