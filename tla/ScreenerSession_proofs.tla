----------------------- MODULE ScreenerSession_proofs -----------------------
(***************************************************************************)
(* ScreenerSession holds, for every number of symbols, threads, objects,   *)
(* outcomes and passes: what a record shows is coherent, nothing a symbol  *)
(* left behind returns with it, and the screen stays within its cap.       *)
(*                                                                         *)
(* What a record shows is stated of every object, on the screen or not: a  *)
(* pass commits to objects that left, and only the objects a pass holds    *)
(* matter to it.  That nothing survives leaving needs Tracking: an object  *)
(* both held and on the screen is on it since the pass began.              *)
(***************************************************************************)
EXTENDS ScreenerSession, SequenceTheorems, FiniteSetTheorems, TLAPS

Coherent(r) ==
  ~r.stale /\ r.collection # 0 =>
    /\ r.usable
    /\ r.evaluation = r.collection

Chained(story, outcome) ==
  /\ \A i \in 1..Len(story) : story[i].from # story[i].to
  /\ \A i \in 1..Len(story) - 1 : story[i].to = story[i + 1].from
  /\ Len(story) > 0 => story[Len(story)].to = outcome

RecordOK(r) ==
  /\ r \in Fields
  /\ Coherent(r)
  /\ Chained(r.transitions, r.outcome)
  /\ Len(r.transitions) <= MaxHistory
  /\ Len(r.history) <= MaxHistory
  /\ r.usable => r.collection # 0

(* Each object is one symbol's, and the object a pass holds, if it is on   *)
(* the screen, is there under the pass's symbol since the pass began.      *)
Tracking ==
  /\ \A s, r \in Symbols : states[s] = states[r] /\ states[s] # NoState => s = r
  /\ \A w \in Workers, s \in Symbols :
       pc[w] # "idle" /\ held[w] = states[s] => began[w] = leaves[s]

(* A pass that is to commit has a number, which 0 is not. *)
Numbered == \A w \in Workers : pc[w] = "commit" => pass[w] # 0

RecordsOK == \A o \in Objects : RecordOK(info[o])

IInv == TypeOK /\ RecordsOK /\ Numbered /\ Tracking /\ NothingSurvivesLeaving
-----------------------------------------------------------------------------
USE StoreAssumption, BoundsAssumption

(* KeepLast returns the last elements, in order, and at most n of them. *)
LEMMA KeepLastProperties ==
  ASSUME NEW S, NEW seq \in Seq(S), NEW n \in Nat \ {0}
  PROVE  /\ KeepLast(seq, n) \in Seq(S)
         /\ Len(KeepLast(seq, n)) = IF Len(seq) <= n THEN Len(seq) ELSE n
         /\ \A i \in 1..Len(KeepLast(seq, n)) :
              KeepLast(seq, n)[i] = seq[i + Len(seq) - Len(KeepLast(seq, n))]
<1>1. CASE Len(seq) <= n
  <2>1. KeepLast(seq, n) = seq
    BY <1>1 DEF KeepLast
  <2> QED
    BY <1>1, <2>1
<1>2. CASE ~(Len(seq) <= n)
  <2> DEFINE m == Len(seq) - n + 1
  <2>1. m \in Int /\ Len(seq) \in Int /\ m <= Len(seq) /\ m >= 1 /\ Len(seq) - m + 1 = n
    BY <1>2
  <2>2. \A i \in m..Len(seq) : seq[i] \in S
    BY <2>1
  <2>3. KeepLast(seq, n) = SubSeq(seq, m, Len(seq))
    BY <1>2 DEF KeepLast
  <2> HIDE DEF m
  <2>4. /\ SubSeq(seq, m, Len(seq)) \in Seq(S)
        /\ Len(SubSeq(seq, m, Len(seq))) = n
        /\ \A i \in 1..n : SubSeq(seq, m, Len(seq))[i] = seq[m + i - 1]
    BY <2>1, <2>2, SubSeqProperties
  <2>5. \A i \in 1..n : m + i - 1 = i + Len(seq) - n
    BY <2>1 DEF m
  <2> QED
    BY <1>2, <2>3, <2>4, <2>5
<1> QED
  BY <1>1, <1>2

(* A chained story that ends where the next change begins stays chained    *)
(* with that change, and however much of its beginning is cut off.         *)
LEMMA StoryGrows ==
  ASSUME NEW story \in Seq(Change), NEW from \in Outcomes, NEW to \in Outcomes,
         NEW n \in Nat \ {0}, from # to, Chained(story, from)
  PROVE  Chained(KeepLast(Append(story, [from |-> from, to |-> to]), n), to)
<1> DEFINE change == [from |-> from, to |-> to]
           longer == Append(story, change)
           kept == KeepLast(longer, n)
<1>1. change \in Change /\ change.from = from /\ change.to = to
  BY DEF Change
<1> HIDE DEF change
<1>2. /\ longer \in Seq(Change)
      /\ Len(longer) = Len(story) + 1
      /\ \A i \in 1..Len(story) : longer[i] = story[i]
      /\ longer[Len(story) + 1] = change
  BY <1>1, AppendProperties
<1> HIDE DEF longer
<1>3. Chained(longer, to)
  <2>1. \A i \in 1..Len(longer) : longer[i].from # longer[i].to
    BY <1>1, <1>2 DEF Chained
  <2>2. \A i \in 1..Len(longer) - 1 : longer[i].to = longer[i + 1].from
    <3> SUFFICES ASSUME NEW i \in 1..Len(story)
                 PROVE  longer[i].to = longer[i + 1].from
      BY <1>2
    <3>1. CASE i = Len(story)
      BY <3>1, <1>1, <1>2 DEF Chained
    <3>2. CASE i # Len(story)
      BY <3>2, <1>1, <1>2 DEF Chained
    <3> QED
      BY <3>1, <3>2
  <2> QED
    BY <2>1, <2>2, <1>1, <1>2 DEF Chained
<1>a. /\ kept \in Seq(Change)
      /\ Len(kept) = IF Len(longer) <= n THEN Len(longer) ELSE n
      /\ \A i \in 1..Len(kept) : kept[i] = longer[i + Len(longer) - Len(kept)]
  BY <1>2, KeepLastProperties
<1> HIDE DEF kept
<1>4. /\ Len(kept) \in Nat /\ Len(longer) \in Nat
      /\ Len(kept) > 0 /\ Len(kept) <= Len(longer)
  BY <1>2, <1>a
<1> DEFINE d == Len(longer) - Len(kept)
<1>5. d \in Nat /\ \A i \in 1..Len(kept) : kept[i] = longer[i + d] /\ i + d \in 1..Len(longer)
  <2>1. d \in Nat
    BY <1>4
  <2>2. \A i \in 1..Len(kept) : i + Len(longer) - Len(kept) = i + d /\ i + d \in 1..Len(longer)
    BY <1>4
  <2> QED
    BY <1>a, <2>1, <2>2
<1>6. Len(kept) + d = Len(longer)
  BY <1>2, <1>4
<1> HIDE DEF d
<1>7. \A i \in 1..Len(kept) : kept[i].from # kept[i].to
  BY <1>3, <1>5 DEF Chained
<1>8. \A i \in 1..Len(kept) - 1 : kept[i].to = kept[i + 1].from
  <2> SUFFICES ASSUME NEW i \in 1..Len(kept) - 1
               PROVE  kept[i].to = kept[i + 1].from
    OBVIOUS
  <2>1. kept[i] = longer[i + d] /\ kept[i + 1] = longer[(i + d) + 1]
    <3>1. i \in 1..Len(kept) /\ i + 1 \in 1..Len(kept) /\ (i + 1) + d = (i + d) + 1
      BY <1>4, <1>5
    <3>2. kept[i] = longer[i + d] /\ kept[i + 1] = longer[(i + 1) + d]
      BY <1>5, <3>1
    <3> QED
      BY <3>1, <3>2
  <2>2. i + d \in 1..Len(longer) - 1
    BY <1>2, <1>4, <1>5, <1>6
  <2> QED
    BY <1>3, <2>1, <2>2 DEF Chained
<1>9. kept[Len(kept)] = longer[Len(longer)]
  BY <1>4, <1>5, <1>6
<1> QED
  BY <1>2, <1>3, <1>4, <1>7, <1>8, <1>9 DEF Chained, kept, longer, change

(* A new CandidateState is in order. *)
LEMMA NewStateOK ==
  ASSUME NEW profile \in Profiles
  PROVE  RecordOK(NewState(profile))
  BY DEF RecordOK, NewState, Fields, Coherent, Chained, Passes

(* So is what discovery makes of a record that is. *)
LEMMA DiscoveryKeepsOK ==
  ASSUME NEW r, RecordOK(r), NEW flag \in BOOLEAN
  PROVE  RecordOK(Refound(r)) /\ RecordOK([r EXCEPT !.inScan = flag])
  BY DEF RecordOK, Refound, Fields, Coherent, Profiles
-----------------------------------------------------------------------------
(* And what a pass makes of one, in each of its three ends. *)

LEMMA FailureOK ==
  ASSUME TypeOK, NEW w \in Workers, pass[w] # 0, NEW r, RecordOK(r)
  PROVE  RecordOK(AfterFailure(r, w)) /\ RecordOK(AfterFault(r, w))
  BY DEF RecordOK, AfterFailure, AfterFault, Holding, Fields, Coherent, TypeOK

LEMMA JudgedProperties ==
  ASSUME NEW r, RecordOK(r), NEW outcome \in Outcomes
  PROVE  /\ Judged(r, outcome) \in Fields
         /\ Chained(Judged(r, outcome).transitions, outcome)
         /\ Judged(r, outcome).outcome = outcome
         /\ Len(Judged(r, outcome).transitions) <= MaxHistory
         /\ Len(Judged(r, outcome).transitions) >= Len(r.transitions)
         /\ Judged(r, outcome).history = r.history
<1> DEFINE change == [from |-> r.outcome, to |-> outcome]
           longer == Append(r.transitions, change)
           kept == KeepLast(longer, MaxHistory)
<1>0. r \in Fields /\ r.transitions \in Seq(Change) /\ r.outcome \in Outcomes \cup {NoOutcome}
  BY DEF RecordOK, Fields
<1>1. CASE r.outcome \in {NoOutcome, outcome}
  <2>1. Chained(r.transitions, outcome)
    <3>1. CASE r.outcome = outcome
      BY <3>1 DEF RecordOK
    <3>2. CASE r.outcome = NoOutcome
      <4>1. Len(r.transitions) = 0
        <5> SUFFICES ASSUME Len(r.transitions) # 0 PROVE FALSE
          OBVIOUS
        <5>1. Len(r.transitions) \in 1..Len(r.transitions) /\ Len(r.transitions) > 0
          BY <1>0
        <5>2. r.transitions[Len(r.transitions)] \in Change
          BY <1>0, <5>1
        <5>3. r.transitions[Len(r.transitions)].to = NoOutcome
          BY <5>1, <3>2 DEF RecordOK, Chained
        <5> QED
          BY <5>2, <5>3 DEF Change
      <4> QED
        BY <1>0, <4>1 DEF RecordOK, Chained
    <3> QED
      BY <1>1, <3>1, <3>2
  <2>2. Judged(r, outcome) = [r EXCEPT !.outcome = outcome, !.transitions = r.transitions]
    BY <1>1 DEF Judged
  <2>3. Judged(r, outcome) \in Fields
    BY <1>0, <2>2 DEF Fields
  <2>4. /\ Judged(r, outcome).transitions = r.transitions
        /\ Judged(r, outcome).outcome = outcome
        /\ Judged(r, outcome).history = r.history
    BY <1>0, <2>2 DEF Fields
  <2>5. Len(r.transitions) <= MaxHistory /\ Len(r.transitions) >= Len(r.transitions)
    BY <1>0 DEF RecordOK
  <2> QED
    BY <2>1, <2>3, <2>4, <2>5
<1>2. CASE r.outcome \notin {NoOutcome, outcome}
  <2>1. change \in Change
    BY <1>0, <1>2 DEF Change
  <2>2. longer \in Seq(Change) /\ Len(longer) = Len(r.transitions) + 1
    BY <1>0, <2>1, AppendProperties
  <2>4. Chained(kept, outcome)
    BY <1>0, <1>2, StoryGrows DEF RecordOK
  <2> HIDE DEF longer
  <2>a. /\ kept \in Seq(Change)
        /\ Len(kept) = IF Len(longer) <= MaxHistory THEN Len(longer) ELSE MaxHistory
    BY <2>2, KeepLastProperties
  <2> HIDE DEF kept, change
  <2>3. /\ kept \in Seq(Change)
        /\ Len(kept) <= MaxHistory
        /\ Len(r.transitions) <= MaxHistory => Len(kept) >= Len(r.transitions)
    BY <1>0, <2>2, <2>a
  <2>5. Judged(r, outcome) = [r EXCEPT !.outcome = outcome, !.transitions = kept]
    BY <1>2 DEF Judged, kept, longer, change
  <2> QED
    BY <1>0, <2>3, <2>4, <2>5 DEF RecordOK, Fields
<1> QED
  BY <1>1, <1>2

LEMMA EvaluationOK ==
  ASSUME TypeOK, NEW w \in Workers, pass[w] # 0, NEW r, RecordOK(r), NEW outcome \in Outcomes
  PROVE  /\ RecordOK(AfterEvaluation(r, w, outcome))
         /\ Len(AfterEvaluation(r, w, outcome).transitions) >= Len(r.transitions)
         /\ AfterEvaluation(r, w, outcome).history = r.history
<1> DEFINE taken == Holding(r, w, TRUE)
           told == Judged(taken, outcome)
           after == AfterEvaluation(r, w, outcome)
<1>1. r \in Fields /\ pass[w] \in Passes /\ began[w] \in 0..MaxLeaves
  BY DEF RecordOK, TypeOK, Fields
<1>2. [taken EXCEPT !.stale = TRUE] \in Fields /\ RecordOK([taken EXCEPT !.stale = TRUE])
  BY <1>1, FailureOK DEF AfterFault, RecordOK
<1>3. /\ told \in Fields
      /\ Chained(told.transitions, outcome)
      /\ told.outcome = outcome
      /\ Len(told.transitions) <= MaxHistory
      /\ Len(told.transitions) >= Len(r.transitions)
      /\ told.collection = pass[w] /\ told.usable
  <2> DEFINE marked == [taken EXCEPT !.stale = TRUE]
  <2>1. /\ Judged(marked, outcome) \in Fields
        /\ Chained(Judged(marked, outcome).transitions, outcome)
        /\ Len(Judged(marked, outcome).transitions) <= MaxHistory
        /\ Len(Judged(marked, outcome).transitions) >= Len(marked.transitions)
    BY <1>2, JudgedProperties
  <2>2. taken \in Fields /\ taken.transitions = r.transitions /\ taken.outcome = r.outcome
        /\ marked.transitions = r.transitions /\ marked.outcome = r.outcome
        /\ taken.collection = pass[w] /\ taken.usable
    BY <1>1 DEF Holding, Fields
  <2>3. /\ told.transitions = Judged(marked, outcome).transitions
        /\ told.outcome = outcome
        /\ told.collection = taken.collection /\ told.usable = taken.usable
    BY <1>2, <2>2 DEF Judged, Fields
  <2>4. told.transitions \in Seq(Change)
    BY <2>1, <2>3 DEF Fields
  <2>5. told = [taken EXCEPT !.outcome = told.outcome, !.transitions = told.transitions]
    BY <2>2 DEF Judged, Fields
  <2>6. told \in Fields
    <3>1. taken \in Fields /\ told.outcome \in Outcomes \cup {NoOutcome}
      BY <2>2, <2>3
    <3> HIDE DEF taken, told, marked
    <3> QED
      BY <2>4, <2>5, <3>1 DEF Fields
  <2> QED
    BY <2>1, <2>2, <2>3, <2>6
<1>4. taken.history = r.history /\ told.history = r.history
  BY <1>1 DEF Holding, Judged, Fields
<1> HIDE DEF taken, told
<1>5. after = [told EXCEPT !.stale = FALSE, !.evaluation = pass[w]]
  BY DEF AfterEvaluation, told, taken
<1>6. after \in Fields
  BY <1>1, <1>3, <1>5 DEF Fields
<1>7. /\ after.stale = FALSE /\ after.evaluation = pass[w] /\ after.history = r.history
      /\ after.collection = pass[w] /\ after.usable /\ after.outcome = outcome
      /\ after.transitions = told.transitions
  BY <1>3, <1>4, <1>5 DEF Fields
<1> HIDE DEF after
<1>8. Coherent(after)
  BY <1>7 DEF Coherent
<1> QED
  BY <1>1, <1>3, <1>6, <1>7, <1>8 DEF RecordOK, after

(* A history point more, with the oldest gone when there are too many. *)
LEMMA RecordedOK ==
  ASSUME TypeOK, NEW w \in Workers, NEW r, RecordOK(r)
  PROVE  RecordOK(Recorded(r, w)) /\ Len(Recorded(r, w).history) >= Len(r.history)
<1> DEFINE longer == Append(r.history, pass[w])
           history == KeepLast(longer, MaxHistory)
           after == Recorded(r, w)
<1>1. r \in Fields /\ pass[w] \in Passes /\ r.history \in Seq(Passes)
  BY DEF RecordOK, TypeOK, Fields
<1>2. longer \in Seq(Passes) /\ Len(longer) = Len(r.history) + 1
  BY <1>1, AppendProperties
<1>3. /\ history \in Seq(Passes)
      /\ Len(history) <= MaxHistory
      /\ Len(history) >= Len(r.history)
  <2> HIDE DEF longer
  <2>1. /\ history \in Seq(Passes)
        /\ Len(history) = IF Len(longer) <= MaxHistory THEN Len(longer) ELSE MaxHistory
    BY <1>2, KeepLastProperties
  <2>2. Len(r.history) <= MaxHistory /\ Len(r.history) \in Nat
    BY <1>1 DEF RecordOK
  <2> QED
    BY <1>2, <2>1, <2>2
<1> HIDE DEF history
<1>4. after = [r EXCEPT !.history = history]
  BY DEF Recorded, history
<1>5. after \in Fields
  BY <1>1, <1>3, <1>4 DEF Fields
<1>6. /\ after.history = history /\ after.transitions = r.transitions
      /\ after.outcome = r.outcome /\ after.stale = r.stale /\ after.usable = r.usable
      /\ after.collection = r.collection /\ after.evaluation = r.evaluation
  BY <1>1, <1>4 DEF Fields
<1> HIDE DEF after
<1> QED
  BY <1>3, <1>5, <1>6 DEF RecordOK, Coherent, after

(* Either end of an evaluated pass commits such a record. *)
LEMMA EvaluatedCommits ==
  ASSUME IInv, NEW w \in Workers, NEW outcome \in Outcomes,
         CommitEvaluated(w, outcome) \/ CommitUnrecorded(w, outcome)
  PROVE  \E result :
           /\ Commits(w, result)
           /\ RecordOK(result)
           /\ Len(result.history) >= Len(info[held[w]].history)
           /\ Len(result.transitions) >= Len(info[held[w]].transitions)
           /\ result.usable
           /\ result.since = began[w]
           /\ result.profile = info[held[w]].profile
           /\ result.inScan = info[held[w]].inScan
<1> DEFINE old == info[held[w]]
           after == AfterEvaluation(old, w, outcome)
           recorded == Recorded(after, w)
<1>1. pc[w] = "commit"
  BY DEF CommitEvaluated, CommitUnrecorded, Commits
<1>2. TypeOK /\ RecordOK(old) /\ pass[w] # 0 /\ old \in Fields
  BY <1>1 DEF IInv, RecordsOK, Numbered, TypeOK
<1>3. /\ RecordOK(after)
      /\ Len(after.transitions) >= Len(old.transitions)
      /\ after.history = old.history
  BY <1>2, EvaluationOK
<1>4. after.usable /\ after.since = began[w] /\ after.profile = old.profile
      /\ after.inScan = old.inScan
  BY <1>2 DEF AfterEvaluation, Judged, Holding, Fields
<1>5. Len(after.history) >= Len(old.history)
  BY <1>2, <1>3 DEF Fields
<1> HIDE DEF after
<1>6. after \in Fields
  BY <1>3 DEF RecordOK
<1>7. RecordOK(recorded) /\ Len(recorded.history) >= Len(after.history)
  BY <1>2, <1>3, RecordedOK
<1>8. /\ recorded.transitions = after.transitions /\ recorded.usable = after.usable
      /\ recorded.since = after.since /\ recorded.profile = after.profile
      /\ recorded.inScan = after.inScan
  BY <1>6 DEF Recorded, Fields
<1> HIDE DEF recorded
<1>9. CASE CommitEvaluated(w, outcome)
  <2>1. Commits(w, recorded)
    BY <1>9 DEF CommitEvaluated, Target, recorded, after
  <2> QED
    BY <1>3, <1>4, <1>7, <1>8, <2>1
<1>10. CASE CommitUnrecorded(w, outcome)
  <2>1. Commits(w, after)
    BY <1>10 DEF CommitUnrecorded, Target, after
  <2> QED
    BY <1>3, <1>4, <1>5, <2>1
<1> QED
  BY <1>9, <1>10
-----------------------------------------------------------------------------
(* The steps.                                                              *)

LEMMA InitIInv == Init => IInv
<1> SUFFICES ASSUME Init PROVE IInv
  OBVIOUS
<1>1. RecordOK(NewState("DISCOVERED"))
  BY NewStateOK DEF Profiles
<1>2. RecordsOK
  BY <1>1 DEF Init, RecordsOK
<1>3. TypeOK
  BY <1>1 DEF Init, TypeOK, RecordOK, Passes, Places
<1> QED
  BY <1>2, <1>3 DEF IInv, Init, Numbered, Tracking, NothingSurvivesLeaving, OnScreen

LEMMA EmptyStep == IInv /\ DiscoveryEmpty => IInv'
<1> SUFFICES ASSUME IInv, DiscoveryEmpty PROVE IInv'
  OBVIOUS
<1> USE DEF IInv, DiscoveryEmpty, workerVars
<1>1. RecordsOK'
  BY DiscoveryKeepsOK DEF RecordsOK
<1>2. TypeOK'
  BY <1>1 DEF TypeOK, RecordsOK, RecordOK, Passes
<1>3. Tracking'
  BY DEF Tracking
<1>4. NothingSurvivesLeaving'
  BY DEF NothingSurvivesLeaving, OnScreen, TypeOK
<1> QED
  BY <1>1, <1>2, <1>3, <1>4 DEF Numbered

(* What leaves counts one more, and no more than the bound. *)
LEMMA LeaveType ==
  ASSUME TypeOK, NEW gone, Leave(gone)
  PROVE  /\ leaves' \in [Symbols -> 0..MaxLeaves]
         /\ \A s \in Symbols \ gone : leaves'[s] = leaves[s]
  BY DEF TypeOK, Leave

LEMMA FindsStep ==
  ASSUME IInv, NEW ibkr \in SUBSET Symbols, NEW finviz \in SUBSET Symbols,
         NEW top \in SUBSET Symbols, NEW new \in [top \ OnScreen -> FreeObjects],
         DiscoveryFinds(ibkr, finviz, top, new)
  PROVE  IInv'
<1> USE DEF IInv
<1>1. RecordsOK'
  <2> SUFFICES ASSUME NEW o \in Objects PROVE RecordOK(info'[o])
    BY DEF RecordsOK
  <2>1. RecordOK(info[o])
    BY DEF RecordsOK
  <2> DEFINE flag == \E s \in Manual \cap ibkr : states[s] = o
  <2>3. flag \in BOOLEAN
    OBVIOUS
  <2>2. \/ info'[o] = NewState("DISCOVERED")
        \/ info'[o] = Refound(info[o])
        \/ info'[o] = [info[o] EXCEPT !.inScan = flag]
        \/ info'[o] = info[o]
    BY DEF DiscoveryFinds
  <2> HIDE DEF flag
  <2>4. RecordOK(NewState("DISCOVERED"))
    BY NewStateOK DEF Profiles
  <2> QED
    BY <2>1, <2>2, <2>3, <2>4, DiscoveryKeepsOK
<1>2. Manual \subseteq OnScreen /\ OnScreen \subseteq Symbols /\ FreeObjects \subseteq Objects
  BY DEF Manual, OnScreen, FreeObjects
<1>3. Leave(OnScreen \ KeepOf(top))
  BY DEF DiscoveryFinds
<1>4. TypeOK'
  <2>1. states' \in [Symbols -> Objects \cup {NoState}]
    BY <1>2 DEF TypeOK, DiscoveryFinds, KeepOf, OnScreen
  <2>2. info' \in [Objects -> Fields]
    BY <1>1 DEF RecordsOK, RecordOK, DiscoveryFinds
  <2> QED
    BY <1>3, <2>1, <2>2, LeaveType DEF TypeOK, DiscoveryFinds, workerVars, Passes
(* Where the object of each symbol comes from. *)
<1>5. \A s \in Symbols :
        \/ states'[s] = NoState
        \/ /\ s \in OnScreen /\ states'[s] = states[s]
           /\ leaves'[s] = leaves[s]
        \/ /\ s \in top \ OnScreen /\ states'[s] = new[s] /\ new[s] \in FreeObjects
  <2> SUFFICES ASSUME NEW s \in Symbols, states'[s] # NoState
               PROVE  \/ /\ s \in OnScreen /\ states'[s] = states[s]
                         /\ leaves'[s] = leaves[s]
                      \/ /\ s \in top \ OnScreen /\ states'[s] = new[s]
                         /\ new[s] \in FreeObjects
    OBVIOUS
  <2>1. s \in KeepOf(top)
    BY DEF DiscoveryFinds
  <2>2. CASE s \in OnScreen
    BY <1>3, <2>1, <2>2, LeaveType DEF DiscoveryFinds
  <2>3. CASE s \notin OnScreen
    <3>1. s \in top \ OnScreen
      BY <1>2, <2>1, <2>3 DEF KeepOf
    <3> QED
      BY <2>1, <3>1 DEF DiscoveryFinds
  <2> QED
    BY <2>2, <2>3
<1>6. Tracking'
  <2>1. ASSUME NEW s \in Symbols, NEW r \in Symbols,
               states'[s] = states'[r], states'[s] # NoState
        PROVE  s = r
    <3>1. CASE s \in OnScreen /\ r \in OnScreen
      BY <1>5, <2>1, <3>1 DEF Tracking
    <3>2. CASE s \notin OnScreen /\ r \notin OnScreen
      BY <1>5, <2>1, <3>2 DEF DiscoveryFinds
    <3>3. CASE (s \in OnScreen) # (r \in OnScreen)
      BY <1>5, <2>1, <3>3 DEF FreeObjects
    <3> QED
      BY <3>1, <3>2, <3>3
  <2>2. ASSUME NEW w \in Workers, NEW s \in Symbols, pc'[w] # "idle", held'[w] = states'[s]
        PROVE  began'[w] = leaves'[s]
    <3>1. pc[w] # "idle" /\ held[w] = states'[s] /\ began'[w] = began[w] /\ held[w] \in Objects
      BY <2>2 DEF DiscoveryFinds, workerVars, TypeOK
    <3> QED
      BY <1>5, <3>1 DEF Tracking, FreeObjects
  <2> QED
    BY <2>1, <2>2 DEF Tracking
<1>7. NothingSurvivesLeaving'
  <2> SUFFICES ASSUME NEW s \in Symbols, states'[s] # NoState,
                      info'[states'[s]].collection # 0
               PROVE  info'[states'[s]].since = leaves'[s]
    BY DEF NothingSurvivesLeaving, OnScreen
  <2>1. CASE s \in OnScreen /\ states'[s] = states[s] /\ leaves'[s] = leaves[s]
    <3> DEFINE o == states[s]
    <3>1. o \in Objects /\ info[o] \in Fields
      BY <2>1 DEF OnScreen, TypeOK
    <3>2. ~ \E r \in top \ OnScreen : new[r] = o
      BY <2>1 DEF FreeObjects
    <3>3. info'[o].collection = info[o].collection /\ info'[o].since = info[o].since
      BY <3>1, <3>2 DEF DiscoveryFinds, Refound, Fields
    <3> QED
      BY <2>1, <3>3 DEF NothingSurvivesLeaving
  <2>2. CASE s \in top \ OnScreen /\ states'[s] = new[s] /\ new[s] \in FreeObjects
    <3>1. info'[new[s]] = NewState("DISCOVERED")
      BY <1>2, <2>2 DEF DiscoveryFinds
    <3> QED
      BY <2>2, <3>1 DEF NewState
  <2> QED
    BY <1>5, <2>1, <2>2
<1> QED
  BY <1>1, <1>4, <1>6, <1>7 DEF DiscoveryFinds, workerVars, Numbered

LEMMA AddManualStep ==
  ASSUME IInv, NEW s \in Symbols, NEW o \in Objects, AddManual(s, o)
  PROVE  IInv'
<1> USE DEF IInv, AddManual, workerVars
<1>1. RecordsOK'
  BY NewStateOK DEF RecordsOK, Profiles, TypeOK
<1>2. TypeOK'
  <2>1. info' \in [Objects -> Fields]
    BY <1>1 DEF RecordsOK, RecordOK, TypeOK
  <2> QED
    BY <2>1 DEF TypeOK, Passes
<1>3. Tracking'
  BY DEF Tracking, FreeObjects, TypeOK
<1>4. NothingSurvivesLeaving'
  <2> SUFFICES ASSUME NEW r \in Symbols, states'[r] # NoState,
                      info'[states'[r]].collection # 0
               PROVE  info'[states'[r]].since = leaves'[r]
    BY DEF NothingSurvivesLeaving, OnScreen
  <2>1. r # s
    BY DEF NewState, TypeOK
  <2>2. states'[r] = states[r] /\ states[r] # o
    BY <2>1 DEF FreeObjects, TypeOK
  <2> QED
    BY <2>2 DEF NothingSurvivesLeaving, OnScreen, TypeOK
<1> QED
  BY <1>1, <1>2, <1>3, <1>4 DEF Numbered

LEMMA ClearStep == IInv /\ Clear => IInv'
<1> SUFFICES ASSUME IInv, Clear PROVE IInv'
  OBVIOUS
<1> USE DEF IInv, Clear, workerVars
<1>1. TypeOK'
  BY LeaveType DEF TypeOK, Passes
<1> QED
  BY <1>1 DEF RecordsOK, Numbered, Tracking, NothingSurvivesLeaving, OnScreen, TypeOK

LEMMA LookUpStep ==
  ASSUME IInv, NEW w \in Workers, NEW s \in Symbols, LookUp(w, s)
  PROVE  IInv'
<1> USE DEF IInv, LookUp
<1>1. TypeOK'
  BY DEF TypeOK, OnScreen, Places, Passes
<1>2. Tracking'
  BY DEF Tracking, TypeOK, OnScreen
<1>n. Numbered'
  BY DEF Numbered, TypeOK
<1> QED
  BY <1>1, <1>2, <1>n DEF RecordsOK, NothingSurvivesLeaving, OnScreen

LEMMA CollectStep ==
  ASSUME IInv, NEW w \in Workers, Collect(w)
  PROVE  IInv'
<1> USE DEF IInv, Collect
<1>1. TypeOK'
  BY DEF TypeOK, Places, Passes
<1>2. Tracking'
  BY DEF Tracking, TypeOK
<1>n. Numbered'
  BY DEF Numbered, TypeOK, Passes
<1> QED
  BY <1>1, <1>2, <1>n DEF RecordsOK, NothingSurvivesLeaving, OnScreen

(* A commit of a record that is in order, and that holds the collection it *)
(* had or the one of the pass.                                             *)
LEMMA CommitStep ==
  ASSUME IInv, NEW w \in Workers, NEW result, Commits(w, result), RecordOK(result),
         \/ /\ result.collection = info[held[w]].collection
            /\ result.since = info[held[w]].since
         \/ result.since = began[w]
  PROVE  IInv'
<1> USE DEF IInv, Commits, Target
<1>0. held[w] \in Objects
  BY DEF TypeOK
<1>1. RecordsOK'
  BY DEF RecordsOK, TypeOK
<1>2. TypeOK'
  <2>1. info' \in [Objects -> Fields]
    BY <1>1 DEF RecordsOK, RecordOK, TypeOK
  <2> QED
    BY <2>1 DEF TypeOK, Places, Passes
<1>3. Tracking'
  BY DEF Tracking, TypeOK
<1>4. NothingSurvivesLeaving'
  <2> SUFFICES ASSUME NEW s \in Symbols, states[s] # NoState,
                      info'[states[s]].collection # 0
               PROVE  info'[states[s]].since = leaves[s]
    BY DEF NothingSurvivesLeaving, OnScreen
  <2>1. CASE states[s] = held[w]
    BY <1>0, <2>1 DEF NothingSurvivesLeaving, OnScreen, Tracking, TypeOK
  <2>2. CASE states[s] # held[w]
    BY <2>2 DEF NothingSurvivesLeaving, OnScreen, TypeOK
  <2> QED
    BY <2>1, <2>2
<1>5. Numbered'
  BY DEF Numbered, TypeOK
<1> QED
  BY <1>1, <1>2, <1>3, <1>4, <1>5
-----------------------------------------------------------------------------
LEMMA RefreshStep ==
  ASSUME IInv, NEW w \in Workers, Refresh(w)
  PROVE  IInv'
<1>1. CASE \E s \in Symbols : LookUp(w, s)
  BY <1>1, LookUpStep
<1>2. CASE Collect(w)
  BY <1>2, CollectStep
<1> DEFINE old == info[held[w]]
<1>3. pc[w] = "commit" => RecordOK(old) /\ old \in Fields /\ TypeOK /\ pass[w] # 0
  BY DEF IInv, RecordsOK, Numbered, TypeOK
<1>4. CASE CommitFailed(w)
  <2>1. Commits(w, AfterFailure(old, w)) /\ pc[w] = "commit"
    BY <1>4 DEF CommitFailed, Commits, Target
  <2>2. RecordOK(AfterFailure(old, w))
    BY <1>3, <2>1, FailureOK
  <2>3. \/ /\ AfterFailure(old, w).collection = old.collection
           /\ AfterFailure(old, w).since = old.since
        \/ AfterFailure(old, w).since = began[w]
    BY <1>3, <2>1 DEF AfterFailure, Holding, Fields
  <2> QED
    BY <2>1, <2>2, <2>3, CommitStep
<1>5. CASE CommitUnevaluated(w)
  <2>1. Commits(w, AfterFault(old, w)) /\ pc[w] = "commit"
    BY <1>5 DEF CommitUnevaluated, Commits, Target
  <2>2. RecordOK(AfterFault(old, w))
    BY <1>3, <2>1, FailureOK
  <2>3. AfterFault(old, w).since = began[w]
    BY <1>3, <2>1 DEF AfterFault, Holding, Fields
  <2> QED
    BY <2>1, <2>2, <2>3, CommitStep
<1>6. ASSUME NEW outcome \in Outcomes,
             CommitEvaluated(w, outcome) \/ CommitUnrecorded(w, outcome)
      PROVE  IInv'
  <2> PICK result : Commits(w, result) /\ RecordOK(result) /\ result.since = began[w]
    BY <1>6, EvaluatedCommits
  <2> QED
    BY CommitStep
<1> QED
  BY <1>1, <1>2, <1>4, <1>5, <1>6 DEF Refresh

LEMMA StepIInv == IInv /\ [Next]_vars => IInv'
<1> SUFFICES ASSUME IInv, [Next]_vars PROVE IInv'
  OBVIOUS
<1>1. CASE Discover
  BY <1>1, EmptyStep, FindsStep DEF Discover
<1>2. CASE \E s \in Symbols, o \in Objects : AddManual(s, o)
  BY <1>2, AddManualStep
<1>3. CASE Clear
  BY <1>3, ClearStep
<1>4. CASE \E w \in Workers : Refresh(w)
  BY <1>4, RefreshStep
<1>5. CASE UNCHANGED vars
  BY <1>5 DEF vars, workerVars, IInv, TypeOK, RecordsOK, Numbered, Tracking,
              NothingSurvivesLeaving, OnScreen
<1> QED
  BY <1>1, <1>2, <1>3, <1>4, <1>5 DEF Next

(* The inductive invariant holds. *)
THEOREM Invariance == Spec => []IInv
BY InitIInv, StepIInv, PTL DEF Spec

(* The types. *)
THEOREM TypeCorrect == Spec => []TypeOK
BY Invariance, PTL DEF IInv

(* What is shown as current is the collection and the evaluation of one    *)
(* pass, and usable, even when recording the pass raised (refresh_symbol). *)
THEOREM CurrentIsCoherent == Spec => []FreshIsConsistent
<1>1. IInv => FreshIsConsistent
  BY DEF IInv, RecordsOK, RecordOK, Coherent, FreshIsConsistent, Objs, OnScreen, TypeOK
<1> QED
  BY <1>1, Invariance, PTL

(* The research-state changes of a symbol chain (_record_transitions).     *)
THEOREM StoriesChain == Spec => []TransitionsChain
<1>1. IInv => TransitionsChain
  <2> SUFFICES ASSUME IInv, NEW o \in Objs PROVE Chained(info[o].transitions, info[o].outcome)
    BY DEF TransitionsChain, Chained
  <2> QED
    BY DEF IInv, RecordsOK, RecordOK, Objs, OnScreen, TypeOK
<1> QED
  BY <1>1, Invariance, PTL

(* A pass under way when its symbol left leaves no trace when it returns   *)
(* (refresh_symbol against clear and refresh_discovery).                   *)
THEOREM LeavingIsFinal == Spec => []NothingSurvivesLeaving
BY Invariance, PTL DEF IInv
-----------------------------------------------------------------------------
(* The cap.                                                                *)

(* Manual is decided by the map and the labels alone. *)
LEMMA ScannedKept ==
  ASSUME TypeOK, UNCHANGED states, \A o \in Objects : info'[o].profile = info[o].profile
  PROVE  Scanned' = Scanned
  BY DEF Scanned, Manual, OnScreen, TypeOK

(* A refresh changes neither the labels nor what the latest scan found.     *)
LEMMA CommitKeepsProfile ==
  ASSUME IInv, NEW w \in Workers, Refresh(w)
  PROVE  /\ UNCHANGED states
         /\ \A o \in Objects : info'[o].profile = info[o].profile /\ info'[o].inScan = info[o].inScan
<1> DEFINE old == info[held[w]]
<1>1. CASE (\E s \in Symbols : LookUp(w, s)) \/ Collect(w)
  BY <1>1 DEF LookUp, Collect
<1>2. ASSUME NEW result, Commits(w, result), result.profile = old.profile, result.inScan = old.inScan
      PROVE  /\ UNCHANGED states
             /\ \A o \in Objects : info'[o].profile = info[o].profile /\ info'[o].inScan = info[o].inScan
  BY <1>2 DEF Commits, Target, IInv, TypeOK
<1>3. pc[w] = "commit" => old \in Fields
  BY DEF IInv, TypeOK
<1>4. CASE CommitFailed(w)
  <2>1. /\ AfterFailure(old, w).profile = old.profile
        /\ AfterFailure(old, w).inScan = old.inScan
    BY <1>3, <1>4 DEF AfterFailure, Holding, Fields, CommitFailed, Commits
  <2> QED
    BY <1>2, <1>4, <2>1 DEF CommitFailed, Target
<1>5. CASE CommitUnevaluated(w)
  <2>1. /\ AfterFault(old, w).profile = old.profile
        /\ AfterFault(old, w).inScan = old.inScan
    BY <1>3, <1>5 DEF AfterFault, Holding, Fields, CommitUnevaluated, Commits
  <2> QED
    BY <1>2, <1>5, <2>1 DEF CommitUnevaluated, Target
<1>6. ASSUME NEW outcome \in Outcomes,
             CommitEvaluated(w, outcome) \/ CommitUnrecorded(w, outcome)
      PROVE  /\ UNCHANGED states
             /\ \A o \in Objects : info'[o].profile = info[o].profile /\ info'[o].inScan = info[o].inScan
  <2> PICK result : /\ Commits(w, result)
                    /\ result.profile = old.profile
                    /\ result.inScan = old.inScan
    BY <1>6, EvaluatedCommits
  <2> QED
    BY <1>2
<1> QED
  BY <1>1, <1>4, <1>5, <1>6 DEF Refresh

(* After a discovery the symbols that are not manual are of its top. *)
LEMMA FindsTop ==
  ASSUME IInv, NEW ibkr \in SUBSET Symbols, NEW finviz \in SUBSET Symbols,
         NEW top \in SUBSET Symbols, NEW new \in [top \ OnScreen -> FreeObjects],
         DiscoveryFinds(ibkr, finviz, top, new)
  PROVE  Scanned' \subseteq top
<1> SUFFICES ASSUME NEW s \in Symbols, s \notin top, states'[s] # NoState
             PROVE  info'[states'[s]].profile = "MANUAL_SYMBOL"
  BY DEF Scanned, Manual, OnScreen
<1>1. s \in Manual /\ s \in OnScreen
  BY DEF DiscoveryFinds, KeepOf, Manual
<1>2. states'[s] = states[s] /\ states[s] \in Objects
  BY <1>1 DEF DiscoveryFinds, KeepOf, OnScreen, IInv, TypeOK
<1>3. \A r \in top \ OnScreen : new[r] # states[s]
  BY <1>1 DEF FreeObjects, OnScreen
<1>4. \A r \in top : states[r] # states[s]
  BY <1>1, <1>2 DEF IInv, Tracking, OnScreen
<1>5. info'[states[s]].profile = info[states[s]].profile
  BY <1>1, <1>2, <1>3, <1>4 DEF DiscoveryFinds, IInv, TypeOK, Fields
<1> QED
  BY <1>1, <1>2, <1>5 DEF Manual

LEMMA FindsCaps ==
  ASSUME IInv, NEW ibkr \in SUBSET Symbols, NEW finviz \in SUBSET Symbols,
         NEW top \in SUBSET Symbols, NEW new \in [top \ OnScreen -> FreeObjects],
         DiscoveryFinds(ibkr, finviz, top, new)
  PROVE  ScreenBounded'
<1>1. Scanned' \subseteq top
  BY FindsTop
<1>2. IsFiniteSet(top)
  BY FS_Subset
<1>3. Cardinality(top) <= Cap
  BY <1>2, FS_CardinalityType DEF DiscoveryFinds, Trimmed
<1> QED
  BY <1>1, <1>2, <1>3, FS_Subset, FS_CardinalityType DEF ScreenBounded

(* "Hard max candidates on the CURRENT screen": discovered symbols never   *)
(* exceed CURRENT_SCREEN_CAP (refresh_discovery).                          *)
THEOREM ScreenStaysBounded == Spec => []ScreenBounded
<1>1. Init => ScreenBounded
  <2> SUFFICES ASSUME Init PROVE ScreenBounded
    OBVIOUS
  <2>1. Scanned = {}
    BY DEF Init, Scanned, OnScreen
  <2> QED
    BY <2>1, FS_EmptySet DEF ScreenBounded
<1>2. IInv /\ ScreenBounded /\ [Next]_vars => ScreenBounded'
  <2> SUFFICES ASSUME IInv, ScreenBounded, [Next]_vars PROVE ScreenBounded'
    OBVIOUS
  <2>0. TypeOK
    BY DEF IInv
  <2>1. CASE DiscoveryEmpty
    <3>1. UNCHANGED states /\ \A o \in Objects : info'[o].profile = info[o].profile
      BY <2>0, <2>1 DEF DiscoveryEmpty, TypeOK, Fields
    <3> QED
      BY <2>0, <3>1, ScannedKept DEF ScreenBounded
  <2>2. CASE \E s \in Symbols, o \in Objects : AddManual(s, o)
    <3> PICK s \in Symbols, o \in Objects : AddManual(s, o)
      BY <2>2
    <3>1. Scanned' = Scanned
      BY <2>0 DEF AddManual, Scanned, Manual, OnScreen, FreeObjects, TypeOK, NewState
    <3> QED
      BY <3>1 DEF ScreenBounded
  <2>3. CASE Clear
    <3>1. Scanned' = {}
      BY <2>3 DEF Clear, Scanned, OnScreen
    <3> QED
      BY <3>1, FS_EmptySet DEF ScreenBounded
  <2>4. CASE \E w \in Workers : Refresh(w)
    BY <2>0, <2>4, CommitKeepsProfile, ScannedKept DEF ScreenBounded
  <2>5. CASE UNCHANGED vars
    BY <2>5 DEF vars, ScreenBounded, Scanned, Manual, OnScreen
  <2> QED
    BY <2>1, <2>2, <2>3, <2>4, <2>5, FindsCaps DEF Next, Discover
<1> QED
  BY <1>1, <1>2, Invariance, PTL DEF Spec
-----------------------------------------------------------------------------
(* The flag of the latest scan.                                            *)

(* A discovery that finds something sets the flag of all it leaves.        *)
LEMMA FindsAgree ==
  ASSUME IInv, NEW ibkr \in SUBSET Symbols, NEW finviz \in SUBSET Symbols,
         NEW top \in SUBSET Symbols, NEW new \in [top \ OnScreen -> FreeObjects],
         DiscoveryFinds(ibkr, finviz, top, new)
  PROVE  ScanFlagAgrees'
<1>1. Scanned' \subseteq top
  BY FindsTop
<1>2. ASSUME NEW s \in top, states'[s] # NoState PROVE info'[states'[s]].inScan = TRUE
  <2>1. FreeObjects \subseteq Objects
    BY DEF FreeObjects
  <2>2. CASE s \notin OnScreen
    <3>1. states'[s] = new[s] /\ new[s] \in Objects
      BY <2>1, <2>2 DEF DiscoveryFinds, KeepOf
    <3>2. info'[new[s]] = NewState("DISCOVERED")
      BY <2>2, <3>1 DEF DiscoveryFinds
    <3> QED
      BY <3>1, <3>2 DEF NewState
  <2>3. CASE s \in OnScreen
    <3>1. states'[s] = states[s] /\ states[s] \in Objects /\ info[states[s]] \in Fields
      BY <2>3 DEF DiscoveryFinds, KeepOf, OnScreen, IInv, TypeOK
    <3>2. \A r \in top \ OnScreen : new[r] # states[s]
      BY <2>3 DEF FreeObjects, OnScreen
    <3>3. info'[states[s]] = Refound(info[states[s]])
      BY <3>1, <3>2 DEF DiscoveryFinds
    <3> QED
      BY <3>1, <3>3 DEF Refound, Fields
  <2> QED
    BY <2>2, <2>3
<1> QED
  BY <1>1, <1>2 DEF ScanFlagAgrees, Scanned, OnScreen

(* Discovered symbols agree on whether the latest scan found them: an      *)
(* empty scan takes all of them out and the next that finds something puts *)
(* all of them back (refresh_discovery).                                   *)
THEOREM ScanFlagsAgree == Spec => []ScanFlagAgrees
<1>1. Init => ScanFlagAgrees
  BY DEF Init, ScanFlagAgrees, Scanned, OnScreen
<1>2. IInv /\ ScanFlagAgrees /\ [Next]_vars => ScanFlagAgrees'
  <2> SUFFICES ASSUME IInv, ScanFlagAgrees, [Next]_vars PROVE ScanFlagAgrees'
    OBVIOUS
  <2>0. TypeOK
    BY DEF IInv
  <2>1. CASE DiscoveryEmpty
    <3>1. \A s \in OnScreen : states[s] \in Objects /\ info[states[s]] \in Fields
      BY <2>0 DEF TypeOK, OnScreen
    <3>2. \A s \in OnScreen : info'[states[s]].inScan = FALSE
      BY <2>1, <3>1 DEF DiscoveryEmpty, OnScreen, Fields
    <3>3. states' = states
      BY <2>1 DEF DiscoveryEmpty
    <3> QED
      BY <3>2, <3>3 DEF ScanFlagAgrees, Scanned, OnScreen
  <2>2. ASSUME NEW s \in Symbols, NEW o \in Objects, AddManual(s, o) PROVE ScanFlagAgrees'
    <3>1. Scanned' = Scanned
      BY <2>0, <2>2 DEF AddManual, Scanned, Manual, OnScreen, FreeObjects, TypeOK, NewState
    <3>2. \A r \in Scanned : states'[r] = states[r] /\ states[r] # o
      BY <2>0, <2>2 DEF AddManual, Scanned, OnScreen, FreeObjects, TypeOK
    <3>3. \A r \in Scanned : info'[states'[r]] = info[states[r]]
      BY <2>0, <2>2, <3>2 DEF AddManual, TypeOK
    <3> QED
      BY <3>1, <3>3 DEF ScanFlagAgrees
  <2>3. CASE Clear
    BY <2>3 DEF Clear, ScanFlagAgrees, Scanned, OnScreen
  <2>4. CASE \E w \in Workers : Refresh(w)
    <3>1. /\ UNCHANGED states
          /\ \A o \in Objects : info'[o].profile = info[o].profile /\ info'[o].inScan = info[o].inScan
      BY <2>4, CommitKeepsProfile
    <3>2. Scanned' = Scanned /\ \A s \in Scanned : states[s] \in Objects
      BY <2>0, <3>1, ScannedKept DEF Scanned, OnScreen, TypeOK
    <3> QED
      BY <3>1, <3>2 DEF ScanFlagAgrees
  <2>5. CASE UNCHANGED vars
    BY <2>5 DEF vars, ScanFlagAgrees, Scanned, Manual, OnScreen
  <2> QED
    BY <2>1, <2>2, <2>3, <2>4, <2>5, FindsAgree DEF Next, Discover
<1> QED
  BY <1>1, <1>2, Invariance, PTL DEF Spec
-----------------------------------------------------------------------------
(* What a step leaves a symbol that stays.                                 *)

Keeps(old, new) ==
  /\ old.usable => new.usable
  /\ Len(new.history) >= Len(old.history)
  /\ Len(new.transitions) >= Len(old.transitions)

StaysWhole ==
  \A s \in OnScreen : states'[s] # NoState =>
    states'[s] = states[s] /\ Keeps(info[states[s]], info'[states[s]])

LEMMA KeepsItself ==
  ASSUME NEW r \in Fields
  PROVE  Keeps(r, r) /\ Keeps(r, Refound(r)) /\ \A b \in BOOLEAN : Keeps(r, [r EXCEPT !.inScan = b])
  BY DEF Keeps, Fields, Refound

LEMMA CommitsStayWhole ==
  ASSUME IInv, NEW w \in Workers, NEW result, Commits(w, result), Keeps(info[held[w]], result)
  PROVE  StaysWhole
  BY KeepsItself DEF Commits, Target, StaysWhole, IInv, TypeOK, OnScreen

LEMMA RefreshStaysWhole ==
  ASSUME IInv, NEW w \in Workers, Refresh(w)
  PROVE  StaysWhole
<1> DEFINE old == info[held[w]]
<1>0. IInv /\ TypeOK /\ \A o \in Objects : info[o] \in Fields
  BY DEF IInv, TypeOK
<1>1. CASE (\E s \in Symbols : LookUp(w, s)) \/ Collect(w)
  BY <1>0, <1>1, KeepsItself DEF LookUp, Collect, StaysWhole, OnScreen, TypeOK
<1>3. pc[w] = "commit" => RecordOK(old) /\ old \in Fields /\ pass[w] # 0
  BY DEF IInv, RecordsOK, Numbered, TypeOK
<1>4. CASE CommitFailed(w)
  <2>1. Commits(w, AfterFailure(old, w)) /\ pc[w] = "commit"
    BY <1>4 DEF CommitFailed, Commits, Target
  <2>2. /\ AfterFailure(old, w).history = old.history
        /\ AfterFailure(old, w).transitions = old.transitions
        /\ AfterFailure(old, w).usable = (IF old.collection # 0 THEN old.usable ELSE FALSE)
    BY <1>3, <2>1 DEF AfterFailure, Holding, Fields
  <2>3. old.usable => old.collection # 0
    BY <1>3, <2>1 DEF RecordOK
  <2>4. Keeps(old, AfterFailure(old, w))
    BY <1>3, <2>1, <2>2, <2>3 DEF Keeps, Fields
  <2> QED
    BY <2>1, <2>4, CommitsStayWhole
<1>5. CASE CommitUnevaluated(w)
  <2>1. Commits(w, AfterFault(old, w)) /\ pc[w] = "commit"
    BY <1>5 DEF CommitUnevaluated, Commits, Target
  <2>2. Keeps(old, AfterFault(old, w))
    BY <1>3, <2>1 DEF AfterFault, Holding, Fields, Keeps
  <2> QED
    BY <2>1, <2>2, CommitsStayWhole
<1>6. ASSUME NEW outcome \in Outcomes,
             CommitEvaluated(w, outcome) \/ CommitUnrecorded(w, outcome)
      PROVE  StaysWhole
  <2> PICK result : /\ Commits(w, result)
                    /\ Len(result.history) >= Len(old.history)
                    /\ Len(result.transitions) >= Len(old.transitions)
                    /\ result.usable
    BY <1>6, EvaluatedCommits
  <2> QED
    BY CommitsStayWhole DEF Keeps
<1> QED
  BY <1>1, <1>4, <1>5, <1>6 DEF Refresh

LEMMA FindsStaysWhole ==
  ASSUME IInv, NEW ibkr \in SUBSET Symbols, NEW finviz \in SUBSET Symbols,
         NEW top \in SUBSET Symbols, NEW new \in [top \ OnScreen -> FreeObjects],
         DiscoveryFinds(ibkr, finviz, top, new)
  PROVE  StaysWhole
<1> SUFFICES ASSUME NEW s \in OnScreen, states'[s] # NoState
             PROVE  states'[s] = states[s] /\ Keeps(info[states[s]], info'[states[s]])
  BY DEF StaysWhole
<1> DEFINE o == states[s]
           flag == \E r \in Manual \cap ibkr : states[r] = o
<1>1. states'[s] = o /\ o \in Objects /\ info[o] \in Fields
  BY DEF DiscoveryFinds, OnScreen, IInv, TypeOK
<1>2. ~ \E r \in top \ OnScreen : new[r] = o
  BY DEF FreeObjects, OnScreen
<1>3. flag \in BOOLEAN
  OBVIOUS
<1>4. \/ info'[o] = Refound(info[o])
      \/ info'[o] = [info[o] EXCEPT !.inScan = flag]
      \/ info'[o] = info[o]
  BY <1>1, <1>2 DEF DiscoveryFinds
<1> HIDE DEF flag
<1> QED
  BY <1>1, <1>3, <1>4, KeepsItself

LEMMA StepStaysWhole == IInv /\ [Next]_vars => StaysWhole
<1> SUFFICES ASSUME IInv, [Next]_vars PROVE StaysWhole
  OBVIOUS
<1>0. IInv /\ TypeOK /\ \A o \in Objects : info[o] \in Fields
  BY DEF IInv, TypeOK
<1>1. CASE DiscoveryEmpty
  BY <1>0, <1>1, KeepsItself DEF DiscoveryEmpty, StaysWhole, OnScreen, TypeOK
<1>2. CASE \E s \in Symbols, o \in Objects : AddManual(s, o)
  <2> PICK s \in Symbols, o \in Objects : AddManual(s, o)
    BY <1>2
  <2>1. \A r \in OnScreen : states'[r] = states[r] /\ info'[states[r]] = info[states[r]]
    BY <1>0 DEF AddManual, OnScreen, FreeObjects, TypeOK
  <2> QED
    BY <1>0, <2>1, KeepsItself DEF StaysWhole, OnScreen, TypeOK
<1>3. CASE Clear
  BY <1>3 DEF Clear, StaysWhole, OnScreen
<1>5. CASE UNCHANGED vars
  BY <1>0, <1>5, KeepsItself DEF vars, StaysWhole, OnScreen, TypeOK
<1> QED
  BY <1>1, <1>2, <1>3, <1>5, FindsStaysWhole, RefreshStaysWhole DEF Next, Discover

(* A failed refresh never costs a symbol its usable snapshot (the module's *)
(* docstring), whatever other passes do.                                   *)
THEOREM UsableIsRetained == Spec => RetainsUsable
<1>1. StaysWhole => \A s \in OnScreen :
        states'[s] = states[s] /\ info[states[s]].usable => info'[states[s]].usable
  BY DEF StaysWhole, Keeps, OnScreen
<1> QED
  BY <1>1, StepStaysWhole, Invariance, PTL DEF Spec, RetainsUsable

(* "History is retained for symbols that remain" (refresh_discovery).      *)
THEOREM HistoryIsRetained == Spec => HistoryRetained
<1>1. StaysWhole => \A s \in OnScreen : states'[s] # NoState =>
        /\ states'[s] = states[s]
        /\ Len(info'[states[s]].history) >= Len(info[states[s]].history)
        /\ Len(info'[states[s]].transitions) >= Len(info[states[s]].transitions)
  BY DEF StaysWhole, Keeps
<1> QED
  BY <1>1, StepStaysWhole, Invariance, PTL DEF Spec, HistoryRetained

(* A symbol labelled manual leaves the screen by clear() alone.            *)
THEOREM ManualOnlyCleared == Spec => ManualLeavesByClear
<1> DEFINE Kept == \A s \in Manual : states'[s] = NoState => OnScreen' = {}
<1>1. IInv /\ [Next]_vars => Kept
  <2> SUFFICES ASSUME IInv, [Next]_vars, NEW s \in Manual, states'[s] = NoState
               PROVE  OnScreen' = {}
    OBVIOUS
  <2>0. s \in Symbols /\ states[s] # NoState /\ TypeOK
    BY DEF Manual, OnScreen, IInv
  <2>1. ~ UNCHANGED states
    BY <2>0
  <2>2. ~ \E ibkr, finviz, top \in SUBSET Symbols :
            \E new \in [top \ OnScreen -> FreeObjects] : DiscoveryFinds(ibkr, finviz, top, new)
    BY <2>0 DEF DiscoveryFinds, KeepOf, OnScreen
  <2>3. ~ \E r \in Symbols, o \in Objects : AddManual(r, o)
    BY <2>0 DEF AddManual, TypeOK, OnScreen
  <2>4. ~ \E w \in Workers : Refresh(w)
    BY <2>1, CommitKeepsProfile
  <2>5. Clear
    BY <2>1, <2>2, <2>3, <2>4 DEF Next, Discover, DiscoveryEmpty, vars
  <2> QED
    BY <2>5 DEF Clear, OnScreen
<1> QED
  BY <1>1, Invariance, PTL DEF Spec, ManualLeavesByClear
=============================================================================
