--------------------------- MODULE CausalState_proofs ---------------------------
(***************************************************************************)
(* CausalState, for every number of threads and every evidence: its types, *)
(* and that the trail stays bounded though it is appended to and trimmed   *)
(* without a lock.                                                         *)
(*                                                                         *)
(* The bound is not inductive.  A first record is not followed by a trim,  *)
(* so each thread on its way to one must be counted in advance; and no     *)
(* thread sets out for one after a state has been written.  Until then     *)
(* every record in the trail belongs to a thread that has still to write.  *)
(***************************************************************************)
EXTENDS CausalState, FiniteSetTheorems, TLAPS

Count(places, w) == Cardinality({t \in Threads : places[t] = w})

TrailInv ==
  /\ last = NoState => /\ \A t \in Threads : pc[t] \notin {"append", "trim", "stamp"}
                       /\ trail =< Count(pc, "write")
  /\ trail + Count(pc, "initial") =< MaxHistory + Count(pc, "trim") + Cardinality(Threads) - 1

IInv == TypeOK /\ TrailInv
-----------------------------------------------------------------------------
LEMMA CountType ==
  ASSUME NEW f, NEW w
  PROVE  Count(f, w) \in Nat
  <1>1. IsFiniteSet({t \in Threads : f[t] = w})
    BY FS_Subset, ThreadsAssumption, Zenon
  <1> QED
    BY <1>1, FS_CardinalityType, Zenon DEF Count

(* What a step of one thread does to the numbers of threads at each place.  *)
LEMMA Moved ==
  ASSUME TypeOK, NEW t \in Threads, NEW from, NEW to, Go(t, from, to), from # to
  PROVE  /\ Count(pc', to) = Count(pc, to) + 1
         /\ Count(pc', from) = Count(pc, from) - 1
         /\ \A w : w # to /\ w # from => Count(pc', w) = Count(pc, w)
  <1> DEFINE Were(w) == {u \in Threads : pc[u] = w}
             Are(w) == {u \in Threads : pc'[u] = w}
  <1>1. pc[t] = from /\ pc' = [pc EXCEPT ![t] = to] /\ DOMAIN pc = Threads
    BY DEF Go, TypeOK
  <1>2. \A w : IsFiniteSet(Were(w))
    BY FS_Subset, ThreadsAssumption, Zenon
  <1>3. Are(to) = Were(to) \cup {t} /\ t \notin Were(to)
    BY <1>1
  <1>4. Are(from) = Were(from) \ {t} /\ t \in Were(from)
    BY <1>1
  <1>5. \A w : w # to /\ w # from => Are(w) = Were(w)
    BY <1>1
  <1> HIDE DEF Were, Are
  <1>6. Cardinality(Are(to)) = Cardinality(Were(to)) + 1
    BY <1>2, <1>3, FS_AddElement, Zenon
  <1>7. Cardinality(Are(from)) = Cardinality(Were(from)) - 1
    BY <1>2, <1>4, FS_RemoveElement, Zenon
  <1>8. \A w : w # to /\ w # from => Cardinality(Are(w)) = Cardinality(Were(w))
    BY <1>5, Zenon
  <1> QED
    BY <1>6, <1>7, <1>8, Zenon DEF Count, Were, Are

(* Two places hold no more threads together than there are.                 *)
LEMMA Apart ==
  ASSUME NEW f, NEW v, NEW w, v # w
  PROVE  Count(f, v) + Count(f, w) =< Cardinality(Threads)
  <1> DEFINE At(x) == {u \in Threads : f[u] = x}
  <1>1. IsFiniteSet(At(v)) /\ IsFiniteSet(At(w))
    BY FS_Subset, ThreadsAssumption, Zenon
  <1>2. At(v) \cap At(w) = {} /\ At(v) \cup At(w) \subseteq Threads
    OBVIOUS
  <1>3. Cardinality(At(v) \cup At(w)) = Cardinality(At(v)) + Cardinality(At(w))
    <2>1. Cardinality(At(v) \cup At(w))
            = Cardinality(At(v)) + Cardinality(At(w)) - Cardinality(At(v) \cap At(w))
      BY <1>1, FS_Union, Zenon
    <2>2. Cardinality(At(v) \cap At(w)) = 0
      BY <1>2, FS_EmptySet
    <2>3. Cardinality(At(v)) \in Nat /\ Cardinality(At(w)) \in Nat
      BY <1>1, FS_CardinalityType
    <2> QED
      BY <2>1, <2>2, <2>3
  <1>4. Cardinality(At(v) \cup At(w)) =< Cardinality(Threads)
    BY <1>2, FS_Subset, ThreadsAssumption, Zenon
  <1> QED
    BY <1>3, <1>4, Zenon DEF Count

LEMMA ProposalTypes ==
  \A p \in Proposals : p \in [state : States, strong : BOOLEAN]
  BY EvidenceAssumption DEF Proposals, Assess

LEMMA HeldType ==
  ASSUME NEW p \in [state : States, strong : BOOLEAN], NEW s \in States, NEW e, NEW c
  PROVE  Held(p, s, e, c) \in States
  BY Zenon DEF Held
-----------------------------------------------------------------------------
LEMMA InitIInv == Init => IInv
  <1> SUFFICES ASSUME Init PROVE IInv
    OBVIOUS
  <1>1. Nothing \in [state : States, strong : BOOLEAN]
    BY DEF Nothing, States, Rank
  <1>2. 0 \in Ages
    BY BoundsAssumption DEF Ages
  <1>3. TypeOK
    BY <1>1, <1>2 DEF Init, TypeOK
  <1>4. \A w : w # "idle" => Count(pc, w) = 0
    <2>1. \A w : w # "idle" => {t \in Threads : pc[t] = w} = {}
      BY DEF Init
    <2> QED
      BY <2>1, FS_EmptySet DEF Count
  <1>5. Cardinality(Threads) \in Nat
    BY FS_CardinalityType, ThreadsAssumption
  <1>6. Count(pc, "write") = 0 /\ Count(pc, "initial") = 0 /\ Count(pc, "trim") = 0
    BY <1>4
  <1>7. TrailInv
    BY <1>5, <1>6, BoundsAssumption DEF Init, TrailInv
  <1> QED
    BY <1>3, <1>7 DEF IInv

LEMMA TypeStep == TypeOK /\ [Next]_vars => TypeOK'
  <1> SUFFICES ASSUME TypeOK, [Next]_vars PROVE TypeOK'
    OBVIOUS
  <1> USE DEF TypeOK
  <1>1. \A a \in Ages : Older(a) \in Ages
    BY BoundsAssumption DEF Ages, Older, Least
  <1>2. 0 \in Ages /\ Nothing \in [state : States, strong : BOOLEAN]
    BY BoundsAssumption DEF Ages, Nothing, States, Rank
  <1>3. CASE EvidenceChanges
    BY <1>3 DEF EvidenceChanges, candidate, locals
  <1>4. CASE Snapshot
    BY <1>2, <1>4 DEF Snapshot, candidate, locals
  <1>5. CASE Tick
    BY <1>1, <1>5 DEF Tick
  <1>6. ASSUME NEW t \in Threads, Step(t) PROVE TypeOK'
    <2> USE DEF world, candidate, locals, Go
    <2>1. CASE Render(t)
      BY <2>1, ProposalTypes DEF Render
    <2>2. CASE Judge(t)
      <3>1. CASE previous[t] = NoState
        BY <2>2, <3>1 DEF Judge
      <3>2. CASE previous[t] # NoState
        <4> DEFINE held == Held(proposed[t], previous[t], since, Cooldown)
        <4>1. held \in States
          BY <3>2, HeldType
        <4> HIDE DEF held
        <4>2. [proposed[t] EXCEPT !.state = held] \in [state : States, strong : BOOLEAN]
          BY <4>1
        <4>3. proposed' = [proposed EXCEPT ![t] = [proposed[t] EXCEPT !.state = held]]
          BY <2>2, <3>2 DEF Judge, held
        <4>4. proposed' \in [Threads -> [state : States, strong : BOOLEAN]]
          BY <4>2, <4>3
        <4> QED
          BY <2>2, <4>4 DEF Judge
      <3> QED
        BY <3>1, <3>2
    <2>3. CASE Call(t)
      BY <2>3 DEF Call, Recording
    <2>4. CASE Same(t)
      BY <2>4, <1>2 DEF Same, Forget
    <2>5. CASE Differs(t)
      BY <2>5 DEF Differs, Recording
    <2>6. CASE Initial(t) \/ Append(t)
      BY <2>6 DEF Initial, Append, Record, Recording
    <2>7. CASE Trim(t)
      BY <2>7, BoundsAssumption DEF Trim, Recording, Least
    <2>8. CASE Write(t)
      BY <2>8 DEF Write, Recording
    <2>9. CASE Stamp(t)
      BY <2>9, <1>2 DEF Stamp, Forget
    <2> QED
      BY <1>6, <2>1, <2>2, <2>3, <2>4, <2>5, <2>6, <2>7, <2>8, <2>9 DEF Step, Look, Store
  <1>7. CASE UNCHANGED vars
    BY <1>7 DEF vars, world, candidate, locals
  <1> QED
    BY <1>3, <1>4, <1>5, <1>6, <1>7 DEF Next
-----------------------------------------------------------------------------
(* The trail invariant under the steps that leave it and the places alone.  *)
LEMMA Elsewhere ==
  ASSUME IInv, UNCHANGED <<last, trail, pc>>
  PROVE  TrailInv'
  BY DEF IInv, TrailInv

(* A thread moves between places that the trail invariant does not count.   *)
LEMMA Uncounted ==
  ASSUME IInv, NEW t \in Threads, NEW from, NEW to, Go(t, from, to), from # to,
         UNCHANGED <<last, trail>>,
         {from, to} \cap {"initial", "append", "trim", "write", "stamp"} = {}
  PROVE  TrailInv'
  <1>0. TypeOK
    BY DEF IInv
  <1>1. DOMAIN pc = Threads /\ pc[t] = from /\ pc' = [pc EXCEPT ![t] = to]
    BY DEF IInv, TypeOK, Go
  <1>2. \A w : w # to /\ w # from => Count(pc', w) = Count(pc, w)
    BY <1>0, Moved
  <1>3. /\ Count(pc', "initial") = Count(pc, "initial")
        /\ Count(pc', "trim") = Count(pc, "trim")
        /\ Count(pc', "write") = Count(pc, "write")
    BY <1>2
  <1>4. \A u \in Threads : pc'[u] \in {"append", "trim", "stamp"} => pc[u] \in {"append", "trim", "stamp"}
    BY <1>1
  <1> QED
    BY <1>3, <1>4 DEF IInv, TrailInv

LEMMA TrailStep == IInv /\ [Next]_vars => TrailInv'
  <1> SUFFICES ASSUME IInv, [Next]_vars PROVE TrailInv'
    OBVIOUS
  <1> DEFINE N == Cardinality(Threads)
             I == Count(pc, "initial")
             W == Count(pc, "write")
             T == Count(pc, "trim")
  <1>1. /\ N \in Nat /\ I \in Nat /\ W \in Nat /\ T \in Nat /\ trail \in Nat
        /\ I + W =< N /\ I + T =< N
        /\ MaxHistory \in Nat /\ MaxHistory >= 1
    BY CountType, Apart, FS_CardinalityType, ThreadsAssumption, BoundsAssumption DEF IInv, TypeOK
  <1>2. DOMAIN pc = Threads
    BY DEF IInv, TypeOK
  <1>3. TypeOK
    BY DEF IInv
  <1>4. CASE EvidenceChanges \/ Snapshot \/ Tick \/ UNCHANGED vars
    BY <1>4, Elsewhere DEF EvidenceChanges, Snapshot, Tick, vars, candidate
  <1>5. ASSUME NEW t \in Threads, Step(t) PROVE TrailInv'
    <2> DEFINE I1 == Count(pc', "initial")
               W1 == Count(pc', "write")
               T1 == Count(pc', "trim")
    <2>1. CASE Render(t)
      BY <2>1, Uncounted DEF Render, candidate
    <2>2. CASE Judge(t)
      BY <2>2, Uncounted DEF Judge, candidate
    <2>3. CASE Call(t)
      BY <2>3, Uncounted DEF Call, candidate
    <2>4. CASE Same(t)
      BY <2>4, Uncounted DEF Same, candidate
    <2>5. CASE Differs(t) /\ last = NoState
      <3>1. I1 = I + 1 /\ T1 = T /\ W1 = W
        BY <2>5, <1>3, Moved DEF Differs
      <3>2. \A u \in Threads : pc'[u] \notin {"append", "trim", "stamp"}
        BY <2>5, <1>2 DEF Go, Differs, IInv, TrailInv
      <3>3. I1 + W1 =< N
        BY Apart
      <3>4. trail =< W /\ last' = last /\ trail' = trail
        BY <2>5 DEF IInv, TrailInv, Differs, candidate
      <3>5. trail + I1 =< MaxHistory + T1 + N - 1
        BY <3>1, <3>3, <3>4, <1>1
      <3> HIDE DEF I1, T1, W1, I, W, T
      <3> QED
        BY <3>1, <3>2, <3>4, <3>5, Zenon DEF TrailInv, I1, T1, W1, I, W, T
    <2>6. CASE Differs(t) /\ last # NoState
      <3>1. I1 = I /\ T1 = T
        BY <2>6, <1>3, Moved DEF Differs
      <3> QED
        BY <2>6, <3>1 DEF TrailInv, IInv, Differs, candidate
    <2>7. CASE Initial(t)
      <3>1. I1 = I - 1 /\ W1 = W + 1 /\ T1 = T
        BY <2>7, <1>3, Moved DEF Initial, Record
      <3>2. last = NoState => \A u \in Threads : pc'[u] \notin {"append", "trim", "stamp"}
        BY <2>7, <1>2 DEF Go, Initial, Record, IInv, TrailInv
      <3>3. trail' = trail + 1 /\ last' = last
        BY <2>7 DEF Initial, Record
      <3>4. /\ last' = NoState => trail' =< W1
            /\ trail' + I1 =< MaxHistory + T1 + N - 1
        BY <3>1, <3>3, <1>1 DEF IInv, TrailInv
      <3> QED
        BY <3>2, <3>3, <3>4, Zenon DEF TrailInv
    <2>8. CASE Append(t)
      <3>1. I1 = I /\ T1 = T + 1
        BY <2>8, <1>3, Moved DEF Append, Record
      <3>2. last # NoState /\ last' = last /\ trail' = trail + 1
        BY <2>8 DEF Go, Append, Record, IInv, TrailInv
      <3> QED
        BY <3>1, <3>2, <1>1 DEF TrailInv, IInv
    <2>9. CASE Trim(t)
      <3>1. I1 = I /\ T1 = T - 1 /\ T1 \in Nat
        BY <2>9, <1>3, Moved, CountType DEF Trim
      <3>2. last # NoState /\ last' = last /\ trail' =< MaxHistory /\ trail' \in Nat
        BY <2>9, <1>1 DEF Go, Trim, IInv, TrailInv, Least
      <3>3. trail' + I1 =< MaxHistory + T1 + N - 1
        BY <3>1, <3>2, <1>1
      <3> QED
        BY <3>2, <3>3, Zenon DEF TrailInv
    <2>10. CASE Write(t)
      <3>1. I1 = I /\ T1 = T
        BY <2>10, <1>3, Moved DEF Write
      <3>2. last' # NoState /\ trail' = trail
        <4>1. proposed[t].state \in States
          BY DEF IInv, TypeOK
        <4> QED
          BY <4>1, <2>10, NoStateAssumption DEF Write
      <3> QED
        BY <3>1, <3>2, <1>1 DEF TrailInv, IInv
    <2>11. CASE Stamp(t)
      <3>1. I1 = I /\ T1 = T
        BY <2>11, <1>3, Moved DEF Stamp
      <3>2. last # NoState /\ last' = last /\ trail' = trail
        BY <2>11 DEF Go, Stamp, IInv, TrailInv
      <3> QED
        BY <3>1, <3>2, <1>1 DEF TrailInv, IInv
    <2> QED
      BY <1>5, <2>1, <2>2, <2>3, <2>4, <2>5, <2>6, <2>7, <2>8, <2>9, <2>10, <2>11
      DEF Step, Look, Store
  <1> QED
    BY <1>4, <1>5 DEF Next

LEMMA Inductive == Spec => []IInv
  <1>1. IInv /\ [Next]_vars => IInv'
    BY TypeStep, TrailStep DEF IInv
  <1> QED
    BY InitIInv, <1>1, PTL DEF Spec

(* The candidate's fields and the threads' locals keep their types; the     *)
(* state shown is always one of the states.                                 *)
THEOREM TypeCorrect == Spec => []TypeOK
  <1>1. IInv => TypeOK
    BY DEF IInv
  <1> QED
    BY <1>1, Inductive, PTL

(* However many threads record at once, the trail exceeds its limit by at   *)
(* most the records about to be trimmed and those of a common start.        *)
THEOREM TrailStaysBounded == Spec => []TrailBounded
  <1>1. ASSUME IInv PROVE TrailBounded
    <2>1. Count(pc, "initial") \in Nat /\ Count(pc, "trim") \in Nat /\ Cardinality(Threads) \in Nat
      BY CountType, FS_CardinalityType, ThreadsAssumption
    <2>2. Count(pc, "trim") = Cardinality(Trimming)
      BY DEF Count, Trimming
    <2>3. trail \in Nat /\ MaxHistory \in Nat
      BY <1>1, BoundsAssumption DEF IInv, TypeOK
    <2> QED
      BY <1>1, <2>1, <2>2, <2>3 DEF IInv, TrailInv, TrailBounded
  <1> QED
    BY <1>1, Inductive, PTL
=============================================================================
