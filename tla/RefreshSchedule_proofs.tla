----------------------- MODULE RefreshSchedule_proofs -----------------------
(***************************************************************************)
(* RefreshSchedule, for every number of candidates, every slice, budget    *)
(* and window, and every way of scoring: what a cycle of the loop may take *)
(* without leaving a later cycle short.                                    *)
(*                                                                         *)
(* The budget is a sum over the cycles of the window.  Charges has its     *)
(* running totals; what they come to after a request and after a cycle is  *)
(* shown by induction, which is stated of sets of numbers here because the *)
(* provers cannot instantiate a theorem about operators.                   *)
(***************************************************************************)
EXTENDS RefreshSchedule, WellFoundedInduction, FiniteSetTheorems, TLAPS

USE SizesAssumption

(* A set of naturals has a least element.                                   *)
LEMMA LeastElement ==
  ASSUME NEW S \in SUBSET Nat, S # {}
  PROVE  \E n \in S : \A m \in S : n =< m
  <1> DEFINE R == OpToRel(<, Nat)
  <1>1. IsWellFoundedOn(R, Nat)
    BY NatLessThanWellFounded
  <1>2. \A x, y \in Nat : <<x, y>> \in R <=> x < y
    BY DEF OpToRel
  <1> HIDE DEF R
  <1>3. PICK x \in S : \A y \in S : ~(<<y, x>> \in R)
    BY <1>1, WFMin
  <1>4. \A y \in S : ~(y < x)
    BY <1>2, <1>3
  <1> QED
    BY <1>4

(* What holds at 0 and goes on to the next number holds up to n.            *)
LEMMA Upwards ==
  ASSUME NEW n \in Nat, NEW S, 0 \in S, \A k \in 0..n : k \in S /\ k < n => k + 1 \in S
  PROVE  0..n \subseteq S
  <1> SUFFICES ASSUME (0..n) \ S # {} PROVE FALSE
    OBVIOUS
  <1>1. PICK k \in (0..n) \ S : \A m \in (0..n) \ S : k =< m
    <2>1. (0..n) \ S \in SUBSET Nat
      OBVIOUS
    <2> QED
      BY <2>1, LeastElement
  <1>2. k - 1 \in 0..n /\ k - 1 \in S /\ (k - 1) + 1 = k /\ k - 1 < n
    BY <1>1
  <1> QED
    BY <1>1, <1>2

Ledgers == [1..CyclesInWindow -> Nat]

IsCharges(f, ledger, n) ==
  f \in [0..n -> Nat] /\ \A k \in 0..n : f[k] = IF k = 0 THEN 0 ELSE f[k - 1] + ledger[k]

(* The recursive definition of Charges is the function it looks like.       *)
LEMMA ChargesDefined ==
  ASSUME NEW ledger \in Ledgers
  PROVE  IsCharges(Charges(ledger), ledger, CyclesInWindow)
  <1> DEFINE C == CyclesInWindow
             S == {n \in Nat : n =< C => \E f : IsCharges(f, ledger, n)}
  <1>0. C \in Nat
    OBVIOUS
  <1>1. 0 \in S
    <2>1. PICK f : f = [k \in 0..0 |-> 0]
      OBVIOUS
    <2>2. IsCharges(f, ledger, 0)
      BY <2>1 DEF IsCharges
    <2> QED
      BY <2>2
  <1>2. \A n \in 0..C : n \in S /\ n < C => n + 1 \in S
    <2> SUFFICES ASSUME NEW n \in 0..C, n \in S, n < C PROVE n + 1 \in S
      OBVIOUS
    <2>1. PICK f : IsCharges(f, ledger, n)
      BY <1>0
    <2>2. f[n] \in Nat /\ ledger[n + 1] \in Nat /\ n \in Nat
      BY <1>0, <2>1 DEF IsCharges, Ledgers
    <2>3. PICK g : g = [k \in 0..n + 1 |-> IF k =< n THEN f[k] ELSE f[n] + ledger[n + 1]]
      OBVIOUS
    <2>4. g \in [0..n + 1 -> Nat]
      BY <2>1, <2>2, <2>3 DEF IsCharges
    <2>5. \A k \in 0..n : g[k] = f[k] /\ (k # 0 => g[k - 1] = f[k - 1])
      <3>1. \A k \in 0..n : /\ k \in 0..n + 1 /\ k =< n
                            /\ k # 0 => k - 1 \in 0..n + 1 /\ k - 1 =< n
        BY <2>2
      <3> QED
        BY <2>3, <3>1
    <2>6. g[n + 1] = g[(n + 1) - 1] + ledger[n + 1] /\ n + 1 # 0
      <3>1. n + 1 \in 0..n + 1 /\ n \in 0..n + 1 /\ (n + 1) - 1 = n
        BY <2>2
      <3>2. ~(n + 1 =< n) /\ n =< n /\ n + 1 # 0
        BY <2>2
      <3> QED
        BY <2>3, <3>1, <3>2
    <2>7. \A k \in 0..n : g[k] = IF k = 0 THEN 0 ELSE g[k - 1] + ledger[k]
      BY <2>1, <2>5 DEF IsCharges
    <2>8. \A k \in 0..n + 1 : g[k] = IF k = 0 THEN 0 ELSE g[k - 1] + ledger[k]
      BY <2>2, <2>6, <2>7
    <2>9. IsCharges(g, ledger, n + 1)
      BY <2>4, <2>8 DEF IsCharges
    <2> QED
      BY <2>2, <2>9
  <1> HIDE DEF S
  <1>3. C \in S
    BY <1>0, <1>1, <1>2, Upwards
  <1>4. PICK f : IsCharges(f, ledger, C)
    BY <1>0, <1>3 DEF S
  <1>5. f = [k \in 0..C |-> IF k = 0 THEN 0 ELSE f[k - 1] + ledger[k]]
    BY <1>4 DEF IsCharges
  <1> DEFINE G(c) == [k \in 0..C |-> IF k = 0 THEN 0 ELSE c[k - 1] + ledger[k]]
  <1>6. Charges(ledger) = CHOOSE c : c = G(c)
    BY DEF Charges
  <1>7. f = G(f)
    BY <1>5
  <1> HIDE DEF G
  <1>8. Charges(ledger) = G(Charges(ledger))
    BY <1>6, <1>7
  <1>9. PICK c : c = Charges(ledger)
    OBVIOUS
  <1>10. \A k \in 0..C : c[k] = IF k = 0 THEN 0 ELSE c[k - 1] + ledger[k]
    BY <1>8, <1>9 DEF G
  <1> DEFINE T == {k \in 0..C : c[k] \in Nat}
  <1>11. 0 \in T
    BY <1>10
  <1>12. \A k \in 0..C : k \in T /\ k < C => k + 1 \in T
    <2> SUFFICES ASSUME NEW k \in 0..C, k \in T, k < C PROVE k + 1 \in T
      OBVIOUS
    <2>1. k + 1 \in 0..C /\ k + 1 # 0 /\ (k + 1) - 1 = k /\ ledger[k + 1] \in Nat
      BY DEF Ledgers
    <2>2. c[k + 1] = c[(k + 1) - 1] + ledger[k + 1]
      BY <1>10, <2>1
    <2> QED
      BY <2>1, <2>2
  <1>13. \A k \in 0..C : c[k] \in Nat
    BY <1>0, <1>11, <1>12, Upwards
  <1>14. c \in [0..C -> Nat]
    BY <1>8, <1>9, <1>13 DEF G
  <1> QED
    BY <1>9, <1>10, <1>14 DEF IsCharges

LEMMA ChargesAre ==
  ASSUME NEW ledger \in Ledgers
  PROVE  /\ Charges(ledger) \in [0..CyclesInWindow -> Nat] /\ Charges(ledger)[0] = 0
         /\ \A k \in 1..CyclesInWindow : Charges(ledger)[k] = Charges(ledger)[k - 1] + ledger[k]
  BY ChargesDefined DEF IsCharges

LEMMA ChargesType ==
  ASSUME NEW ledger \in Ledgers, NEW k \in 1..CyclesInWindow
  PROVE  Charges(ledger)[k] \in Nat
  <1>1. k \in 0..CyclesInWindow
    OBVIOUS
  <1> QED
    BY <1>1, ChargesAre, Zenon

(* Running totals do not fall.                                              *)
LEMMA ChargesGrow ==
  ASSUME NEW ledger \in Ledgers, NEW k \in 0..CyclesInWindow
  PROVE  Charges(ledger)[k] =< Charges(ledger)[CyclesInWindow]
  <1> DEFINE C == CyclesInWindow
  <1>1. PICK c : c = Charges(ledger)
    OBVIOUS
  <1>2. /\ C \in Nat /\ c \in [0..C -> Nat]
        /\ \A j \in 1..C : c[j] = c[j - 1] + ledger[j] /\ ledger[j] \in Nat
    BY <1>1, ChargesAre DEF Ledgers
  <1> DEFINE S == {m \in 0..C : \A j \in 0..m : c[j] =< c[m]}
  <1>3. 0 \in S
    BY <1>2
  <1>4. \A m \in 0..C : m \in S /\ m < C => m + 1 \in S
    <2> SUFFICES ASSUME NEW m \in 0..C, m \in S, m < C PROVE m + 1 \in S
      OBVIOUS
    <2>1. m + 1 \in 1..C /\ (m + 1) - 1 = m
      BY <1>2
    <2>2. c[m + 1] = c[m] + ledger[m + 1] /\ ledger[m + 1] \in Nat /\ \A j \in 0..C : c[j] \in Nat
      BY <1>2, <2>1
    <2>3. \A j \in 0..m : c[j] =< c[m] /\ c[j] \in Nat
      BY <1>2, <2>2
    <2>4. c[m] \in Nat /\ c[m + 1] \in Nat /\ c[m + 1] >= c[m] /\ m \in Nat
      BY <2>1, <2>2
    <2>5. \A j \in 0..m + 1 : j \in 0..m \/ j = m + 1
      BY <2>4
    <2>6. \A j \in 0..m + 1 : c[j] =< c[m + 1]
      BY <2>3, <2>4, <2>5
    <2> QED
      BY <2>1, <2>6
  <1>5. C \in S
    <2> HIDE DEF S
    <2>1. \A m \in 0..C : m \in S
      BY <1>2, <1>3, <1>4, Upwards
    <2> QED
      BY <1>2, <2>1
  <1> QED
    BY <1>1, <1>5

(* A request adds one to the totals of every number of cycles.              *)
LEMMA OneMoreCharge ==
  ASSUME NEW ledger \in Ledgers, NEW later \in Ledgers, later[1] = ledger[1] + 1,
         \A k \in 2..CyclesInWindow : later[k] = ledger[k]
  PROVE  \A k \in 1..CyclesInWindow : Charges(later)[k] = Charges(ledger)[k] + 1
  <1> DEFINE C == CyclesInWindow
  <1>1. PICK c, d : c = Charges(ledger) /\ d = Charges(later)
    OBVIOUS
  <1>2. /\ C \in Nat /\ c \in [0..C -> Nat] /\ d \in [0..C -> Nat] /\ c[0] = 0 /\ d[0] = 0
        /\ \A j \in 1..C : c[j] = c[j - 1] + ledger[j] /\ d[j] = d[j - 1] + later[j]
        /\ \A j \in 1..C : ledger[j] \in Nat /\ later[j] \in Nat
    BY <1>1, ChargesAre DEF Ledgers
  <1> DEFINE S == {m \in 0..C : m = 0 \/ d[m] = c[m] + 1}
  <1>3. 0 \in S
    BY <1>2
  <1>4. \A m \in 0..C : m \in S /\ m < C => m + 1 \in S
    <2> SUFFICES ASSUME NEW m \in 0..C, m \in S, m < C PROVE m + 1 \in S
      OBVIOUS
    <2>1. m + 1 \in 1..C /\ (m + 1) - 1 = m
      BY <1>2
    <2>2. c[m + 1] = c[m] + ledger[m + 1] /\ d[m + 1] = d[m] + later[m + 1]
      BY <1>2, <2>1
    <2>3. CASE m = 0
      <3>1. m + 1 = 1 /\ c[m] = 0 /\ d[m] = 0
        BY <1>2, <2>3
      <3>2. ledger[m + 1] \in Nat /\ later[m + 1] = ledger[m + 1] + 1
        BY <1>2, <2>1, <3>1
      <3>3. d[m + 1] = c[m + 1] + 1
        BY <2>2, <3>1, <3>2
      <3> QED
        BY <2>1, <3>3
    <2>4. CASE m # 0
      <3>0. m + 1 \in 2..C
        BY <1>2, <2>1, <2>4
      <3>1. later[m + 1] = ledger[m + 1] /\ d[m] = c[m] + 1
        BY <2>4, <3>0
      <3>2. c[m] \in Nat /\ ledger[m + 1] \in Nat
        BY <1>2, <2>1
      <3> QED
        BY <2>1, <2>2, <3>1, <3>2
    <2> QED
      BY <2>3, <2>4
  <1>5. \A m \in 0..C : m \in S
    <2> HIDE DEF S
    <2> QED
      BY <1>2, <1>3, <1>4, Upwards
  <1> QED
    BY <1>1, <1>5

(* When a cycle begins, the totals move on by one cycle.                    *)
LEMMA CycleBegins ==
  ASSUME NEW ledger \in Ledgers, NEW later \in Ledgers, later[1] = 0,
         \A k \in 2..CyclesInWindow : later[k] = ledger[k - 1]
  PROVE  \A k \in 1..CyclesInWindow : Charges(later)[k] = Charges(ledger)[k - 1]
  <1> DEFINE C == CyclesInWindow
  <1>1. PICK c, d : c = Charges(ledger) /\ d = Charges(later)
    OBVIOUS
  <1>2. /\ C \in Nat /\ c \in [0..C -> Nat] /\ d \in [0..C -> Nat] /\ c[0] = 0 /\ d[0] = 0
        /\ \A j \in 1..C : c[j] = c[j - 1] + ledger[j] /\ d[j] = d[j - 1] + later[j]
    BY <1>1, ChargesAre
  <1> DEFINE S == {m \in 0..C : m = 0 \/ d[m] = c[m - 1]}
  <1>3. 0 \in S
    BY <1>2
  <1>4. \A m \in 0..C : m \in S /\ m < C => m + 1 \in S
    <2> SUFFICES ASSUME NEW m \in 0..C, m \in S, m < C PROVE m + 1 \in S
      OBVIOUS
    <2>1. m + 1 \in 1..C /\ (m + 1) - 1 = m
      BY <1>2
    <2>2. d[m + 1] = d[m] + later[m + 1]
      BY <1>2, <2>1
    <2>3. CASE m = 0
      BY <1>2, <2>1, <2>2, <2>3
    <2>4. CASE m # 0
      <3>1. later[m + 1] = ledger[m] /\ d[m] = c[m - 1] /\ c[m] = c[m - 1] + ledger[m]
        <4>1. m + 1 \in 2..C /\ m \in 1..C
          BY <1>2, <2>1, <2>4
        <4> QED
          BY <1>2, <2>1, <2>4, <4>1
      <3> QED
        BY <2>1, <2>2, <3>1
    <2> QED
      BY <2>3, <2>4
  <1>5. \A m \in 0..C : m \in S
    <2> HIDE DEF S
    <2> QED
      BY <1>2, <1>3, <1>4, Upwards
  <1> QED
    BY <1>1, <1>5
-----------------------------------------------------------------------------
(* A user's cycle and the bootstrap's are entered in this cycle's record,   *)
(* and between the pause and the ranking it is the loop's turn.             *)
Turns ==
  /\ phase \in {"rank", "refresh"} /\ caller = "user" => others[1]
  /\ caller = "boot" => others[1]
  /\ phase = "top" => caller = "loop"

(* The requests the cycle under way may still make: a plain slice before    *)
(* the candidates are ranked, and then what is left of its slice.           *)
Owed ==
  IF phase = "refresh" THEN Len(slice)
  ELSE IF phase \in {"top", "rank"} THEN SymbolsPerCycle ELSE 0

Fits == SymbolsPerCycle * CyclesInWindow =< MaxRequests

(* As far back as nobody else refreshed, the cycles have left a plain slice for *)
(* each of the cycles that will share a window with them.                   *)
LeavesEnough ==
  Fits =>
    \A k \in 1..CyclesInWindow :
      (\A i \in 1..k : ~others[i]) =>
        Charges(spent)[k] + Owed + (CyclesInWindow - k) * SymbolsPerCycle =< MaxRequests

IInv == TypeOK /\ Turns /\ LeavesEnough
-----------------------------------------------------------------------------
USE ScoresAssumption

LEMMA OldestType == Oldest \in Nat
  <1>1. AgeCap + AgePerCycle - 1 \in Nat /\ AgePerCycle \in Nat \ {0}
    OBVIOUS
  <1> QED
    BY <1>1 DEF Oldest

LEMMA SpentType == TypeOK => spent \in Ledgers
  <1>1. 0..MaxRequests \subseteq Nat
    OBVIOUS
  <1> QED
    BY <1>1 DEF TypeOK, Ledgers

LEMMA SpentTypeNext == TypeOK' => spent' \in Ledgers
  <1>1. 0..MaxRequests \subseteq Nat
    OBVIOUS
  <1> QED
    BY <1>1 DEF TypeOK, Ledgers

LEMMA RemainingType ==
  ASSUME TypeOK
  PROVE  /\ spent \in Ledgers /\ Remaining \in Int
         /\ Remaining > 0 => spent[1] < MaxRequests
  <1>1. spent \in Ledgers /\ 1 \in 1..CyclesInWindow /\ MaxRequests \in Nat
    BY DEF TypeOK, Ledgers
  <1>2. PICK c : c = Charges(spent)
    OBVIOUS
  <1>3. /\ c \in [0..CyclesInWindow -> Nat] /\ c[0] = 0 /\ c[1] = c[1 - 1] + spent[1]
        /\ c[1] =< c[CyclesInWindow]
    BY <1>1, <1>2, ChargesAre, ChargesGrow
  <1>4. Remaining = MaxRequests - c[CyclesInWindow] /\ c[CyclesInWindow] \in Nat
    BY <1>1, <1>2, <1>3 DEF Remaining
  <1>5. spent[1] \in Nat /\ c[1] = spent[1]
    BY <1>1, <1>3 DEF Ledgers
  <1> QED
    BY <1>1, <1>3, <1>4, <1>5

(* More than a plain slice is taken only if as many are left for every      *)
(* cycle of a window.                                                       *)
LEMMA TakeIsFair ==
  ASSUME TypeOK
  PROVE  Take \in 1..N /\ (Take =< SymbolsPerCycle \/ Take * CyclesInWindow =< Remaining)
  <1>1. PICK share : share = Remaining \div CyclesInWindow
    OBVIOUS
  <1>2. share \in Int /\ share * CyclesInWindow =< Remaining
    BY <1>1, RemainingType
  <1>3. PICK take : take = Take
    OBVIOUS
  <1>4. /\ take \in 1..N
        /\ take =< SymbolsPerCycle \/ take =< share
    BY <1>1, <1>2, <1>3 DEF Take, Most, Least
  <1>5. take =< share => take * CyclesInWindow =< share * CyclesInWindow
    BY <1>2, <1>4
  <1> QED
    BY <1>2, <1>3, <1>4, <1>5, RemainingType

(* A plain slice for this cycle, and for each that it shares a window with. *)
LEMMA SliceOfEach ==
  ASSUME NEW k \in 1..CyclesInWindow
  PROVE  \E share \in Nat, all \in Nat :
           /\ share = (CyclesInWindow - k) * SymbolsPerCycle
           /\ all = SymbolsPerCycle * CyclesInWindow
           /\ share + SymbolsPerCycle =< all
  <1>1. PICK S, C : S = SymbolsPerCycle /\ C = CyclesInWindow
    OBVIOUS
  <1>2. S \in Nat /\ C \in Nat /\ k \in 1..C /\ C - k \in Nat /\ C - k + 1 \in Nat
    BY <1>1
  <1>3. (C - k) * S + S = (C - k + 1) * S /\ (C - k) * S \in Nat
    BY <1>2
  <1>4. (C - k + 1) * S =< C * S
    <2>1. PICK m \in Nat : m = k - 1
      BY <1>2
    <2>2. C * S = (C - m) * S + m * S /\ m * S \in Nat /\ (C - m) * S \in Int
      BY <1>2, <2>1
    <2>3. C - m = C - k + 1
      BY <1>2, <2>1
    <2> QED
      BY <2>2, <2>3
  <1>5. S * C = C * S /\ C * S \in Nat
    BY <1>2
  <1>6. PICK share, all : share = (C - k) * S /\ all = S * C
    OBVIOUS
  <1>7. share \in Nat /\ all \in Nat /\ share + S =< all
    BY <1>3, <1>4, <1>5, <1>6
  <1> QED
    BY <1>1, <1>6, <1>7

LEMMA InitIInv == Init => IInv
  <1> SUFFICES ASSUME Init PROVE IInv
    OBVIOUS
  <1> USE DEF Init
  <1>1. TypeOK
    <2>1. /\ age \in [Symbols -> {Never} \cup 0..Oldest]
          /\ stale \in [Symbols -> BOOLEAN] /\ evaluated \in [Symbols -> BOOLEAN]
          /\ others \in [1..CyclesInWindow -> BOOLEAN] /\ slice \in Seq(Symbols)
      OBVIOUS
    <2>2. /\ spent \in [1..CyclesInWindow -> 0..MaxRequests] /\ sinceScan \in 0..ScanEvery
          /\ warm \in 0..WarmCycles
      OBVIOUS
    <2> QED
      BY <2>1, <2>2 DEF TypeOK
  <1>2. others[1]
    <2>1. 1 \in 1..CyclesInWindow
      OBVIOUS
    <2> QED
      BY <2>1, Zenon
  <1>3. Turns
    BY <1>2 DEF Turns
  <1>4. LeavesEnough
    <2>1. \A k \in 1..CyclesInWindow : 1 \in 1..k
      OBVIOUS
    <2> QED
      BY <1>2, <2>1 DEF LeavesEnough
  <1> QED
    BY <1>1, <1>3, <1>4 DEF IInv

LEMMA SliceType ==
  ASSUME TypeOK, NEW take \in 1..N, slice' \in Slices(take)
  PROVE  slice' \in Seq(Symbols) /\ Len(slice') = take
  <1>1. slice' \in [1..take -> Symbols] /\ take \in Nat
    BY DEF Slices
  <1> QED
    BY <1>1

LEMMA TypeStep == TypeOK /\ [Next]_vars => TypeOK'
  <1> SUFFICES ASSUME TypeOK, [Next]_vars PROVE TypeOK'
    OBVIOUS
  <1> USE DEF candidates, budget
  <1>0. Oldest \in Nat /\ N \in 1..N /\ 1 \in 1..CyclesInWindow
    BY OldestType
  <1>1. CASE UNCHANGED vars
    BY <1>1 DEF vars, TypeOK
  <1>2. CASE Wait
    <2>1. age' \in [Symbols -> {Never} \cup 0..Oldest]
      <3>1. ASSUME NEW s \in Symbols, age[s] # Never
            PROVE  Least(Oldest, age[s] + 1) \in 0..Oldest
        <4>1. age[s] \in 0..Oldest
          BY <3>1 DEF TypeOK
        <4> QED
          BY <1>0, <4>1 DEF Least
      <3> HIDE DEF Never
      <3> QED
        BY <1>2, <3>1 DEF Wait
    <2>2. spent' \in [1..CyclesInWindow -> 0..MaxRequests]
      <3>1. \A i \in 1..CyclesInWindow : i # 1 => i - 1 \in 1..CyclesInWindow
        OBVIOUS
      <3>2. 0 \in 0..MaxRequests /\ spent \in [1..CyclesInWindow -> 0..MaxRequests]
        BY DEF TypeOK
      <3> QED
        BY <1>2, <3>1, <3>2, Zenon DEF Wait
    <2>3. others' \in [1..CyclesInWindow -> BOOLEAN]
      BY <1>2 DEF Wait
    <2>4. sinceScan' \in 0..ScanEvery
      BY <1>2 DEF Wait, TypeOK, Least
    <2> QED
      BY <1>2, <2>1, <2>2, <2>3, <2>4 DEF Wait, TypeOK
  <1>3. CASE Scan \/ NoScan \/ RankRaises
    <2>1. UNCHANGED <<candidates, budget, caller, slice>> /\ warm' \in {0, warm}
      BY <1>3 DEF Scan, NoScan, RankRaises
    <2>2. phase' \in {"rank", "wait"} /\ trouble' \in BOOLEAN /\ sinceScan' \in 0..ScanEvery
      <3>1. phase' \in {"rank", "wait"} /\ sinceScan' \in {0, sinceScan}
        BY <1>3 DEF Scan, NoScan, RankRaises
      <3>2. trouble' \in {TRUE, trouble} /\ trouble \in BOOLEAN
        BY <1>3, Zenon DEF Scan, NoScan, RankRaises, TypeOK
      <3>3. sinceScan \in 0..ScanEvery /\ 0 \in 0..ScanEvery
        BY DEF TypeOK
      <3> QED
        BY <3>1, <3>2, <3>3
    <2>3. warm' \in 0..WarmCycles /\ slice' = slice /\ caller' = caller
      BY <2>1 DEF TypeOK
    <2> QED
      BY <2>1, <2>2, <2>3 DEF TypeOK
  <1>4. CASE Rank
    <2>1. PICK take \in {Take} \cup {N} : slice' \in Slices(take)
      BY <1>4 DEF Rank
    <2>2. take \in 1..N
      BY <1>0, <2>1, TakeIsFair
    <2>3. slice' \in Seq(Symbols)
      BY <2>1, <2>2, SliceType
    <2> QED
      BY <1>4, <2>3 DEF Rank, TypeOK
  <1>5. ASSUME NEW s \in Symbols, Refresh(s) PROVE TypeOK'
    <2>1. /\ slice # <<>> /\ slice \in Seq(Symbols) /\ UNCHANGED <<others, sinceScan, caller>>
          /\ warm' \in {0, warm}
      BY <1>5 DEF Refresh, Refused, Unanswered, Unevaluable, Refreshed, Answered, HistoryRaises,
                  Refreshing, NextInSlice, TypeOK
    <2>2. slice' \in Seq(Symbols) /\ phase' \in {"wait", "refresh"} /\ trouble' \in BOOLEAN
      <3>1. Tail(slice) \in Seq(Symbols) /\ <<>> \in Seq(Symbols)
        BY <2>1
      <3> QED
        BY <1>5, <3>1 DEF Refresh, Refused, Unanswered, Unevaluable, Refreshed, HistoryRaises,
                          NextInSlice, TypeOK
    <2>3. spent' \in [1..CyclesInWindow -> 0..MaxRequests]
      <3>1. spent' = spent \/ (Remaining > 0 /\ Charge)
        BY <1>5 DEF Refresh, Refused, Unanswered, Unevaluable, Refreshed, Answered, HistoryRaises
      <3>2. Remaining > 0 => spent[1] + 1 \in 0..MaxRequests
        <4>1. spent[1] \in 0..MaxRequests
          BY <1>0 DEF TypeOK
        <4> QED
          BY <4>1, RemainingType
      <3> QED
        BY <3>1, <3>2 DEF Charge, TypeOK
    <2>4. /\ age' \in [Symbols -> {Never} \cup 0..Oldest]
          /\ stale' \in [Symbols -> BOOLEAN] /\ evaluated' \in [Symbols -> BOOLEAN]
      <3>1. 0 \in 0..Oldest
        BY <1>0
      <3>2. CASE Refused(s) \/ Unanswered(s)
        <4>1. Failed(s)
          BY <3>2, Zenon DEF Refused, Unanswered
        <4> QED
          BY <3>1, <4>1 DEF Failed, TypeOK
      <3>3. CASE Unevaluable(s)
        BY <3>1, <3>3 DEF Unevaluable, TypeOK
      <3>4. CASE Refreshed(s) \/ HistoryRaises(s)
        BY <3>1, <3>4 DEF Refreshed, HistoryRaises, Answered, TypeOK
      <3> QED
        BY <1>5, <3>2, <3>3, <3>4 DEF Refresh
    <2>5. others' = others /\ sinceScan' = sinceScan /\ caller' = caller /\ warm' \in 0..WarmCycles
      BY <2>1 DEF TypeOK
    <2> QED
      BY <2>2, <2>3, <2>4, <2>5, Zenon DEF TypeOK
  <1>6. CASE UserAsks
    BY <1>0, <1>6 DEF UserAsks, TypeOK
  <1>7. CASE WarmsAgain \/ LoopStarts
    <2>1. warm' \in 0..WarmCycles
      BY <1>7 DEF WarmsAgain, LoopStarts, TypeOK
    <2> QED
      BY <1>7, <2>1 DEF WarmsAgain, LoopStarts, TypeOK
  <1> QED
    BY <1>1, <1>2, <1>3, <1>4, <1>5, <1>6, <1>7 DEF Next, Cycle

LEMMA TurnsStep == TypeOK /\ Turns /\ [Next]_vars => Turns'
  <1> SUFFICES ASSUME TypeOK, Turns, [Next]_vars PROVE Turns'
    OBVIOUS
  <1> USE DEF candidates, budget
  <1>1. CASE UNCHANGED vars
    BY <1>1 DEF vars, Turns
  <1>2. CASE WarmsAgain \/ LoopStarts \/ Wait \/ Scan \/ NoScan \/ Rank \/ RankRaises
    BY <1>2 DEF WarmsAgain, LoopStarts, Wait, Scan, NoScan, Rank, RankRaises, Turns
  <1>3. ASSUME NEW s \in Symbols, Refresh(s) PROVE Turns'
    <2>1. phase = "refresh" /\ phase' \in {"wait", "refresh"} /\ others' = others /\ caller' = caller
      BY <1>3 DEF Refresh, Refused, Unanswered, Unevaluable, Refreshed, Answered, HistoryRaises,
                  Refreshing, NextInSlice
    <2> QED
      BY <2>1 DEF Turns
  <1>4. CASE UserAsks
    <2>1. others'[1] /\ phase' = "rank"
      BY <1>4 DEF UserAsks, TypeOK
    <2> QED
      BY <2>1 DEF Turns
  <1> QED
    BY <1>1, <1>2, <1>3, <1>4 DEF Next, Cycle

(* What LeavesEnough says of the last k cycles, as a sum of three numbers.  *)
LEMMA Enough ==
  ASSUME TypeOK, LeavesEnough, Fits, NEW k \in 1..CyclesInWindow, \A i \in 1..k : ~others[i]
  PROVE  /\ Charges(spent)[k] \in Nat /\ Owed \in Nat
         /\ (CyclesInWindow - k) * SymbolsPerCycle \in Nat
         /\ Charges(spent)[k] + Owed + (CyclesInWindow - k) * SymbolsPerCycle =< MaxRequests
  <1>1. Charges(spent)[k] \in Nat
    BY SpentType, ChargesType
  <1>2. Owed \in Nat
    BY DEF Owed, TypeOK
  <1>3. (CyclesInWindow - k) * SymbolsPerCycle \in Nat
    BY SliceOfEach
  <1> QED
    BY <1>1, <1>2, <1>3 DEF LeavesEnough

LEMMA WaitLeaves == TypeOK /\ TypeOK' /\ LeavesEnough /\ Wait => LeavesEnough'
  <1> SUFFICES ASSUME TypeOK, TypeOK', LeavesEnough, Wait, Fits,
                      NEW k \in 1..CyclesInWindow, \A i \in 1..k : ~others'[i]
               PROVE  Charges(spent')[k] + Owed' + (CyclesInWindow - k) * SymbolsPerCycle =< MaxRequests
    BY DEF LeavesEnough, Fits
  <1>1. Owed' = SymbolsPerCycle /\ Owed = 0
    BY DEF Wait, Owed
  <1>2. Charges(spent')[k] = Charges(spent)[k - 1]
    <2>1. spent \in Ledgers /\ spent' \in Ledgers
      BY SpentType, SpentTypeNext
    <2>2. spent'[1] = 0 /\ \A i \in 2..CyclesInWindow : spent'[i] = spent[i - 1]
      BY DEF Wait
    <2> QED
      BY <2>1, <2>2, CycleBegins
  <1>3. PICK share \in Nat, all \in Nat : /\ share = (CyclesInWindow - k) * SymbolsPerCycle
                                          /\ all = SymbolsPerCycle * CyclesInWindow
                                          /\ share + SymbolsPerCycle =< all
    BY SliceOfEach
  <1>4. share \in Nat /\ all \in Nat /\ share + SymbolsPerCycle =< all /\ all =< MaxRequests
    BY <1>3 DEF Fits
  <1>5. CASE k = 1
    <2>1. Charges(spent')[k] = 0
      BY <1>2, <1>5, RemainingType, ChargesAre
    <2> QED
      BY <1>1, <1>3, <1>4, <2>1
  <1>6. CASE k # 1
    <2>1. k - 1 \in 1..CyclesInWindow
      BY <1>6
    <2>2. \A i \in 1..k - 1 : ~others[i]
      <3>1. \A i \in 1..k - 1 : i + 1 \in 1..k /\ i + 1 \in 1..CyclesInWindow /\ i + 1 > 1 /\ (i + 1) - 1 = i
        OBVIOUS
      <3>2. \A i \in 1..k - 1 : others'[i + 1] = (i + 1 > 1 /\ others[(i + 1) - 1])
        BY <3>1 DEF Wait
      <3> QED
        BY <3>1, <3>2
    <2>3. /\ Charges(spent)[k - 1] \in Nat
          /\ Charges(spent)[k - 1] + Owed + (CyclesInWindow - (k - 1)) * SymbolsPerCycle =< MaxRequests
      BY <2>1, <2>2, Enough
    <2>4. (CyclesInWindow - (k - 1)) * SymbolsPerCycle = share + SymbolsPerCycle
      <3>1. CyclesInWindow - (k - 1) = (CyclesInWindow - k) + 1
        OBVIOUS
      <3>2. ((CyclesInWindow - k) + 1) * SymbolsPerCycle = (CyclesInWindow - k) * SymbolsPerCycle + SymbolsPerCycle
        OBVIOUS
      <3> QED
        BY <1>3, <3>1, <3>2
    <2> QED
      BY <1>1, <1>2, <1>3, <1>4, <2>3, <2>4
  <1> QED
    BY <1>5, <1>6

LEMMA RankLeaves == TypeOK /\ TypeOK' /\ Turns /\ LeavesEnough /\ Rank => LeavesEnough'
  <1> SUFFICES ASSUME TypeOK, TypeOK', Turns, LeavesEnough, Rank, Fits,
                      NEW k \in 1..CyclesInWindow, \A i \in 1..k : ~others'[i]
               PROVE  Charges(spent')[k] + Owed' + (CyclesInWindow - k) * SymbolsPerCycle =< MaxRequests
    BY DEF LeavesEnough, Fits
  <1>1. spent' = spent /\ others' = others /\ phase = "rank" /\ phase' = "refresh"
    BY DEF Rank, budget
  <1>2. caller = "loop"
    <2>1. 1 \in 1..k /\ caller \in {"boot", "loop", "user"}
      BY DEF TypeOK
    <2>2. ~others[1]
      BY <1>1, <2>1
    <2> QED
      BY <1>1, <2>1, <2>2 DEF Turns
  <1>3. Take \in 1..N /\ Owed' = Take /\ Owed = SymbolsPerCycle
    <2>1. slice' \in Slices(Take)
      BY <1>2 DEF Rank
    <2> QED
      BY <1>1, <2>1, TakeIsFair, SliceType DEF Owed
  <1>4. PICK t, c, share : t = Take /\ c = Charges(spent) /\ share = (CyclesInWindow - k) * SymbolsPerCycle
    OBVIOUS
  <1>5. /\ c[k] \in Nat /\ c[CyclesInWindow] \in Nat /\ c[k] =< c[CyclesInWindow] /\ share \in Nat
        /\ c[k] + SymbolsPerCycle + share =< MaxRequests
        /\ Remaining = MaxRequests - c[CyclesInWindow]
    <2>1. /\ c[k] \in Nat /\ share \in Nat
          /\ c[k] + SymbolsPerCycle + share =< MaxRequests
      BY <1>1, <1>3, <1>4, Enough
    <2>2. c[k] =< c[CyclesInWindow] /\ c[CyclesInWindow] \in Nat
      <3>1. k \in 0..CyclesInWindow /\ CyclesInWindow \in 0..CyclesInWindow
        OBVIOUS
      <3> QED
        BY <1>4, <3>1, RemainingType, ChargesGrow, ChargesAre
    <2> QED
      BY <1>4, <2>1, <2>2 DEF Remaining
  <1>6. CASE t =< SymbolsPerCycle
    BY <1>1, <1>3, <1>4, <1>5, <1>6
  <1>7. CASE t > SymbolsPerCycle
    <2>1. t * CyclesInWindow =< MaxRequests - c[CyclesInWindow]
      BY <1>3, <1>4, <1>5, <1>7, TakeIsFair
    <2>2. t + share =< t * CyclesInWindow
      <3>1. PICK S, C : S = SymbolsPerCycle /\ C = CyclesInWindow
        OBVIOUS
      <3>2. S \in Nat /\ C \in Nat /\ k \in 1..C /\ t \in Nat /\ t > S
        BY <1>3, <1>4, <1>7, <3>1
      <3>3. (C - k) * S =< (C - k) * t
        <4>1. PICK m \in Nat, d \in Nat : m = C - k /\ d = t - S
          BY <3>2
        <4>2. m * t = m * S + m * d /\ m * S \in Nat /\ m * d \in Nat
          <5>1. t = S + d
            BY <3>2, <4>1
          <5> QED
            BY <3>2, <4>1, <5>1
        <4> QED
          BY <4>1, <4>2
      <3>4. (C - k) * t + t =< C * t
        <4>1. PICK m \in Nat : m = k - 1
          BY <3>2
        <4>2. C * t = (C - m) * t + m * t /\ m * t \in Nat /\ (C - m) * t \in Int
          BY <3>2, <4>1
        <4>3. (C - m) * t = (C - k) * t + t
          <5>1. C - m = (C - k) + 1
            BY <3>2, <4>1
          <5>2. ((C - k) + 1) * t = (C - k) * t + t
            BY <3>2
          <5> QED
            BY <5>1, <5>2
        <4> QED
          BY <4>2, <4>3
      <3>5. (C - k) * S \in Int /\ (C - k) * t \in Int /\ C * t \in Int
        BY <3>2
      <3>6. t + (C - k) * S =< C * t
        BY <3>2, <3>3, <3>4, <3>5
      <3>7. C * t = t * C
        BY <3>2
      <3> QED
        BY <1>4, <3>1, <3>6, <3>7
    <2>3. t \in Nat /\ t * CyclesInWindow \in Nat
      BY <1>3, <1>4
    <2>4. c[k] + t + share =< MaxRequests
      BY <1>5, <2>1, <2>2, <2>3
    <2> QED
      BY <1>1, <1>3, <1>4, <2>4
  <1> QED
    BY <1>3, <1>4, <1>6, <1>7

LEMMA RefreshLeaves ==
  ASSUME TypeOK, TypeOK', LeavesEnough, NEW s \in Symbols, Refresh(s)
  PROVE  LeavesEnough'
  <1> SUFFICES ASSUME Fits, NEW k \in 1..CyclesInWindow, \A i \in 1..k : ~others'[i]
               PROVE  Charges(spent')[k] + Owed' + (CyclesInWindow - k) * SymbolsPerCycle =< MaxRequests
    BY DEF LeavesEnough, Fits
  <1>1. phase = "refresh" /\ slice # <<>> /\ others' = others
    BY DEF Refresh, Refused, Unanswered, Unevaluable, Refreshed, Answered, HistoryRaises,
       Refreshing, NextInSlice
  <1>2. /\ phase' \in {"wait", "refresh"}
        /\ slice' = Tail(slice) \/ slice' = <<>>
        /\ spent' = spent \/ Charge
    BY DEF Refresh, Refused, Unanswered, Unevaluable, Refreshed, Answered, HistoryRaises,
       NextInSlice
  <1>3. Len(slice) \in Nat \ {0} /\ Len(Tail(slice)) = Len(slice) - 1
    BY <1>1 DEF TypeOK
  <1>4. Owed = Len(slice) /\ Owed' \in Nat /\ Owed' + 1 =< Owed
    BY <1>1, <1>2, <1>3 DEF Owed
  <1>5. Charges(spent')[k] =< Charges(spent)[k] + 1 /\ Charges(spent')[k] \in Nat
    <2>1. spent \in Ledgers /\ spent' \in Ledgers
      BY SpentType, SpentTypeNext
    <2>2. Charges(spent)[k] \in Nat /\ Charges(spent')[k] \in Nat
      BY <2>1, ChargesType
    <2>3. CASE Charge
      <3>1. spent'[1] = spent[1] + 1 /\ \A i \in 2..CyclesInWindow : spent'[i] = spent[i]
        BY <2>1, <2>3 DEF Charge, Ledgers
      <3>2. Charges(spent')[k] = Charges(spent)[k] + 1
        BY <2>1, <3>1, OneMoreCharge
      <3> QED
        BY <2>2, <3>2
    <2> QED
      BY <1>2, <2>2, <2>3
  <1>6. PICK share, before, after, owed, left :
          /\ share = (CyclesInWindow - k) * SymbolsPerCycle
          /\ before = Charges(spent)[k] /\ after = Charges(spent')[k]
          /\ owed = Owed /\ left = Owed'
    OBVIOUS
  <1>7. before \in Nat /\ owed \in Nat /\ share \in Nat /\ before + owed + share =< MaxRequests
    BY <1>1, <1>6, Enough
  <1>8. after \in Nat /\ after =< before + 1 /\ left \in Nat /\ left + 1 =< owed
    BY <1>4, <1>5, <1>6
  <1>9. after + left + share =< MaxRequests
    BY <1>7, <1>8
  <1> QED
    BY <1>6, <1>9

LEMMA LeavesStep == TypeOK /\ TypeOK' /\ Turns /\ LeavesEnough /\ [Next]_vars => LeavesEnough'
  <1> SUFFICES ASSUME TypeOK, TypeOK', Turns, LeavesEnough, [Next]_vars PROVE LeavesEnough'
    OBVIOUS
  <1> USE DEF candidates, budget
  <1>1. ASSUME spent' = spent, others' = others, Owed' \in Nat, Owed' =< Owed PROVE LeavesEnough'
    <2> SUFFICES ASSUME Fits, NEW k \in 1..CyclesInWindow, \A i \in 1..k : ~others'[i]
                 PROVE  Charges(spent')[k] + Owed' + (CyclesInWindow - k) * SymbolsPerCycle =< MaxRequests
      BY DEF LeavesEnough, Fits
    <2>1. PICK share : share = (CyclesInWindow - k) * SymbolsPerCycle
      OBVIOUS
    <2>2. /\ Charges(spent)[k] \in Nat /\ Owed \in Nat /\ share \in Nat
          /\ Charges(spent)[k] + Owed + share =< MaxRequests
      BY <1>1, <2>1, Enough
    <2> QED
      BY <1>1, <2>1, <2>2
  <1>2. CASE UNCHANGED vars
    <2>1. Owed' = Owed /\ Owed \in Nat
      BY <1>2 DEF vars, Owed, TypeOK
    <2> QED
      BY <1>1, <1>2, <2>1 DEF vars
  <1>3. CASE Scan \/ NoScan \/ RankRaises
    <2>1. spent' = spent /\ others' = others /\ phase \in {"top", "rank"} /\ phase' \in {"rank", "wait"}
      BY <1>3 DEF Scan, NoScan, RankRaises
    <2>2. Owed = SymbolsPerCycle /\ Owed' \in {0, SymbolsPerCycle}
      BY <2>1 DEF Owed
    <2> QED
      BY <1>1, <2>1, <2>2
  <1>4. CASE UserAsks
    <2>1. others'[1] /\ \A k \in 1..CyclesInWindow : 1 \in 1..k
      BY <1>4 DEF UserAsks, TypeOK
    <2> QED
      BY <2>1 DEF LeavesEnough
  <1>5. CASE WarmsAgain \/ LoopStarts
    <2>1. others'[1] /\ \A k \in 1..CyclesInWindow : 1 \in 1..k
      BY <1>5 DEF WarmsAgain, LoopStarts, Turns
    <2> QED
      BY <2>1 DEF LeavesEnough
  <1> QED
    BY <1>2, <1>3, <1>4, <1>5, WaitLeaves, RankLeaves, RefreshLeaves DEF Next, Cycle

LEMMA InvStep == IInv /\ [Next]_vars => IInv'
  BY TypeStep, TurnsStep, LeavesStep DEF IInv

LEMMA Inductive == Spec => []IInv
  BY InitIInv, InvStep, PTL DEF Spec

(* No cycle is charged more than the budget, whatever slices are taken and  *)
(* whatever requests fail (historical_budget_remaining).                    *)
THEOREM ScheduleTypes == Spec => []TypeOK
  <1>1. IInv => TypeOK
    BY DEF IInv
  <1> QED
    BY <1>1, Inductive, PTL

(* A loop cycle is refused only if a user or the bootstrap refreshed within *)
(* the window, when the plain slice fits into the budget                    *)
(* (compute_symbols_per_cycle).                                             *)
THEOREM AdaptiveSliceIsSafe == Spec => RefusedOnlyBesideOthers
  <1> DEFINE Guarded ==
        SymbolsPerCycle * CyclesInWindow =< MaxRequests /\ caller = "loop" =>
          \A s \in Symbols : Refused(s) => \E i \in 1..CyclesInWindow : others[i]
  <1>1. IInv => Guarded
    <2> SUFFICES ASSUME IInv, Fits, NEW s \in Symbols, Refused(s),
                        \A i \in 1..CyclesInWindow : ~others[i]
                 PROVE  FALSE
      BY DEF Fits
    <2>1. phase = "refresh" /\ slice # <<>> /\ Remaining = 0
      BY DEF Refused, Refreshing
    <2>2. Owed \in Nat \ {0}
      BY <2>1 DEF Owed, IInv, TypeOK
    <2>3. PICK c : c = Charges(spent)[CyclesInWindow]
      OBVIOUS
    <2>4. CyclesInWindow \in 1..CyclesInWindow
      OBVIOUS
    <2>5. c \in Nat /\ c + Owed + (CyclesInWindow - CyclesInWindow) * SymbolsPerCycle =< MaxRequests
      BY <2>3, <2>4, Enough DEF IInv
    <2>6. (CyclesInWindow - CyclesInWindow) * SymbolsPerCycle = 0 /\ MaxRequests \in Nat
      OBVIOUS
    <2>7. MaxRequests = c
      <3>1. c + Owed + 0 =< MaxRequests
        BY <2>5, <2>6
      <3>2. MaxRequests - c = 0
        BY <2>1, <2>3 DEF Remaining
      <3> QED
        BY <2>5, <2>6, <3>2
    <2> QED
      BY <2>2, <2>5, <2>6, <2>7
  <1>2. Guarded => [Guarded]_vars
    OBVIOUS
  <1> QED
    BY <1>1, <1>2, Inductive, PTL DEF RefusedOnlyBesideOthers

(* A candidate that has waited Oldest cycles has all that age adds to its   *)
(* score, so ages beyond it tell no two rankings apart                      *)
(* (score_refresh_priority).                                                *)
THEOREM OldestIsOldEnough == \A a \in Nat : a >= Oldest => AgeTerm(a) = AgeCap
  <1> SUFFICES ASSUME NEW a \in Nat, a >= Oldest PROVE AgeTerm(a) = AgeCap
    OBVIOUS
  <1>1. PICK q, P : q = Oldest /\ P = AgePerCycle
    OBVIOUS
  <1>2. P \in Nat \ {0} /\ q \in Nat /\ a >= q /\ AgeCap \in Nat
    BY <1>1, OldestType
  <1>3. q * P >= AgeCap
    <2>1. PICK sum : sum = AgeCap + P - 1
      OBVIOUS
    <2>2. sum \in Nat /\ q = sum \div P
      BY <1>1, <1>2, <2>1 DEF Oldest
    <2>3. sum = P * q + (sum % P) /\ sum % P \in 0..P - 1
      BY <1>2, <2>2
    <2> QED
      BY <1>2, <2>1, <2>3
  <1>4. a * P >= q * P
    <2>1. PICK d \in Nat : d = a - q
      BY <1>2
    <2>2. a * P = q * P + d * P /\ d * P \in Nat /\ q * P \in Nat
      <3>1. a = q + d
        BY <1>2, <2>1
      <3> QED
        BY <1>2, <2>1, <3>1
    <2> QED
      BY <2>2
  <1>5. a * P \in Nat /\ a * P >= AgeCap
    BY <1>2, <1>3, <1>4
  <1> QED
    BY <1>1, <1>5 DEF AgeTerm, Least
-----------------------------------------------------------------------------
(* The ranking, and whom it can leave behind.                               *)

(* The terms of a score are numbers, and age adds no more than its cap.     *)
LEMMA ScoreTerms ==
  ASSUME TypeOK, NEW value \in Values, NEW s \in Symbols
  PROVE  /\ value[s] \in Nat /\ AgeTerm(age[s]) \in 0..AgeCap /\ Score(s, value) \in Nat
         /\ Score(s, value) >= value[s] + AgeTerm(age[s])
         /\ Score(s, value) =< value[s] + AgeTerm(age[s]) + StaleBonus
         /\ ~stale[s] => Score(s, value) = value[s] + AgeTerm(age[s])
  <1>1. age[s] \in Int /\ stale[s] \in BOOLEAN
    <2>1. age[s] \in {-1} \cup 0..Oldest /\ stale[s] \in BOOLEAN
      BY Zenon DEF TypeOK, Never
    <2> QED
      BY <2>1, OldestType
  <1>2. AgeTerm(age[s]) \in 0..AgeCap
    <2>1. PICK product : product = age[s] * AgePerCycle
      OBVIOUS
    <2>2. product \in Int
      <3>1. AgePerCycle \in Int /\ age[s] \in Int
        BY <1>1
      <3> QED
        BY <2>1, <3>1
    <2>3. FreshAge \in Nat /\ AgeCap \in Nat
      OBVIOUS
    <2>4. AgeTerm(age[s]) = IF product > FreshAge THEN Least(AgeCap, product) ELSE 0
      BY <2>1 DEF AgeTerm
    <2> QED
      BY <2>2, <2>3, <2>4 DEF Least
  <1>3. value[s] \in Nat
    <2>1. Worths[s] \subseteq Nat /\ Bonuses[s] \subseteq Nat
      BY RowsAssumption DEF Symbols
    <2>2. ValuesOf(s) \subseteq Nat
      BY <2>1 DEF ValuesOf
    <2> QED
      BY <2>2 DEF Values
  <1>4. PICK term : term = AgeTerm(age[s])
    OBVIOUS
  <1>5. Score(s, value) = value[s] + term + (IF stale[s] THEN StaleBonus ELSE 0)
    BY <1>4 DEF Score
  <1> QED
    BY <1>1, <1>2, <1>3, <1>4, <1>5

(* The sort key is total: whatever the rows are worth, exactly one of two   *)
(* candidates comes first, and what comes first stays so along the list     *)
(* (rank_symbols_for_refresh).                                              *)
THEOREM RankingIsTotal ==
  ASSUME TypeOK, NEW value \in Values
  PROVE  /\ \A s, t \in Symbols : s # t => (Before(s, t, value) <=> ~Before(t, s, value))
         /\ \A s \in Symbols : ~Before(s, s, value)
         /\ \A s, t, u \in Symbols :
              Before(s, t, value) /\ Before(t, u, value) => Before(s, u, value)
  <1>1. \A s \in Symbols : Score(s, value) \in Nat /\ s \in Int
    BY ScoreTerms DEF Symbols
  <1> QED
    BY <1>1 DEF Before

(* Among any candidates one comes first.                                    *)
LEMMA OneIsFirst ==
  ASSUME TypeOK, NEW value \in Values, NEW R \in SUBSET Symbols, R # {}
  PROVE  \E s \in R : \A t \in R \ {s} : Before(s, t, value)
  <1> DEFINE First(s, m) == \A t \in (R \cap 1..m) \ {s} : Before(s, t, value)
             S == {m \in 0..N : R \cap 1..m # {} => \E s \in R \cap 1..m : First(s, m)}
  <1>1. 0 \in S
    <2>1. 1..0 = {}
      OBVIOUS
    <2> QED
      BY <2>1
  <1>2. ASSUME NEW m \in 0..N, m \in S, m < N PROVE m + 1 \in S
    <2>1. 1..m + 1 = (1..m) \cup {m + 1} /\ m + 1 \in 0..N /\ m + 1 \notin 1..m
      <3> HIDE DEF S
      <3> QED
        BY <1>2
    <2>2. CASE m + 1 \notin R
      <3>1. R \cap 1..m + 1 = R \cap 1..m
        BY <2>1, <2>2
      <3>2. \A s : First(s, m + 1) <=> First(s, m)
        BY <3>1
      <3> QED
        BY <1>2, <2>1, <3>1, <3>2
    <2>3. CASE m + 1 \in R /\ R \cap 1..m = {}
      <3>1. R \cap 1..m + 1 = {m + 1}
        BY <2>1, <2>3
      <3>2. First(m + 1, m + 1)
        BY <3>1
      <3> QED
        BY <2>1, <3>1, <3>2
    <2>4. CASE m + 1 \in R /\ R \cap 1..m # {}
      <3>1. PICK s \in R \cap 1..m : First(s, m)
        BY <1>2, <2>4
      <3>2. s \in Symbols /\ s # m + 1 /\ (Before(s, m + 1, value) \/ Before(m + 1, s, value))
        BY <2>1, <2>4, RankingIsTotal
      <3>3. CASE Before(s, m + 1, value)
        <4>1. First(s, m + 1)
          BY <2>1, <3>1, <3>3
        <4> QED
          BY <2>1, <3>1, <4>1
      <3>4. CASE Before(m + 1, s, value)
        <4>1. ASSUME NEW t \in R \cap 1..m PROVE Before(m + 1, t, value)
          <5>1. t = s \/ Before(s, t, value)
            BY <3>1
          <5> QED
            BY <2>4, <3>2, <3>4, <5>1, RankingIsTotal
        <4>2. First(m + 1, m + 1)
          BY <2>1, <4>1
        <4> QED
          BY <2>1, <2>4, <4>2
      <3> QED
        BY <3>2, <3>3, <3>4
    <2> QED
      BY <2>2, <2>3, <2>4
  <1>3. N \in 0..N /\ N \in S
    <2> HIDE DEF S
    <2>1. N \in Nat /\ N \in 0..N
      OBVIOUS
    <2>2. 0..N \subseteq S
      BY <1>1, <1>2, <2>1, Upwards
    <2> QED
      BY <2>1, <2>2
  <1>4. R \cap 1..N = R
    BY DEF Symbols
  <1> QED
    BY <1>3, <1>4

(* Fewer picks than candidates leave somebody out.                          *)
LEMMA SomebodyIsLeft ==
  ASSUME NEW k \in 0..N, k < N, NEW q \in [1..k -> Symbols]
  PROVE  Symbols \ Range(q) # {}
  <1> SUFFICES ASSUME Symbols \subseteq Range(q) PROVE FALSE
    OBVIOUS
  <1>1. q \in Surjection(1..k, Symbols)
    BY DEF Surjection, Range
  <1>2. Cardinality(Symbols) =< k
    BY <1>1, FS_SurjCardinalityBound DEF ExistsSurjection
  <1>3. Cardinality(Symbols) = N
    BY FS_Interval DEF Symbols
  <1> QED
    BY <1>2, <1>3

(* Whatever the rows are worth and however many are asked for, the ranking  *)
(* has a slice to give: no cycle is stuck at it (refresh_all).              *)
THEOREM SlicesExist ==
  ASSUME TypeOK, NEW take \in 1..N
  PROVE  Slices(take) # {}
  <1>1. PICK value : value \in Values
    <2>1. ASSUME NEW s \in Symbols PROVE ValuesOf(s) # {}
      <3>1. PICK w, b : w \in Worths[s] /\ b \in Bonuses[s]
        BY RowsAssumption DEF Symbols
      <3> QED
        BY <3>1 DEF ValuesOf
    <2> DEFINE pick == [s \in Symbols |-> CHOOSE v : v \in ValuesOf(s)]
    <2>2. \A s \in Symbols : pick[s] \in ValuesOf(s)
      BY <2>1
    <2> QED
      BY <2>2 DEF Values
  <1> DEFINE Best(q, k) ==
               /\ q \in [1..k -> Symbols]
               /\ \A i, j \in 1..k : i < j => Before(q[i], q[j], value)
               /\ \A i \in 1..k : \A t \in Symbols \ Range(q) : Before(q[i], t, value)
             S == {k \in 0..take : \E q : Best(q, k)}
  <1>2. 0 \in S
    <2>1. 1..0 = {} /\ 0 \in 0..take
      OBVIOUS
    <2>2. Best([i \in {} |-> 1], 0)
      BY <2>1
    <2> QED
      BY <2>1, <2>2
  <1>3. ASSUME NEW k \in 0..take, k \in S, k < take PROVE k + 1 \in S
    <2>1. PICK q : Best(q, k)
      BY <1>3
    <2> DEFINE R == Symbols \ Range(q)
    <2>2. PICK s \in R : \A t \in R \ {s} : Before(s, t, value)
      <3>1. k \in 0..N /\ k < N
        BY <1>3
      <3>2. R # {} /\ R \in SUBSET Symbols
        BY <2>1, <3>1, SomebodyIsLeft
      <3> QED
        BY <1>1, <3>2, OneIsFirst
    <2> DEFINE p == [i \in 1..k + 1 |-> IF i =< k THEN q[i] ELSE s]
    <2>3. /\ 1..k + 1 = (1..k) \cup {k + 1} /\ k + 1 \in 0..take
          /\ \A i \in 1..k : p[i] = q[i]
          /\ p[k + 1] = s /\ p \in [1..k + 1 -> Symbols]
      <3>1. /\ 1..k + 1 = (1..k) \cup {k + 1} /\ k + 1 \in 0..take
            /\ \A i \in 1..k : i =< k /\ i \in 1..k + 1
            /\ ~(k + 1 =< k) /\ k + 1 \in 1..k + 1
        <4> HIDE DEF S
        <4> QED
          BY <1>3
      <3>2. q \in [1..k -> Symbols] /\ s \in Symbols
        BY <2>1, <2>2
      <3> HIDE DEF S, R
      <3> QED
        BY <3>1, <3>2
    <2>4. Symbols \ Range(p) = R \ {s}
      <3>1. Range(p) = Range(q) \cup {s}
        <4>1. DOMAIN p = (1..k) \cup {k + 1} /\ DOMAIN q = 1..k
          BY <2>1, <2>3
        <4>2. \A i \in 1..k : p[i] = q[i]
          BY <2>3
        <4>3. p[k + 1] = s
          BY <2>3
        <4> HIDE DEF p, R, S, Best
        <4> QED
          BY <4>1, <4>2, <4>3 DEF Range
      <3> QED
        BY <3>1
    <2> HIDE DEF p, R
    <2>5. \A i, j \in 1..k + 1 : i < j => Before(p[i], p[j], value)
      <3> SUFFICES ASSUME NEW i \in 1..k + 1, NEW j \in 1..k + 1, i < j
                   PROVE  Before(p[i], p[j], value)
        OBVIOUS
      <3>1. i \in 1..k
        <4> HIDE DEF S, Best
        <4> QED
          BY <1>3
      <3>2. CASE j \in 1..k
        BY <2>1, <2>3, <3>1, <3>2
      <3>3. CASE j = k + 1
        BY <2>1, <2>2, <2>3, <3>1, <3>3 DEF R
      <3> QED
        BY <2>3, <3>2, <3>3
    <2>6. \A i \in 1..k + 1 : \A t \in Symbols \ Range(p) : Before(p[i], t, value)
      <3> SUFFICES ASSUME NEW i \in 1..k + 1, NEW t \in R \ {s} PROVE Before(p[i], t, value)
        BY <2>4
      <3>1. CASE i \in 1..k
        BY <2>1, <2>3, <3>1 DEF R
      <3>2. CASE i = k + 1
        BY <2>2, <2>3, <3>2
      <3> QED
        BY <2>3, <3>1, <3>2
    <2>7. Best(p, k + 1)
      BY <2>3, <2>5, <2>6
    <2> QED
      BY <2>3, <2>7
  <1>4. take \in 0..take /\ take \in S
    <2> HIDE DEF S
    <2>1. take \in Nat
      OBVIOUS
    <2> QED
      BY <1>2, <1>3, <2>1, Upwards
  <1>5. PICK q : Best(q, take)
    BY <1>4
  <1>6. q \in Slices(take)
    BY <1>1, <1>5 DEF Slices
  <1> QED
    BY <1>6

(* While no row is worth as much more as age may add, who has waited       *)
(* Oldest cycles comes before everybody who has just been refreshed         *)
(* (score_refresh_priority).                                                *)
THEOREM AgeMakesUpForWorth ==
  ASSUME TypeOK, NEW value \in Values,
         NEW s \in Symbols, age[s] = Oldest,
         NEW t \in Symbols, age[t] = 0, ~stale[t], value[t] < value[s] + AgeCap
  PROVE  Before(s, t, value)
  <1>1. AgeTerm(age[s]) = AgeCap
    BY OldestType, OldestIsOldEnough
  <1>2. AgeTerm(age[t]) = 0
    BY DEF AgeTerm
  <1>3. /\ Score(t, value) = value[t] + 0 /\ Score(s, value) >= value[s] + AgeCap
        /\ Score(s, value) \in Nat /\ value[s] \in Nat /\ value[t] \in Nat
    BY <1>1, <1>2, ScoreTerms
  <1> QED
    BY <1>3 DEF Before

(* If it is worth more than age and staleness can add, no waiting helps: a  *)
(* candidate comes after every such row, however old it is and however      *)
(* fresh the other (score_refresh_priority).                                *)
THEOREM NoAgeMakesUpForMore ==
  ASSUME TypeOK, NEW value \in Values,
         NEW s \in Symbols,
         NEW t \in Symbols, value[t] > value[s] + AgeCap + StaleBonus
  PROVE  Before(t, s, value)
  <1>1. PICK term : term = AgeTerm(age[s])
    OBVIOUS
  <1>2. /\ term \in 0..AgeCap /\ value[s] \in Nat /\ value[t] \in Nat
        /\ Score(s, value) \in Nat /\ Score(t, value) \in Nat
        /\ Score(s, value) =< value[s] + term + StaleBonus
    BY <1>1, ScoreTerms
  <1>3. AgeTerm(age[t]) \in 0..AgeCap /\ Score(t, value) >= value[t] + AgeTerm(age[t])
    BY ScoreTerms
  <1>4. Score(t, value) >= value[t]
    BY <1>2, <1>3
  <1> QED
    BY <1>2, <1>4 DEF Before

(* A candidate without a first pass that was added by hand has only its     *)
(* row to put forward: it comes after every row that is worth as much and   *)
(* is older than FRESH_WITHIN_S, in every cycle, however many go by         *)
(* (score_refresh_priority).                                                *)
THEOREM UntriedComesLast ==
  ASSUME TypeOK, NEW value \in Values,
         NEW s \in Symbols, age[s] = Never, ~stale[s], Bonuses[s] = {0},
         NEW t \in Symbols, value[t] >= value[s], age[t] * AgePerCycle > FreshAge
  PROVE  value[s] \in Worths[s] /\ Before(t, s, value)
  <1>1. AgeTerm(age[s]) = 0
    BY DEF AgeTerm, Never
  <1>2. PICK term : term = AgeTerm(age[t])
    OBVIOUS
  <1>3. term > 0
    <2>1. PICK years : years = age[t] * AgePerCycle
      OBVIOUS
    <2>2. age[t] \in Int
      BY OldestType DEF TypeOK, Never
    <2>3. years \in Int /\ years > 0
      BY <2>1, <2>2
    <2> QED
      BY <1>2, <2>1, <2>3 DEF AgeTerm, Least
  <1>4. /\ value[s] \in Nat /\ value[t] \in Nat /\ term \in 0..AgeCap
        /\ Score(s, value) = value[s] + 0 /\ Score(t, value) >= value[t] + term
        /\ Score(t, value) \in Nat
    BY <1>1, <1>2, ScoreTerms
  <1>5. Before(t, s, value)
    BY <1>3, <1>4 DEF Before
  <1>6. value[s] \in Worths[s]
    <2>1. value[s] \in ValuesOf(s) /\ Worths[s] \subseteq Nat
      BY RowsAssumption DEF Values, Symbols
    <2> QED
      BY <2>1 DEF ValuesOf
  <1> QED
    BY <1>5, <1>6
=============================================================================
