------------------------ MODULE LiveProvider_proofs ------------------------
(***************************************************************************)
(* LiveProvider holds, for every number of callers, sessions, requests and *)
(* ticks: its types, the lock and socket discipline, the bound on the      *)
(* pacing window, and that it implements RateBudget.                       *)
(*                                                                         *)
(* The window bound is not inductive as it stands.  What a thread that     *)
(* passed the check may still send has to be counted with what was sent:   *)
(* WindowInv does, and a check that succeeds re-establishes it from        *)
(* scratch, because it saw fewer than MaxRequests and at most every thread *)
(* is past its check.                                                      *)
(***************************************************************************)
EXTENDS LiveProvider, FiniteSetTheorems, TLAPS

(* A thread whose check succeeded and whose request is not yet sent. *)
Owing == {t \in Threads : /\ op[t] = "collect"
                          /\ pc[t] \in {"connect", "probe", "handshake", "converse", "contract"}}

(* The lock is held exactly through a probe or a conversation, and the     *)
(* session object is where the thread that holds it needs it.              *)
LockInv ==
  /\ \A t \in Threads : (owner = t) <=> pc[t] \in Probing \cup Conversing
  /\ \A t \in Threads : pc[t] \in Conversing => using[t] = session /\ session # NoSession
  /\ \A t \in Threads : pc[t] \in Probing => session = NoSession
  /\ \A t \in Threads : pc[t] = "contract" => op[t] = "collect"

SocketInv ==
  /\ session # NoSession => session \in open
  /\ candidate # NoSession => /\ candidate \in open
                              /\ owner \in Threads
                              /\ pc[owner] \in Probing
  /\ \A t \in Threads : pc[t] = "handshake" => candidate \in open
  /\ open \subseteq {session, candidate}

WindowInv ==
  /\ IsFiniteSet(sent)
  /\ PruneLosesNothing
  /\ Cardinality(Budget!InWindow(sent, clock)) + Cardinality(Owing)
       <= MaxRequests + Cardinality(Threads) - 1

IInv == TypeOK /\ LockInv /\ SocketInv /\ WindowInv
-----------------------------------------------------------------------------
USE ThreadsAssumption, SessionsAssumption, PacingAssumption

(* A part of a finite set has no more elements than the set. *)
LEMMA PartIsSmaller ==
  ASSUME NEW S, IsFiniteSet(S), NEW T, T \subseteq S
  PROVE  /\ IsFiniteSet(T)
         /\ Cardinality(T) \in Nat
         /\ Cardinality(S) \in Nat
         /\ Cardinality(T) <= Cardinality(S)
  BY FS_Subset, FS_CardinalityType

(* The window is a part of what it counts. *)
LEMMA WindowIsPart ==
  ASSUME NEW S, NEW now
  PROVE  Budget!InWindow(S, now) \subseteq S
  BY DEF Budget!InWindow

(* As time passes requests only leave the window. *)
LEMMA WindowShrinks ==
  ASSUME NEW S, S \subseteq Requests, NEW now \in Int
  PROVE  Budget!InWindow(S, now + 1) \subseteq Budget!InWindow(S, now)
  BY DEF Budget!InWindow, Requests

(* Pruning the list yields the window of everything ever sent. *)
LEMMA PruneIsWindow ==
  ASSUME PruneLosesNothing
  PROVE  Prune = Budget!InWindow(sent, clock)
  BY DEF PruneLosesNothing, Prune, Budget!InWindow

LEMMA Counts ==
  ASSUME IsFiniteSet(sent)
  PROVE  /\ Cardinality(sent) \in Nat
         /\ Cardinality(Budget!InWindow(sent, clock)) \in Nat
         /\ IsFiniteSet(Owing)
         /\ Cardinality(Owing) \in Nat
         /\ Cardinality(Threads) \in Nat
         /\ Cardinality(Owing) <= Cardinality(Threads)
  <1>1. Owing \subseteq Threads  BY DEF Owing
  <1>2. QED  BY <1>1, PartIsSmaller, WindowIsPart, FS_CardinalityType

LEMMA InitIInv == Init => IInv
  <1> SUFFICES ASSUME Init PROVE IInv  OBVIOUS
  <1>1. TypeOK  BY DEF Init, TypeOK, Requests, Results, Places, Probing, Conversing
  <1>2. LockInv /\ SocketInv  BY DEF Init, LockInv, SocketInv, Probing, Conversing
  <1>3. Budget!InWindow(sent, clock) = {}  BY DEF Init, Budget!InWindow
  <1>4. Owing = {}  BY DEF Init, Owing
  <1>5. Cardinality(Threads) \in Nat /\ Cardinality(Threads) # 0
    BY FS_CardinalityType, FS_EmptySet
  <1>6. WindowInv
    <2>1. IsFiniteSet(sent)  BY FS_EmptySet DEF Init
    <2>2. PruneLosesNothing  BY <1>3 DEF Init, PruneLosesNothing
    <2>3. Cardinality(Budget!InWindow(sent, clock)) + Cardinality(Owing) = 0
      BY <1>3, <1>4, FS_EmptySet
    <2>4. QED  BY <1>5, <2>1, <2>2, <2>3 DEF WindowInv
  <1>7. QED  BY <1>1, <1>2, <1>6 DEF IInv
-----------------------------------------------------------------------------
(* Every step keeps the types. *)
LEMMA TypeStep == IInv /\ [Next]_vars => TypeOK'
  <1> SUFFICES ASSUME IInv, [Next]_vars PROVE TypeOK'  OBVIOUS
  <1> USE DEF TypeOK, Places, Probing, Conversing, Results
  <1>0. TypeOK  BY DEF IInv
  <1>1. ASSUME NEW t \in Threads, BeginCollect(t) PROVE TypeOK'
    <2>1. Prune \subseteq requestTimes  BY WindowIsPart DEF Prune
    <2>2. QED  BY <1>0, <1>1, <2>1 DEF BeginCollect, Goto, Returns, socketVars
  <1>2. ASSUME NEW t \in Threads, BeginScan(t) PROVE TypeOK'
    BY <1>0, <1>2 DEF BeginScan, Goto, socketVars, pacingVars
  <1>3. ASSUME NEW t \in Threads, Close(t) PROVE TypeOK'
    BY <1>0, <1>3 DEF Close, CloseSession, pacingVars
  <1>4. ASSUME NEW t \in Threads, EnsureConnected(t) PROVE TypeOK'
    BY <1>0, <1>4 DEF EnsureConnected, CloseSession, Goto, pacingVars, socketVars
  <1>5. ASSUME NEW t \in Threads, OpenConversation(t) PROVE TypeOK'
    <2>1. (IF op[t] = "collect" THEN "contract" ELSE "scan") \in Places  OBVIOUS
    <2>2. QED
      BY <1>0, <1>5, <2>1 DEF OpenConversation, Goto, Returns, pacingVars, socketVars
  <1>6. ASSUME NEW t \in Threads, NEW s \in Sessions, ProbeOpens(t, s) PROVE TypeOK'
    BY <1>0, <1>6 DEF ProbeOpens, Goto, pacingVars
  <1>6a. ASSUME NEW t \in Threads, HandshakeEnds(t) PROVE TypeOK'
    BY <1>0, <1>6a DEF HandshakeEnds, Goto, pacingVars, IInv, SocketInv
  <1>7. ASSUME NEW t \in Threads, ProbeReady(t) PROVE TypeOK'
    BY <1>0, <1>7 DEF ProbeReady, Goto, pacingVars
  <1>8. ASSUME NEW t \in Threads, ProbeRejects(t) PROVE TypeOK'
    BY <1>0, <1>8 DEF ProbeRejects, pacingVars
  <1>9. ASSUME NEW t \in Threads, ProbeFails(t) PROVE TypeOK'
    BY <1>0, <1>9 DEF ProbeFails, Goto, Returns, Release, pacingVars, socketVars
  <1>9a. ASSUME NEW t \in Threads, ProbeRaises(t) PROVE TypeOK'
    BY <1>0, <1>9a DEF ProbeRaises, Goto, Returns, Release, pacingVars
  <1>10. ASSUME NEW t \in Threads, ContractUnresolved(t) PROVE TypeOK'
    BY <1>0, <1>10 DEF ContractUnresolved, Goto, Returns, Release, pacingVars, socketVars
  <1>11. ASSUME NEW t \in Threads, SendHistorical(t) PROVE TypeOK'
    <2>1. Prune \subseteq requestTimes  BY WindowIsPart DEF Prune
    <2>2. Cardinality(sent) + 1 \in Nat  BY Counts DEF IInv, WindowInv
    <2>3. [id |-> Cardinality(sent) + 1, at |-> clock] \in Requests
      BY <1>0, <2>2 DEF Requests
    <2>4. QED  BY <1>0, <1>11, <2>1, <2>3 DEF SendHistorical, Goto, socketVars
  <1>12. ASSUME NEW t \in Threads, HistoricalReturns(t) PROVE TypeOK'
    BY <1>0, <1>12 DEF HistoricalReturns, Goto, pacingVars, socketVars
  <1>13. ASSUME NEW t \in Threads, QuoteReturns(t) \/ ScanReturns(t) PROVE TypeOK'
    BY <1>0, <1>13 DEF QuoteReturns, ScanReturns, Goto, Release, pacingVars, socketVars
  <1>14. ASSUME NEW s \in Sessions, SocketDrops(s) PROVE TypeOK'
    BY <1>0, <1>14 DEF SocketDrops, pacingVars
  <1>15. ASSUME Tick PROVE TypeOK'
    BY <1>0, <1>15 DEF Tick, pacingVars, socketVars
  <1>16. ASSUME UNCHANGED vars PROVE TypeOK'
    BY <1>0, <1>16 DEF vars, pacingVars, socketVars
  <1>17. QED
    BY <1>1, <1>2, <1>3, <1>4, <1>5, <1>6, <1>6a, <1>7, <1>8, <1>9, <1>9a, <1>10, <1>11, <1>12, <1>13,
       <1>14, <1>15, <1>16 DEF Next, Probe, Converse

(* Every step keeps the lock discipline: only a thread that finds the lock *)
(* free takes it, and the session object changes in no other hands.        *)
LEMMA LockStep == IInv /\ [Next]_vars => LockInv'
  <1> SUFFICES ASSUME IInv, [Next]_vars PROVE LockInv'  OBVIOUS
  <1> USE DEF TypeOK, LockInv, Places, Probing, Conversing
  <1>0. TypeOK /\ LockInv /\ SocketInv  BY DEF IInv
  <1>1. ASSUME NEW t \in Threads, BeginCollect(t) PROVE LockInv'
    BY <1>0, <1>1 DEF BeginCollect, LockFree, Goto, Returns, socketVars
  <1>2. ASSUME NEW t \in Threads, BeginScan(t) PROVE LockInv'
    BY <1>0, <1>2 DEF BeginScan, Goto, socketVars
  <1>3. ASSUME NEW t \in Threads, Close(t) PROVE LockInv'
    BY <1>0, <1>3 DEF Close, LockFree, CloseSession
  <1>4. ASSUME NEW t \in Threads, EnsureConnected(t) PROVE LockInv'
    BY <1>0, <1>4 DEF EnsureConnected, LockFree, CloseSession, Goto, socketVars
  <1>5. ASSUME NEW t \in Threads, OpenConversation(t) PROVE LockInv'
    BY <1>0, <1>5 DEF OpenConversation, LockFree, Goto, Returns, socketVars
  <1>6. ASSUME NEW t \in Threads, NEW s \in Sessions, ProbeOpens(t, s) PROVE LockInv'
    BY <1>0, <1>6 DEF ProbeOpens, Goto
  <1>6a. ASSUME NEW t \in Threads, HandshakeEnds(t) PROVE LockInv'
    BY <1>0, <1>6a DEF HandshakeEnds, Goto
  <1>7. ASSUME NEW t \in Threads, ProbeReady(t) PROVE LockInv'
    BY <1>0, <1>7 DEF ProbeReady, Goto
  <1>8. ASSUME NEW t \in Threads, ProbeRejects(t) PROVE LockInv'
    BY <1>0, <1>8 DEF ProbeRejects
  <1>9. ASSUME NEW t \in Threads, ProbeFails(t) PROVE LockInv'
    BY <1>0, <1>9 DEF ProbeFails, Goto, Returns, Release, socketVars
  <1>9a. ASSUME NEW t \in Threads, ProbeRaises(t) PROVE LockInv'
    BY <1>0, <1>9a DEF ProbeRaises, Goto, Returns, Release
  <1>10. ASSUME NEW t \in Threads, ContractUnresolved(t) PROVE LockInv'
    BY <1>0, <1>10 DEF ContractUnresolved, Goto, Returns, Release, socketVars
  <1>11. ASSUME NEW t \in Threads, SendHistorical(t) PROVE LockInv'
    BY <1>0, <1>11 DEF SendHistorical, Goto, socketVars
  <1>12. ASSUME NEW t \in Threads, HistoricalReturns(t) PROVE LockInv'
    BY <1>0, <1>12 DEF HistoricalReturns, Goto, socketVars
  <1>13. ASSUME NEW t \in Threads, QuoteReturns(t) \/ ScanReturns(t) PROVE LockInv'
    BY <1>0, <1>13 DEF QuoteReturns, ScanReturns, Goto, Release, socketVars
  <1>14. ASSUME (\E s \in Sessions : SocketDrops(s)) \/ Tick \/ UNCHANGED vars PROVE LockInv'
    BY <1>0, <1>14 DEF SocketDrops, Tick, vars, socketVars
  <1>15. QED
    BY <1>1, <1>2, <1>3, <1>4, <1>5, <1>6, <1>6a, <1>7, <1>8, <1>9, <1>9a, <1>10, <1>11, <1>12, <1>13,
       <1>14 DEF Next, Probe, Converse

(* Every step keeps the socket discipline: an object enters `open` only as *)
(* the candidate of a probe, and leaves it when it is shut down.           *)
LEMMA SocketStep == IInv /\ [Next]_vars => SocketInv'
  <1> SUFFICES ASSUME IInv, [Next]_vars PROVE SocketInv'  OBVIOUS
  <1> USE DEF TypeOK, LockInv, SocketInv, Places, Probing, Conversing
  <1>0. TypeOK /\ LockInv /\ SocketInv  BY DEF IInv
  <1>1. ASSUME NEW t \in Threads, BeginCollect(t) PROVE SocketInv'
    BY <1>0, <1>1 DEF BeginCollect, LockFree, Goto, Returns, socketVars
  <1>2. ASSUME NEW t \in Threads, BeginScan(t) PROVE SocketInv'
    BY <1>0, <1>2 DEF BeginScan, Goto, socketVars
  <1>3. ASSUME NEW t \in Threads, Close(t) PROVE SocketInv'
    BY <1>0, <1>3 DEF Close, LockFree, CloseSession
  <1>4. ASSUME NEW t \in Threads, EnsureConnected(t) PROVE SocketInv'
    BY <1>0, <1>4 DEF EnsureConnected, LockFree, CloseSession, Goto, socketVars
  <1>5. ASSUME NEW t \in Threads, OpenConversation(t) PROVE SocketInv'
    BY <1>0, <1>5 DEF OpenConversation, LockFree, Goto, Returns, socketVars
  <1>6. ASSUME NEW t \in Threads, NEW s \in Sessions, ProbeOpens(t, s) PROVE SocketInv'
    BY <1>0, <1>6 DEF ProbeOpens, Goto
  <1>6a. ASSUME NEW t \in Threads, HandshakeEnds(t) PROVE SocketInv'
    BY <1>0, <1>6a DEF HandshakeEnds, Goto
  <1>7. ASSUME NEW t \in Threads, ProbeReady(t) PROVE SocketInv'
    BY <1>0, <1>7 DEF ProbeReady, Goto
  <1>8. ASSUME NEW t \in Threads, ProbeRejects(t) PROVE SocketInv'
    BY <1>0, <1>8 DEF ProbeRejects
  <1>9. ASSUME NEW t \in Threads, ProbeFails(t) PROVE SocketInv'
    BY <1>0, <1>9 DEF ProbeFails, Goto, Returns, Release, socketVars
  <1>9a. ASSUME NEW t \in Threads, ProbeRaises(t) PROVE SocketInv'
    BY <1>0, <1>9a DEF ProbeRaises, Goto, Returns, Release
  <1>10. ASSUME NEW t \in Threads, ContractUnresolved(t) PROVE SocketInv'
    BY <1>0, <1>10 DEF ContractUnresolved, Goto, Returns, Release, socketVars
  <1>11. ASSUME NEW t \in Threads, SendHistorical(t) PROVE SocketInv'
    BY <1>0, <1>11 DEF SendHistorical, Goto, socketVars
  <1>12. ASSUME NEW t \in Threads, HistoricalReturns(t) PROVE SocketInv'
    BY <1>0, <1>12 DEF HistoricalReturns, Goto, socketVars
  <1>13. ASSUME NEW t \in Threads, QuoteReturns(t) \/ ScanReturns(t) PROVE SocketInv'
    BY <1>0, <1>13 DEF QuoteReturns, ScanReturns, Goto, Release, socketVars
  <1>14. ASSUME (\E s \in Sessions : SocketDrops(s)) \/ Tick \/ UNCHANGED vars PROVE SocketInv'
    BY <1>0, <1>14 DEF SocketDrops, Tick, vars, socketVars
  <1>15. QED
    BY <1>1, <1>2, <1>3, <1>4, <1>5, <1>6, <1>6a, <1>7, <1>8, <1>9, <1>9a, <1>10, <1>11, <1>12, <1>13,
       <1>14 DEF Next, Probe, Converse
-----------------------------------------------------------------------------
(* A step that sends nothing, lets no time pass and puts no thread past    *)
(* its check leaves the window bound alone.                                *)
LEMMA WindowKept ==
  ASSUME WindowInv, UNCHANGED <<sent, requestTimes, clock>>, Owing' \subseteq Owing
  PROVE  WindowInv'
  <1>1. Budget!InWindow(sent, clock)' = Budget!InWindow(sent, clock)
    BY DEF Budget!InWindow
  <1>2. Cardinality(Owing') <= Cardinality(Owing) /\ Cardinality(Owing') \in Nat
    BY Counts, PartIsSmaller DEF WindowInv
  <1>3. PruneLosesNothing'
    BY <1>1 DEF WindowInv, PruneLosesNothing
  <1>4. Cardinality(Budget!InWindow(sent, clock)') + Cardinality(Owing')
          <= MaxRequests + Cardinality(Threads) - 1
    BY <1>1, <1>2, Counts DEF WindowInv
  <1>5. QED  BY <1>3, <1>4 DEF WindowInv

(* The check.  One that succeeds saw fewer than MaxRequests in the window, *)
(* and however many threads owe a request, they are at most all of them.   *)
LEMMA WindowCheck ==
  ASSUME IInv, NEW t \in Threads, BeginCollect(t)
  PROVE  WindowInv'
  <1> USE DEF IInv, TypeOK
  <1>1. UNCHANGED <<sent, clock>> /\ requestTimes' = Budget!InWindow(sent, clock)
    BY PruneIsWindow DEF BeginCollect, WindowInv
  <1>2. Budget!InWindow(sent, clock)' = Budget!InWindow(sent, clock)
    BY <1>1 DEF Budget!InWindow
  <1>3. IsFiniteSet(sent')  BY <1>1 DEF WindowInv
  <1>4. PruneLosesNothing'
    BY <1>1, <1>2, WindowIsPart DEF PruneLosesNothing
  <1>5. Owing' \subseteq Threads  BY DEF Owing
  <1>6. /\ Cardinality(Owing') \in Nat
        /\ Cardinality(Owing') <= Cardinality(Threads)
    BY <1>5, PartIsSmaller
  <1>7. CASE BudgetRemains
    <2>1. Cardinality(Budget!InWindow(sent, clock)) < MaxRequests
      BY <1>7, PruneIsWindow DEF BudgetRemains, WindowInv
    <2>2. Cardinality(Budget!InWindow(sent, clock)') + Cardinality(Owing')
            <= MaxRequests + Cardinality(Threads) - 1
      BY <1>2, <1>6, <2>1, Counts DEF WindowInv
    <2>3. QED  BY <1>3, <1>4, <2>2 DEF WindowInv
  <1>8. CASE ~BudgetRemains
    <2>1. Owing' \subseteq Owing
      BY <1>8 DEF BeginCollect, Returns, Goto, Owing
    <2>2. Cardinality(Owing') <= Cardinality(Owing)
      BY <2>1, Counts, PartIsSmaller DEF WindowInv
    <2>3. Cardinality(Budget!InWindow(sent, clock)') + Cardinality(Owing')
            <= MaxRequests + Cardinality(Threads) - 1
      BY <1>2, <1>6, <2>2, Counts DEF WindowInv
    <2>4. QED  BY <1>3, <1>4, <2>3 DEF WindowInv
  <1>9. QED  BY <1>7, <1>8

(* The charge.  The window gains at most one request, and the thread that  *)
(* sent it owes it no more.                                                *)
LEMMA WindowSend ==
  ASSUME IInv, NEW t \in Threads, SendHistorical(t)
  PROVE  /\ WindowInv'
         /\ Cardinality(Budget!InWindow(sent, clock))
              < MaxRequests + Cardinality(Threads) - 1
  <1> DEFINE request == [id |-> Cardinality(sent) + 1, at |-> clock]
             before == Budget!InWindow(sent, clock)
             after == Budget!InWindow(sent', clock')
  <1> USE DEF IInv, TypeOK
  <1>1. /\ sent' = sent \cup {request}
        /\ requestTimes' = before \cup {request}
        /\ clock' = clock
    BY PruneIsWindow DEF SendHistorical, WindowInv
  <1>2. after \subseteq before \cup {request}
    BY <1>1 DEF Budget!InWindow
  <1>3. IsFiniteSet(sent') /\ IsFiniteSet(before)
    BY <1>1, FS_AddElement, WindowIsPart, PartIsSmaller DEF WindowInv
  <1>4. /\ Cardinality(after) \in Nat
        /\ Cardinality(after) <= Cardinality(before) + 1
    <2>1. IsFiniteSet(before \cup {request})  BY <1>3, FS_AddElement
    <2>2. Cardinality(before) \in Nat  BY <1>3, FS_CardinalityType
    <2>3. Cardinality(before \cup {request})
            = IF request \in before THEN Cardinality(before) ELSE Cardinality(before) + 1
      BY <1>3, FS_AddElement
    <2>4. /\ Cardinality(after) \in Nat
          /\ Cardinality(after) <= Cardinality(before \cup {request})
      BY <1>2, <2>1, PartIsSmaller
    <2>5. QED  BY <2>2, <2>3, <2>4
  <1>5. Owing' = Owing \ {t} /\ t \in Owing
    <2>1. op[t] = "collect"
      BY DEF SendHistorical, Goto, LockInv
    <2>2. QED  BY <2>1 DEF SendHistorical, Goto, Owing
  <1>6. Cardinality(Owing') = Cardinality(Owing) - 1 /\ Cardinality(Owing) # 0
    BY <1>5, Counts, FS_RemoveElement, FS_EmptySet DEF WindowInv
  <1>7. PruneLosesNothing'
    BY <1>1, <1>2, WindowIsPart DEF PruneLosesNothing, WindowInv
  <1>8. Cardinality(after) + Cardinality(Owing')
          <= MaxRequests + Cardinality(Threads) - 1
    BY <1>4, <1>6, Counts DEF WindowInv
  <1>9. Cardinality(before) < MaxRequests + Cardinality(Threads) - 1
    BY <1>6, Counts DEF WindowInv
  <1>10. QED  BY <1>3, <1>7, <1>8, <1>9 DEF WindowInv

(* Every step keeps the window bound. *)
LEMMA WindowStep == IInv /\ [Next]_vars => WindowInv'
  <1> SUFFICES ASSUME IInv, [Next]_vars PROVE WindowInv'  OBVIOUS
  <1>0. TypeOK /\ LockInv /\ WindowInv  BY DEF IInv
  <1>1. ASSUME NEW t \in Threads, BeginCollect(t) PROVE WindowInv'
    BY <1>1, WindowCheck
  <1>2. ASSUME NEW t \in Threads, SendHistorical(t) PROVE WindowInv'
    BY <1>2, WindowSend
  <1>3. ASSUME NEW t \in Threads, BeginScan(t) PROVE WindowInv'
    <2>1. Owing' \subseteq Owing  BY <1>0, <1>3 DEF BeginScan, Goto, Owing, TypeOK
    <2>2. QED  BY <1>0, <1>3, <2>1, WindowKept DEF BeginScan, pacingVars
  <1>4. ASSUME NEW t \in Threads, Close(t) PROVE WindowInv'
    BY <1>0, <1>4, WindowKept DEF Close, Owing, pacingVars
  <1>5. ASSUME NEW t \in Threads, EnsureConnected(t) PROVE WindowInv'
    <2>1. Owing' \subseteq Owing  BY <1>0, <1>5 DEF EnsureConnected, Goto, Owing, TypeOK
    <2>2. QED  BY <1>0, <1>5, <2>1, WindowKept DEF EnsureConnected, pacingVars
  <1>6. ASSUME NEW t \in Threads, OpenConversation(t) PROVE WindowInv'
    <2>1. Owing' \subseteq Owing
      BY <1>0, <1>6 DEF OpenConversation, Goto, Returns, Owing, TypeOK
    <2>2. QED  BY <1>0, <1>6, <2>1, WindowKept DEF OpenConversation, pacingVars
  <1>7. ASSUME NEW t \in Threads, Probe(t) \/ HandshakeEnds(t) PROVE WindowInv'
    <2>1. Owing' \subseteq Owing
      BY <1>0, <1>7 DEF Probe, ProbeOpens, ProbeReady, ProbeRejects, ProbeFails, ProbeRaises,
                        HandshakeEnds, Goto, Returns, Owing, TypeOK
    <2>2. UNCHANGED <<sent, requestTimes, clock>>
      BY <1>7 DEF Probe, ProbeOpens, ProbeReady, ProbeRejects, ProbeFails, ProbeRaises,
                   HandshakeEnds, pacingVars
    <2>3. QED  BY <1>0, <2>1, <2>2, WindowKept
  <1>8. ASSUME NEW t \in Threads,
               ContractUnresolved(t) \/ HistoricalReturns(t) \/ QuoteReturns(t) \/ ScanReturns(t)
        PROVE  WindowInv'
    <2>1. Owing' \subseteq Owing
      BY <1>0, <1>8 DEF ContractUnresolved, HistoricalReturns, QuoteReturns, ScanReturns,
                        Goto, Returns, Owing, TypeOK
    <2>2. UNCHANGED <<sent, requestTimes, clock>>
      BY <1>8 DEF ContractUnresolved, HistoricalReturns, QuoteReturns, ScanReturns, pacingVars
    <2>3. QED  BY <1>0, <2>1, <2>2, WindowKept
  <1>9. ASSUME NEW s \in Sessions, SocketDrops(s) PROVE WindowInv'
    BY <1>0, <1>9, WindowKept DEF SocketDrops, Owing, pacingVars
  <1>10. ASSUME Tick PROVE WindowInv'
    <2>1. UNCHANGED <<sent, requestTimes, Owing>> /\ clock' = clock + 1
      BY <1>10 DEF Tick, pacingVars, Owing
    <2>2. Budget!InWindow(sent', clock') \subseteq Budget!InWindow(sent, clock)
      BY <1>0, <2>1, WindowShrinks DEF TypeOK
    <2>3. IsFiniteSet(Budget!InWindow(sent, clock))
      BY <1>0, WindowIsPart, PartIsSmaller DEF WindowInv
    <2>4. /\ Cardinality(Budget!InWindow(sent', clock')) \in Nat
          /\ Cardinality(Budget!InWindow(sent', clock'))
               <= Cardinality(Budget!InWindow(sent, clock))
      BY <2>2, <2>3, PartIsSmaller
    <2>5. Cardinality(Budget!InWindow(sent', clock')) + Cardinality(Owing')
            <= MaxRequests + Cardinality(Threads) - 1
      BY <1>0, <2>1, <2>4, Counts DEF WindowInv
    <2>6. PruneLosesNothing'
      BY <1>0, <2>1, <2>2 DEF WindowInv, PruneLosesNothing
    <2>7. QED  BY <1>0, <2>1, <2>5, <2>6 DEF WindowInv
  <1>11. ASSUME UNCHANGED vars PROVE WindowInv'
    BY <1>0, <1>11, WindowKept DEF vars, pacingVars, Owing
  <1>12. QED
    BY <1>1, <1>2, <1>3, <1>4, <1>5, <1>6, <1>7, <1>8, <1>9, <1>10, <1>11 DEF Next, Converse
-----------------------------------------------------------------------------
(* The inductive invariant holds of every behaviour. *)
THEOREM Invariance == Spec => []IInv
  <1>1. IInv /\ [Next]_vars => IInv'
    BY TypeStep, LockStep, SocketStep, WindowStep DEF IInv
  <1>2. QED  BY InitIInv, <1>1, PTL DEF Spec

(* Every variable of the provider keeps its type. *)
THEOREM TypeCorrect == Spec => []TypeOK
  <1>1. IInv => TypeOK  BY DEF IInv
  <1>2. QED  BY <1>1, Invariance, PTL

(* _prune_pacing loses no request the window still counts. *)
THEOREM PruneIsLossless == Spec => []PruneLosesNothing
  <1>1. IInv => PruneLosesNothing  BY DEF IInv, WindowInv
  <1>2. QED  BY <1>1, Invariance, PTL

(* With any number of callers the window holds at most one request more    *)
(* than the budget per extra caller.                                       *)
THEOREM WindowBounded == Spec => []OvershootBounded
  <1>1. IInv => OvershootBounded
    BY Counts DEF IInv, WindowInv, OvershootBounded
  <1>2. QED  BY <1>1, Invariance, PTL

(* With a single caller the budget is never exceeded: what the pacing      *)
(* comment says holds when nothing runs beside the refresh loop.           *)
THEOREM SingleCallerKeepsBudget ==
  ASSUME NEW t, Threads = {t}
  PROVE  Spec => []NeverExceeded
  <1>1. Cardinality(Threads) = 1  BY FS_Singleton
  <1>2. IInv => NeverExceeded
    BY <1>1, Counts DEF IInv, WindowInv, NeverExceeded
  <1>3. QED  BY <1>2, Invariance, PTL

(* One conversation at a time, over the provider's own session. *)
THEOREM ConversationsExclude == Spec => []SingleConversation
  <1>1. IInv => SingleConversation
    BY DEF IInv, LockInv, SocketInv, SingleConversation
  <1>2. QED  BY <1>1, Invariance, PTL

(* No socket is left open behind a reconnect, a failed probe or a close. *)
THEOREM SocketsAccounted == Spec => []NoSocketLeak
  <1>1. IInv => NoSocketLeak  BY DEF IInv, SocketInv, NoSocketLeak
  <1>2. QED  BY <1>1, Invariance, PTL

(* A refusal is never premature. *)
THEOREM RefusalsJustified == Spec => RefusedOnlyWhenFull
  <1> DEFINE Full == Cardinality(Budget!InWindow(sent, clock)) >= MaxRequests
             Refused(t) == result[t] # "refused" /\ result'[t] = "refused"
  <1>1. ASSUME IInv, [Next]_vars, NEW t \in Threads, Refused(t) PROVE Full
    <2> USE DEF IInv, TypeOK
    <2>1. ASSUME NEW u \in Threads, BeginCollect(u) PROVE Full
      <3>1. ~BudgetRemains
        BY <1>1, <2>1 DEF BeginCollect
      <3>2. QED  BY <1>1, <3>1, PruneIsWindow, Counts DEF BudgetRemains, WindowInv
    <2>2. ASSUME NEW u \in Threads,
                 BeginScan(u) \/ Close(u) \/ EnsureConnected(u) \/ OpenConversation(u)
                   \/ Probe(u) \/ HandshakeEnds(u) \/ Converse(u)
          PROVE  FALSE
      BY <1>1, <2>2 DEF BeginScan, Close, EnsureConnected, OpenConversation, Probe, Converse,
           ProbeOpens, ProbeReady, ProbeRejects, ProbeFails, ProbeRaises, HandshakeEnds,
           ContractUnresolved, SendHistorical, HistoricalReturns, QuoteReturns, ScanReturns, Returns
    <2>3. ASSUME (\E s \in Sessions : SocketDrops(s)) \/ Tick \/ UNCHANGED vars PROVE FALSE
      BY <1>1, <2>3 DEF SocketDrops, Tick, vars
    <2>4. QED  BY <1>1, <2>1, <2>2, <2>3 DEF Next
  <1>2. IInv /\ [Next]_vars => [\A t \in Threads : Refused(t) => Full]_vars
    BY <1>1
  <1>3. QED  BY <1>2, Invariance, PTL DEF Spec, RefusedOnlyWhenFull

(* The instance counts as this module counts. *)
LEMMA SameCardinality == \A S : Budget!Cardinality(S) = Cardinality(S)
  BY DEF Cardinality, Budget!Cardinality

(* The provider implements RateBudget: initial states map to initial       *)
(* states, a charge to Grant, a tick to Tick and every other step to a     *)
(* stutter.                                                                *)
THEOREM ImplementsRateBudget == Spec => PacesRequests
  <1>1. Init => Budget!Init  BY DEF Init, Budget!Init
  <1>2. ASSUME IInv, [Next]_vars PROVE [Budget!Next]_<<sent, clock>>
    <2>1. ASSUME NEW t \in Threads, SendHistorical(t) PROVE Budget!Grant
      BY <1>2, <2>1, WindowSend, SameCardinality DEF SendHistorical, Budget!Grant
    <2>2. ASSUME Tick PROVE Budget!Tick
      BY <2>2 DEF Tick, Budget!Tick, pacingVars
    <2>3. ASSUME NEW t \in Threads,
                 BeginCollect(t) \/ BeginScan(t) \/ Close(t) \/ EnsureConnected(t)
                   \/ OpenConversation(t) \/ Probe(t) \/ HandshakeEnds(t)
          PROVE  UNCHANGED <<sent, clock>>
      BY <2>3 DEF BeginCollect, BeginScan, Close, EnsureConnected, OpenConversation, Probe,
           ProbeOpens, ProbeReady, ProbeRejects, ProbeFails, ProbeRaises, HandshakeEnds,
           pacingVars
    <2>4. ASSUME NEW t \in Threads,
                 ContractUnresolved(t) \/ HistoricalReturns(t) \/ QuoteReturns(t)
                   \/ ScanReturns(t)
          PROVE  UNCHANGED <<sent, clock>>
      BY <2>4 DEF ContractUnresolved, HistoricalReturns, QuoteReturns, ScanReturns, pacingVars
    <2>5. ASSUME (\E s \in Sessions : SocketDrops(s)) \/ UNCHANGED vars
          PROVE  UNCHANGED <<sent, clock>>
      BY <2>5 DEF SocketDrops, vars, pacingVars
    <2>6. QED
      BY <1>2, <2>1, <2>2, <2>3, <2>4, <2>5 DEF Next, Converse, Budget!Next
  <1>3. QED
    BY <1>1, <1>2, Invariance, PTL DEF Spec, PacesRequests, Budget!Spec
=============================================================================
