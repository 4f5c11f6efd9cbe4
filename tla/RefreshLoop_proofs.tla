------------------------- MODULE RefreshLoop_proofs -------------------------
(***************************************************************************)
(* RefreshLoop holds, for every number of handlers, calls and threads: its *)
(* types, that there is one loop at most, that it ends by the stop event   *)
(* alone, and that a switch that is off leaves no loop that would go on.   *)
(*                                                                         *)
(* The lock makes the first inductive: between the look at the old thread  *)
(* and the new thread nobody else is in start_auto_refresh, and a thread   *)
(* that has ended does not come back.  The last needs to say what is owed  *)
(* while calls are under way: from the moment the event is clear and the   *)
(* switch off, some stop still has its event to set.                       *)
(***************************************************************************)
EXTENDS RefreshLoop, TLAPS

LockInv ==
  /\ \A c \in Callers : pc[c] \in Starting <=> lock = c
  /\ \A c \in Callers : pc[c] \in {"clear", "on", "spawn"} => ~Running

ThreadInv ==
  /\ OneLoop
  /\ \A t \in Threads : t > thread => loop[t] = "unborn"

OffInv ==
  ~autoRefresh /\ (Running \/ \E c \in Callers : pc[c] = "spawn") =>
    stop \/ \E c \in Callers : pc[c] = "event"

IInv == TypeOK /\ LockInv /\ ThreadInv /\ OffInv
-----------------------------------------------------------------------------
USE CallersAssumption, LoopAssumption

LEMMA InitIInv == Init => IInv
<1> SUFFICES ASSUME Init PROVE IInv
  OBVIOUS
<1>1. TypeOK
  <2>1. \A c \in Callers : (IF c = Boot THEN "refresh" ELSE "idle") \in {"idle", "refresh"}
    OBVIOUS
  <2>2. pc \in [Callers -> {"idle", "refresh", "start", "off", "event", "collectors"}
                            \cup Starting]
    BY <2>1 DEF Init
  <2>3. loop \in [Threads -> {"unborn", "top", "discover", "refresh", "wait", "dead"}]
    BY DEF Init
  <2>4. autoRefresh \in BOOLEAN /\ stop \in BOOLEAN /\ collecting \in BOOLEAN
    BY Zenon DEF Init
  <2>5. thread \in 0..MaxThreads /\ warmed \in 0..WarmCycles /\ calls \in 0..MaxCalls
    BY DEF Init
  <2>6. lock \in Callers \cup {Nobody}
    BY DEF Init
  <2> QED
    BY <2>2, <2>3, <2>4, <2>5, <2>6 DEF TypeOK
<1>2. LockInv
  BY DEF Init, LockInv, Callers, Starting
<1>3. ThreadInv /\ ~Running
  BY DEF Init, ThreadInv, OneLoop, Running, Alive, Threads
<1>4. OffInv
  BY <1>3 DEF Init, OffInv
<1> QED
  BY <1>1, <1>2, <1>3, <1>4 DEF IInv

(* Steps that leave the threads, the lock and the switch alone. *)
LEMMA CallStep ==
  ASSUME IInv, NEW h \in Handlers, Call(h)
  PROVE  IInv'
  BY DEF IInv, Call, Goes, TypeOK, LockInv, ThreadInv, OffInv, OneLoop, Running, Alive,
         Callers, Threads, Starting

LEMMA RefreshedStep ==
  ASSUME IInv, NEW c \in Callers, Refreshed(c)
  PROVE  IInv'
  BY DEF IInv, Refreshed, Goes, TypeOK, LockInv, ThreadInv, OffInv, OneLoop, Running, Alive,
         Callers, Threads, Starting

LEMMA CollectorsStep ==
  ASSUME IInv, NEW c \in Callers, Collectors(c)
  PROVE  IInv'
  BY DEF IInv, Collectors, Goes, TypeOK, LockInv, ThreadInv, OffInv, OneLoop, Running, Alive,
         Callers, Threads, Starting
-----------------------------------------------------------------------------
(* start_auto_refresh, under the lock. *)

LEMMA EnterStep ==
  ASSUME IInv, NEW c \in Callers, Enter(c)
  PROVE  IInv'
  BY DEF IInv, Enter, Goes, TypeOK, LockInv, ThreadInv, OffInv, OneLoop, Running, Alive,
         Callers, Threads, Starting

LEMMA LeaveRunningStep ==
  ASSUME IInv, NEW c \in Callers, LeaveRunning(c)
  PROVE  IInv'
  BY DEF IInv, LeaveRunning, AfterStart, Goes, TypeOK, LockInv, ThreadInv, OffInv, OneLoop,
         Running, Alive, Callers, Threads, Starting

(* The event is cleared only while no loop runs, and nobody else is about  *)
(* to start one.                                                           *)
LEMMA ClearEventStep ==
  ASSUME IInv, NEW c \in Callers, ClearEvent(c)
  PROVE  IInv'
<1> USE DEF IInv, ClearEvent, Goes
<1>1. TypeOK' /\ ThreadInv'
  BY DEF TypeOK, ThreadInv, OneLoop, Alive, Callers, Threads, Starting
<1>2. LockInv'
  BY DEF TypeOK, LockInv, Running, Alive, Starting
<1>3. OffInv'
  <2>1. ~Running /\ ~Running'
    BY DEF LockInv, Running, Alive
  <2>2. \A d \in Callers : pc'[d] # "spawn"
    BY DEF LockInv, TypeOK, Starting
  <2> QED
    BY <2>1, <2>2 DEF OffInv
<1> QED
  BY <1>1, <1>2, <1>3

LEMMA SwitchOnStep ==
  ASSUME IInv, NEW c \in Callers, SwitchOn(c)
  PROVE  IInv'
  BY DEF IInv, SwitchOn, Goes, TypeOK, LockInv, ThreadInv, OffInv, OneLoop, Running, Alive,
         Callers, Threads, Starting

(* The new thread: the old one, if there was one, has ended. *)
LEMMA SpawnStep ==
  ASSUME IInv, NEW c \in Callers, Spawn(c)
  PROVE  IInv'
<1> USE DEF IInv, Spawn, Goes
<1>1. TypeOK'
  BY DEF TypeOK, AfterStart, Callers, Threads, Starting
<1>2. thread + 1 \in Threads /\ thread' = thread + 1 /\ ~Running
  BY DEF TypeOK, Threads, LockInv
<1>3. ThreadInv'
  <2>1. \A t \in Threads : Alive(t) => FALSE
    BY <1>2 DEF ThreadInv, OneLoop, Running, TypeOK, Threads
  <2> QED
    BY <1>2, <2>1 DEF ThreadInv, OneLoop, Alive, TypeOK, Threads
<1>4. LockInv'
  <2>1. lock = c /\ lock' = Nobody
    BY DEF LockInv, Starting
  <2>2. \A d \in Callers : pc'[d] \notin Starting
    BY <2>1 DEF LockInv, TypeOK, AfterStart, Starting
  <2>3. \A d \in Callers : d # Nobody
    BY DEF Callers
  <2> QED
    BY <2>1, <2>2, <2>3 DEF LockInv, Starting
<1>5. OffInv'
  <2>1. pc'[c] # "spawn" /\ \A d \in Callers \ {c} : pc'[d] = pc[d]
    BY DEF TypeOK, AfterStart
  <2>2. \A d \in Callers : pc[d] = "event" => pc'[d] = "event"
    BY DEF TypeOK
  <2> QED
    BY <2>2 DEF OffInv
<1> QED
  BY <1>1, <1>3, <1>4, <1>5
-----------------------------------------------------------------------------
(* stop_auto_refresh, without it. *)

LEMMA SwitchOffStep ==
  ASSUME IInv, NEW h \in Handlers, SwitchOff(h)
  PROVE  IInv'
  BY DEF IInv, SwitchOff, Goes, TypeOK, LockInv, ThreadInv, OffInv, OneLoop, Running, Alive,
         Callers, Threads, Starting

LEMMA SetEventStep ==
  ASSUME IInv, NEW h \in Handlers, SetEvent(h)
  PROVE  IInv'
  BY DEF IInv, SetEvent, Goes, TypeOK, LockInv, ThreadInv, OffInv, OneLoop, Running, Alive,
         Callers, Threads, Starting

(* The loop: a thread that goes on is the one that was alive. *)
LEMMA LoopStep ==
  ASSUME IInv, NEW t \in Threads, Loop(t)
  PROVE  IInv'
<1>1. Alive(t) /\ \E place \in {"top", "discover", "refresh", "wait", "dead"} : LoopGoes(t, place)
  BY DEF Loop, Top, Discover, Refresh, Wait, Alive
<1>2. PICK place \in {"top", "discover", "refresh", "wait", "dead"} : LoopGoes(t, place)
  BY <1>1
<1> USE DEF IInv, LoopGoes
<1>3. t = thread /\ Running
  BY <1>1 DEF ThreadInv, OneLoop, Running, TypeOK, Threads
<1>4. TypeOK'
  BY <1>2 DEF TypeOK
<1>5. Running' => Running
  BY <1>3
<1>6. LockInv'
  BY <1>2, <1>5 DEF LockInv
<1>7. ThreadInv'
  BY <1>2, <1>3 DEF ThreadInv, OneLoop, Alive, TypeOK, Threads
<1>8. OffInv'
  BY <1>2, <1>5 DEF OffInv
<1> QED
  BY <1>4, <1>6, <1>7, <1>8

LEMMA StepIInv == IInv /\ [Next]_vars => IInv'
<1> SUFFICES ASSUME IInv, [Next]_vars PROVE IInv'
  OBVIOUS
<1>1. CASE \E h \in Handlers : Call(h) \/ Stop(h)
  BY <1>1, CallStep, SwitchOffStep, SetEventStep DEF Stop
<1>2. CASE \E c \in Callers : Caller(c)
  BY <1>2, RefreshedStep, EnterStep, LeaveRunningStep, ClearEventStep, SwitchOnStep,
     SpawnStep, CollectorsStep DEF Caller, Start
<1>3. CASE \E t \in Threads : Loop(t)
  BY <1>3, LoopStep
<1>4. CASE UNCHANGED vars
  BY <1>4 DEF vars, IInv, TypeOK, LockInv, ThreadInv, OffInv, OneLoop, Running, Alive
<1> QED
  BY <1>1, <1>2, <1>3, <1>4 DEF Next

(* The inductive invariant holds. *)
THEOREM LoopInvariance == Spec => []IInv
BY InitIInv, StepIInv, PTL DEF Spec

(* The types. *)
THEOREM LoopTypes == Spec => []TypeOK
BY LoopInvariance, PTL DEF IInv

(* However many callers switch auto-refresh on, there is one loop thread,  *)
(* so no two cycles of it overlap (start_auto_refresh).                    *)
THEOREM AtMostOneLoop == Spec => []OneLoop
BY LoopInvariance, PTL DEF IInv, ThreadInv

(* With every call over, a switch that is off has its stop event set, or   *)
(* no loop to stop (start_auto_refresh against stop_auto_refresh).         *)
THEOREM OffIsOff == Spec => []OffMeansStopping
<1>1. IInv => OffMeansStopping
  BY DEF IInv, OffInv, OffMeansStopping, AllIdle
<1> QED
  BY <1>1, LoopInvariance, PTL

(* "the loop must never die" (_loop): but by the stop event. *)
THEOREM LoopOnlyStopped == Spec => LoopNeverDies
<1> DEFINE Stopped == \A t \in Threads : Alive(t) /\ ~Alive(t)' => stop
<1>1. IInv /\ [Next]_vars => Stopped
  <2> SUFFICES ASSUME IInv, [Next]_vars, NEW t \in Threads, Alive(t), ~Alive(t)'
               PROVE  stop
    OBVIOUS
  <2>1. loop' # loop
    BY DEF Alive
  <2>2. ~ \E h \in Handlers : Call(h) \/ Stop(h)
    BY <2>1 DEF Call, Stop, SwitchOff, SetEvent
  <2>3. \A c \in Callers : Caller(c) => Spawn(c)
    BY <2>1 DEF Caller, Start, Refreshed, Enter, LeaveRunning, ClearEvent, SwitchOn, Collectors
  <2>4. ~ \E c \in Callers : Spawn(c)
    BY DEF Spawn, Alive, IInv, TypeOK, Threads
  <2>5. PICK u \in Threads : Loop(u)
    BY <2>1, <2>2, <2>3, <2>4 DEF Next, vars
  <2>6. loop'[t] = "dead" /\ u = t
    BY <2>5 DEF Loop, Top, Discover, Refresh, Wait, LoopGoes, Alive, IInv, TypeOK
  <2> QED
    BY <2>5, <2>6 DEF Loop, Top, Discover, Refresh, Wait, LoopGoes, IInv, TypeOK
<1> QED
  BY <1>1, LoopInvariance, PTL DEF Spec, LoopNeverDies
=============================================================================
