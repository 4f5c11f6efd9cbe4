----------------------------- MODULE RefreshLoop -----------------------------
(***************************************************************************)
(* The auto-refresh loop of ScreenerSession (session_state.py), the switch *)
(* that starts and stops it (POST /api/live/auto) and the bootstrap that   *)
(* starts it (__main__.py).                                                *)
(*                                                                         *)
(* start_auto_refresh runs under the session's lock, stop_auto_refresh     *)
(* does not, and both change the switch and the stop event one after the   *)
(* other.  The loop looks at the event between two cycles; a cycle takes   *)
(* as long as the provider does.  What a cycle refreshes is the business   *)
(* of ScreenerSession; whether a scan is due and what raises is left open. *)
(***************************************************************************)
EXTENDS Integers, FiniteSets

CONSTANTS
  Handlers,    (* HTTP threads                                              *)
  Boot,        (* the bootstrap thread                                      *)
  MaxThreads,  (* bound: loop threads started                               *)
  MaxCalls,    (* bound: HTTP calls                                         *)
  WarmCycles,  (* BOOTSTRAP_WARM_CYCLES                                     *)
  Nobody

ASSUME CallersAssumption ==
  /\ Boot \notin Handlers
  /\ Nobody \notin Handlers \cup {Boot}
ASSUME LoopAssumption ==
  /\ MaxThreads \in Nat
  /\ MaxCalls \in Nat
  /\ WarmCycles \in Nat \ {0}

VARIABLES
  autoRefresh, (* self.auto_refresh                                         *)
  stop,        (* self._stop.is_set()                                       *)
  thread,      (* self._thread: its number, 0 for None                      *)
  loop,        (* where each loop thread is                                 *)
  lock,        (* who is inside start_auto_refresh                          *)
  pc,          (* where each caller is                                      *)
  warmed,      (* warm cycles of the bootstrap so far                       *)
  collecting,  (* the evidence collectors run                               *)
  calls        (* HTTP calls so far                                         *)

vars == <<autoRefresh, stop, thread, loop, lock, pc, warmed, collecting, calls>>

Callers == Handlers \cup {Boot}
Threads == 1..MaxThreads
Starting == {"alive", "clear", "on", "spawn"}
Alive(t) == loop[t] \notin {"unborn", "dead"}

TypeOK ==
  /\ autoRefresh \in BOOLEAN /\ stop \in BOOLEAN /\ collecting \in BOOLEAN
  /\ thread \in 0..MaxThreads
  /\ loop \in [Threads -> {"unborn", "top", "discover", "refresh", "wait", "dead"}]
  /\ lock \in Callers \cup {Nobody}
  /\ pc \in [Callers -> {"idle", "refresh", "start", "off", "event", "collectors"}
                          \cup Starting]
  /\ warmed \in 0..WarmCycles
  /\ calls \in 0..MaxCalls

(* The server serves while the bootstrap is at its first steps. *)
Init ==
  /\ autoRefresh = FALSE /\ stop = FALSE /\ collecting = FALSE
  /\ thread = 0
  /\ loop = [t \in Threads |-> "unborn"]
  /\ lock = Nobody
  /\ pc = [c \in Callers |-> IF c = Boot THEN "refresh" ELSE "idle"]
  /\ warmed = 0
  /\ calls = 0
-----------------------------------------------------------------------------
Goes(c, place) == pc' = [pc EXCEPT ![c] = place]

(* After start_auto_refresh a handler returns; the bootstrap starts the    *)
(* collectors.                                                             *)
AfterStart(c) == IF c = Boot THEN "collectors" ELSE "idle"

(* POST /api/live/auto and /api/live/refresh. *)
Call(h) ==
  /\ pc[h] = "idle"
  /\ calls < MaxCalls
  /\ calls' = calls + 1
  /\ \E op \in {"start", "off", "refresh"} : Goes(h, op)
  /\ UNCHANGED <<autoRefresh, stop, thread, loop, lock, warmed, collecting>>

(* Seeded bug: the warm cycles are not counted. *)
WarmOn(c) ==
  /\ pc[c] = "refresh"
  /\ warmed' = warmed + 1
  /\ UNCHANGED <<autoRefresh, stop, thread, loop, lock, pc, collecting, calls>>

(* refresh_all in a handler, or one warm cycle of the bootstrap; what it   *)
(* raises ends the call, or all the warm cycles.                           *)
Refreshed(c) ==
  /\ pc[c] = "refresh"
  /\ IF c = Boot
     THEN \/ /\ warmed + 1 < WarmCycles
             /\ warmed' = warmed + 1
             /\ UNCHANGED pc
          \/ /\ warmed' = WarmCycles
             /\ Goes(c, "start")
     ELSE Goes(c, "idle") /\ UNCHANGED warmed
  /\ UNCHANGED <<autoRefresh, stop, thread, loop, lock, collecting, calls>>

(* Seeded bug: start_auto_refresh without the lock. *)
EnterUnlocked(c) ==
  /\ pc[c] = "start"
  /\ Goes(c, IF thread # 0 /\ Alive(thread) THEN "alive" ELSE "clear")
  /\ UNCHANGED <<autoRefresh, stop, thread, loop, lock, warmed, collecting, calls>>

(* start_auto_refresh: the lock, and whether a loop is alive. *)
Enter(c) ==
  /\ pc[c] = "start"
  /\ lock = Nobody
  /\ lock' = c
  /\ Goes(c, IF thread # 0 /\ Alive(thread) THEN "alive" ELSE "clear")
  /\ UNCHANGED <<autoRefresh, stop, thread, loop, warmed, collecting, calls>>

(* It is: the switch, and nothing else. *)
LeaveRunning(c) ==
  /\ pc[c] = "alive"
  /\ autoRefresh' = TRUE
  /\ lock' = Nobody
  /\ Goes(c, AfterStart(c))
  /\ UNCHANGED <<stop, thread, loop, warmed, collecting, calls>>

(* It is not: the event, the switch, and a new thread. *)
ClearEvent(c) ==
  /\ pc[c] = "clear"
  /\ stop' = FALSE
  /\ Goes(c, "on")
  /\ UNCHANGED <<autoRefresh, thread, loop, lock, warmed, collecting, calls>>

SwitchOn(c) ==
  /\ pc[c] = "on"
  /\ autoRefresh' = TRUE
  /\ Goes(c, "spawn")
  /\ UNCHANGED <<stop, thread, loop, lock, warmed, collecting, calls>>

(* Seeded bug: the new thread gets a new event. *)
SpawnWithEvent(c) ==
  /\ pc[c] = "spawn"
  /\ thread < MaxThreads
  /\ thread' = thread + 1
  /\ loop' = [loop EXCEPT ![thread + 1] = "top"]
  /\ stop' = FALSE
  /\ lock' = Nobody
  /\ Goes(c, AfterStart(c))
  /\ UNCHANGED <<autoRefresh, warmed, collecting, calls>>

Spawn(c) ==
  /\ pc[c] = "spawn"
  /\ thread < MaxThreads
  /\ thread' = thread + 1
  /\ loop' = [loop EXCEPT ![thread + 1] = "top"]
  /\ lock' = Nobody
  /\ Goes(c, AfterStart(c))
  /\ UNCHANGED <<autoRefresh, stop, warmed, collecting, calls>>

(* stop_auto_refresh: the switch, the event, the collectors; no lock. *)
SwitchOff(h) ==
  /\ pc[h] = "off"
  /\ autoRefresh' = FALSE
  /\ Goes(h, "event")
  /\ UNCHANGED <<stop, thread, loop, lock, warmed, collecting, calls>>

SetEvent(h) ==
  /\ pc[h] = "event"
  /\ stop' = TRUE
  /\ Goes(h, "collectors")
  /\ UNCHANGED <<autoRefresh, thread, loop, lock, warmed, collecting, calls>>

(* stop_collectors_for_session; for the bootstrap, start_collectors_...    *)
Collectors(c) ==
  /\ pc[c] = "collectors"
  /\ collecting' = (c = Boot)
  /\ Goes(c, "idle")
  /\ UNCHANGED <<autoRefresh, stop, thread, loop, lock, warmed, calls>>
-----------------------------------------------------------------------------
(* _loop *)

LoopGoes(t, place) ==
  /\ loop' = [loop EXCEPT ![t] = place]
  /\ UNCHANGED <<autoRefresh, stop, thread, lock, pc, warmed, collecting, calls>>

(* Seeded bug: the loop does not look at the event. *)
TopDeaf(t) ==
  /\ loop[t] = "top"
  /\ \/ LoopGoes(t, "discover")
     \/ LoopGoes(t, "refresh")

(* The while condition; then a scan, if one is due. *)
Top(t) ==
  /\ loop[t] = "top"
  /\ \/ stop /\ LoopGoes(t, "dead")
     \/ ~stop /\ LoopGoes(t, "discover")
     \/ ~stop /\ LoopGoes(t, "refresh")

(* Seeded bug: what refresh_discovery raises ends the loop. *)
DiscoverUncaught(t) ==
  /\ loop[t] = "discover"
  /\ \/ LoopGoes(t, "refresh")
     \/ LoopGoes(t, "dead")

(* refresh_discovery; if it raises there is no refresh in this cycle. *)
Discover(t) ==
  /\ loop[t] = "discover"
  /\ \/ LoopGoes(t, "refresh")
     \/ LoopGoes(t, "wait")

(* refresh_all, whether it raises or not. *)
Refresh(t) == loop[t] = "refresh" /\ LoopGoes(t, "wait")

(* Seeded bug: self._stop.wait() without its timeout. *)
WaitForStop(t) == loop[t] = "wait" /\ stop /\ LoopGoes(t, "top")

(* self._stop.wait(quote_sleep) ends with the time or with the event. *)
Wait(t) == loop[t] = "wait" /\ LoopGoes(t, "top")
-----------------------------------------------------------------------------
Start(c) == Enter(c) \/ LeaveRunning(c) \/ ClearEvent(c) \/ SwitchOn(c) \/ Spawn(c)
Stop(h) == SwitchOff(h) \/ SetEvent(h)
Caller(c) == Refreshed(c) \/ Start(c) \/ Collectors(c)
Loop(t) == Top(t) \/ Discover(t) \/ Refresh(t) \/ Wait(t)

Next ==
  \/ \E h \in Handlers : Call(h) \/ Stop(h)
  \/ \E c \in Callers : Caller(c)
  \/ \E t \in Threads : Loop(t)

Spec == Init /\ [][Next]_vars

(* A thread that can run does: every call the loop and the callers make is *)
(* bounded by a timeout, and none of them waits for the other.             *)
Fairness ==
  /\ \A t \in Threads : WF_vars(Loop(t))
  /\ \A c \in Callers : WF_vars(Caller(c))
  /\ \A h \in Handlers : WF_vars(Stop(h))

FairSpec == Spec /\ Fairness
-----------------------------------------------------------------------------
(* Properties.                                                             *)

AllIdle == \A c \in Callers : pc[c] = "idle"
Running == thread # 0 /\ Alive(thread)

(* Two handlers and the bootstrap may switch on at once: there is one loop *)
(* thread at most, and it is the one the session knows.                    *)
OneLoop == \A t \in Threads : Alive(t) => t = thread

(* Whatever starts and stops overlapped: when they are over and the switch *)
(* is off, no loop is left that would go on.                               *)
OffMeansStopping == AllIdle /\ ~autoRefresh => stop \/ ~Running

(* "the loop must never die": a loop thread ends because of the stop event *)
(* and of nothing else.                                                    *)
LoopNeverDies ==
  [][\A t \in Threads : Alive(t) /\ ~Alive(t)' => stop]_vars

(* A stop that no later start takes back ends the loop, whatever it was    *)
(* doing when it came.                                                     *)
StopEndsLoop == <>[]stop => <>[]~Running

(* A loop that is not stopped goes on cycling for ever.                    *)
KeepsCycling == <>[](Running /\ ~stop) => []<>(Running /\ loop[thread] = "top")

(* The status says auto-refresh is on: there is a loop.  Refuted, by a     *)
(* stop that lands between the steps of a start (the trace TLC finds), and *)
(* without any overlap: off and on again within one cycle, the start finds *)
(* the old thread alive, leaves the event set, and the thread ends.        *)
OnMeansRunning == AllIdle /\ autoRefresh => Running
=============================================================================
