---------------------------- MODULE LiveProvider ----------------------------
(***************************************************************************)
(* LiveProvider (provider_session.py): the one read-only conversation with *)
(* the broker gateway that every thread of the application shares -- the   *)
(* refresh loop, the HTTP handlers and the background refresh threads.     *)
(*                                                                         *)
(* A re-entrant lock guards the session object.  A call is several locked  *)
(* regions: the pacing check, the connection check, and the conversation   *)
(* itself, during which the lock is held over every wait for the gateway.  *)
(* Between two regions any other thread may run.  The gateway may drop the *)
(* socket at any moment, and time passes everywhere.                       *)
(*                                                                         *)
(* Left out: what bars and quotes contain, status texts, request ids of    *)
(* the requests that are not paced.                                        *)
(***************************************************************************)
EXTENDS Integers, FiniteSets

CONSTANTS
  Threads,       (* callers of the provider                                 *)
  Sessions,      (* session objects that can be alive at one time           *)
  MaxRequests,   (* HISTORICAL_PACING_MAX                                   *)
  Window,        (* HISTORICAL_PACING_WINDOW_S                              *)
  MaxAttempts,   (* bound: sockets one probe tries (ports x client ids)     *)
  MaxClock,      (* bound: the clock stops here                             *)
  NoThread, NoSession

ASSUME ThreadsAssumption ==
  /\ IsFiniteSet(Threads)
  /\ Threads # {}
  /\ NoThread \notin Threads
ASSUME SessionsAssumption == NoSession \notin Sessions
ASSUME PacingAssumption ==
  /\ MaxRequests \in Nat \ {0}
  /\ Window \in Nat
  /\ MaxAttempts \in Nat
  /\ MaxClock \in Nat

VARIABLES
  clock,         (* wall clock, in units of the model                       *)
  requestTimes,  (* _historical_request_times: [id, at]                     *)
  sent,          (* history: every historical request ever sent             *)
  owner,         (* holder of _lock over a wait, or NoThread                *)
  session,       (* _session                                                *)
  open,          (* session objects connected and not yet shut down         *)
  live,          (* those whose socket is up (is_live)                      *)
  candidate,     (* the session object a probe is trying                    *)
  attempts,      (* sockets the current probe has tried                     *)
  pc, op,        (* where each thread is, and for which call                *)
  using,         (* the local variable `session` of a conversation          *)
  result         (* what the thread's last collect_symbol returned          *)

pacingVars == <<requestTimes, sent>>
socketVars == <<session, open, live, candidate, attempts>>
vars == <<clock, pacingVars, owner, socketVars, pc, op, using, result>>

Results == {"none", "refused", "unavailable", "unresolved", "no_bars", "bars"}
Conversing == {"contract", "historical", "quote", "scan"}
Probing == {"probe", "handshake"}
Places == {"idle", "connect", "converse"} \cup Probing \cup Conversing
Requests == [id : Nat, at : 0..MaxClock]

(* The pacing window, as RateBudget defines it. *)
Budget == INSTANCE RateBudget
            WITH Capacity <- MaxRequests + Cardinality(Threads) - 1, granted <- sent

TypeOK ==
  /\ clock \in 0..MaxClock
  /\ requestTimes \subseteq Requests
  /\ sent \subseteq Requests
  /\ owner \in Threads \cup {NoThread}
  /\ session \in Sessions \cup {NoSession}
  /\ open \subseteq Sessions
  /\ live \subseteq open
  /\ candidate \in Sessions \cup {NoSession}
  /\ attempts \in 0..MaxAttempts
  /\ pc \in [Threads -> Places]
  /\ op \in [Threads -> {"collect", "scan"}]
  /\ using \in [Threads -> Sessions \cup {NoSession}]
  /\ result \in [Threads -> Results]

Init ==
  /\ clock = 0
  /\ requestTimes = {} /\ sent = {}
  /\ owner = NoThread
  /\ session = NoSession /\ open = {} /\ live = {}
  /\ candidate = NoSession /\ attempts = 0
  /\ pc = [t \in Threads |-> "idle"]
  /\ op = [t \in Threads |-> "collect"]
  /\ using = [t \in Threads |-> NoSession]
  /\ result = [t \in Threads |-> "none"]
-----------------------------------------------------------------------------
(* Control shared by the actions. *)

Goto(t, from, to) ==
  /\ pc[t] = from
  /\ pc' = [pc EXCEPT ![t] = to]

(* A locked region that ends before the thread waits for anything. *)
LockFree == owner = NoThread

Returns(t, from, outcome) ==
  /\ Goto(t, from, "idle")
  /\ result' = [result EXCEPT ![t] = outcome]

(* The thread leaves the conversation, and its `with self._lock` ends. *)
Release(t) ==
  /\ owner' = NoThread
  /\ using' = [using EXCEPT ![t] = NoSession]

(* Seeded bug: the registry of sockets forgets one that is still up. *)
CloseKeepsSocketUp ==
  /\ open' = open \ {session}
  /\ session' = NoSession
  /\ UNCHANGED live

(* close(): the session is shut down and both references are dropped. *)
CloseSession ==
  /\ open' = open \ {session}
  /\ live' = live \ {session}
  /\ session' = NoSession

(* Seeded bug: the cut-off second itself is dropped. *)
PruneStrict == {r \in requestTimes : r.at > clock - Window}

(* _prune_pacing *)
Prune == Budget!InWindow(requestTimes, clock)

(* Seeded bug: one request too many is let through. *)
BudgetOffByOne == Cardinality(Prune) <= MaxRequests

(* Seeded bug: the list is counted without pruning it. *)
BudgetUnpruned == Cardinality(requestTimes) < MaxRequests

(* historical_budget_remaining() > 0, evaluated on the pruned list. *)
BudgetRemains == Cardinality(Prune) < MaxRequests
-----------------------------------------------------------------------------
(* collect_symbol opens with the pacing check, in a locked region of its   *)
(* own: with no budget it is refused here, before any conversation.        *)
BeginCollect(t) ==
  /\ LockFree
  /\ pc[t] = "idle"
  /\ requestTimes' = Prune
  /\ op' = [op EXCEPT ![t] = "collect"]
  /\ \/ /\ BudgetRemains
        /\ Goto(t, "idle", "connect")
        /\ UNCHANGED result
     \/ /\ ~BudgetRemains
        /\ Returns(t, "idle", "refused")
  /\ UNCHANGED <<clock, sent, owner, socketVars, using>>

(* run_discovery and scanner_parameters_available: no pacing check. *)
BeginScan(t) ==
  /\ Goto(t, "idle", "connect")
  /\ op' = [op EXCEPT ![t] = "scan"]
  /\ UNCHANGED <<clock, pacingVars, owner, socketVars, using, result>>

(* Seeded bug: close() does not take the lock. *)
CloseUnlocked(t) ==
  /\ pc[t] = "idle"
  /\ CloseSession
  /\ UNCHANGED <<clock, pacingVars, owner, candidate, attempts, pc, op, using, result>>

(* close() called by the application. *)
Close(t) ==
  /\ LockFree
  /\ pc[t] = "idle"
  /\ CloseSession
  /\ UNCHANGED <<clock, pacingVars, owner, candidate, attempts, pc, op, using, result>>

(* Seeded bug: a dead session is replaced without being shut down. *)
EnsureConnectedNoClose(t) ==
  /\ LockFree
  /\ \/ /\ session \in live
        /\ Goto(t, "connect", "converse")
        /\ UNCHANGED <<owner, attempts>>
     \/ /\ session \notin live
        /\ Goto(t, "connect", "probe")
        /\ owner' = t
        /\ attempts' = 0
  /\ UNCHANGED <<clock, pacingVars, session, open, live, candidate, op, using, result>>

(* ensure_connected: a live session is kept; anything else is closed, and  *)
(* the thread keeps the lock while it probes for a socket.                 *)
EnsureConnected(t) ==
  /\ LockFree
  /\ \/ /\ session \in live
        /\ Goto(t, "connect", "converse")
        /\ UNCHANGED <<owner, socketVars>>
     \/ /\ session \notin live
        /\ Goto(t, "connect", "probe")
        /\ CloseSession
        /\ owner' = t
        /\ attempts' = 0
        /\ UNCHANGED candidate
  /\ UNCHANGED <<clock, pacingVars, op, using, result>>

(* probe_and_connect, connect_configured, reconnect_using_result: one      *)
(* session object per attempt, and session.connect is called.              *)
ProbeOpens(t, s) ==
  /\ Goto(t, "probe", "handshake")
  /\ candidate = NoSession
  /\ attempts < MaxAttempts
  /\ s \notin open
  /\ candidate' = s
  /\ attempts' = attempts + 1
  /\ open' = open \cup {s}
  /\ UNCHANGED <<clock, pacingVars, owner, session, live, op, using, result>>

(* session.connect returns or raises, with the socket up or not.           *)
HandshakeEnds(t) ==
  /\ Goto(t, "handshake", "probe")
  /\ live' \in {live, live \cup {candidate}}
  /\ UNCHANGED <<clock, pacingVars, owner, session, open, candidate, attempts,
                 op, using, result>>

(* nextValidId arrived in time and the socket is still connected. *)
ProbeReady(t) ==
  /\ candidate \in live
  /\ Goto(t, "probe", "converse")
  /\ session' = candidate
  /\ candidate' = NoSession
  /\ owner' = NoThread
  /\ UNCHANGED <<clock, pacingVars, open, live, attempts, op, using, result>>

(* Not ready before the timeout: shut down, and on to the next attempt. *)
ProbeRejects(t) ==
  /\ pc[t] = "probe"
  /\ candidate # NoSession
  /\ open' = open \ {candidate}
  /\ live' = live \ {candidate}
  /\ candidate' = NoSession
  /\ UNCHANGED <<clock, pacingVars, owner, session, attempts, pc, op, using, result>>

(* No socket left to try: ProviderUnavailable. *)
ProbeFails(t) ==
  /\ candidate = NoSession
  /\ Returns(t, "probe", "unavailable")
  /\ Release(t)
  /\ UNCHANGED <<clock, pacingVars, socketVars, op>>

(* fetch_current_time raises on a broken socket: nothing below catches it, *)
(* so the attempt ends the whole probe.  Nobody shuts the candidate down;  *)
(* the broker's library closes a broken socket by itself.                  *)
ProbeRaises(t) ==
  /\ candidate # NoSession
  /\ Returns(t, "probe", "unavailable")
  /\ Release(t)
  /\ open' = open \ {candidate}
  /\ live' = live \ {candidate}
  /\ candidate' = NoSession
  /\ UNCHANGED <<clock, pacingVars, session, attempts, op>>

(* The conversation opens: the lock again, and self._session read anew.    *)
(* Another thread may have closed it since ensure_connected returned.      *)
OpenConversation(t) ==
  /\ LockFree
  /\ \/ /\ session = NoSession
        /\ Returns(t, "converse", "unavailable")
        /\ UNCHANGED <<owner, using>>
     \/ /\ session # NoSession
        /\ Goto(t, "converse", IF op[t] = "collect" THEN "contract" ELSE "scan")
        /\ owner' = t
        /\ using' = [using EXCEPT ![t] = session]
        /\ UNCHANGED result
  /\ UNCHANGED <<clock, pacingVars, socketVars, op>>

(* request_contract_details: no candidate before the timeout, or a raise. *)
ContractUnresolved(t) ==
  /\ Returns(t, "contract", "unresolved")
  /\ Release(t)
  /\ UNCHANGED <<clock, pacingVars, socketVars, op>>

(* Seeded bug: the request is sent and not charged to the budget. *)
SendUncharged(t) ==
  /\ Goto(t, "contract", "historical")
  /\ requestTimes' = Prune
  /\ sent' = sent \cup {[id |-> Cardinality(sent) + 1, at |-> clock]}
  /\ UNCHANGED <<clock, owner, socketVars, op, using, result>>

(* The contract resolved: the historical request is charged and sent.  The *)
(* list is pruned here but its length is not looked at again.  is_live is  *)
(* not either, and a session that reported a disconnect code may still     *)
(* answer, or have answered before its socket dropped.                     *)
SendHistorical(t) ==
  /\ Goto(t, "contract", "historical")
  /\ LET request == [id |-> Cardinality(sent) + 1, at |-> clock]
     IN  /\ requestTimes' = Prune \cup {request}
         /\ sent' = sent \cup {request}
  /\ UNCHANGED <<clock, owner, socketVars, op, using, result>>

(* Seeded bug: request_historical waits for an answer without a timeout. *)
HistoricalNoTimeout(t) ==
  /\ using[t] \in live
  /\ Goto(t, "historical", "quote")
  /\ result' = [result EXCEPT ![t] = "bars"]
  /\ UNCHANGED <<clock, pacingVars, owner, socketVars, op, using>>

(* request_historical returns: bars, or none (timeout, error, dead socket). *)
HistoricalReturns(t) ==
  /\ Goto(t, "historical", "quote")
  /\ \E outcome \in {"bars", "no_bars"} : result' = [result EXCEPT ![t] = outcome]
  /\ UNCHANGED <<clock, pacingVars, owner, socketVars, op, using>>

(* fetch_quote returns within its timeout, whatever arrived. *)
QuoteReturns(t) ==
  /\ Goto(t, "quote", "idle")
  /\ Release(t)
  /\ UNCHANGED <<clock, pacingVars, socketVars, op, result>>

(* run_scanner returns within its timeout, rows or not. *)
ScanReturns(t) ==
  /\ Goto(t, "scan", "idle")
  /\ Release(t)
  /\ UNCHANGED <<clock, pacingVars, socketVars, op, result>>
-----------------------------------------------------------------------------
(* The gateway closes a socket: connectionClosed, or a disconnect code. *)
SocketDrops(s) ==
  /\ s \in live
  /\ live' = live \ {s}
  /\ UNCHANGED <<clock, pacingVars, owner, session, open, candidate, attempts,
                 pc, op, using, result>>

Tick ==
  /\ clock < MaxClock
  /\ clock' = clock + 1
  /\ UNCHANGED <<pacingVars, owner, socketVars, pc, op, using, result>>

Probe(t) ==
  \/ \E s \in Sessions : ProbeOpens(t, s)
  \/ ProbeReady(t)
  \/ ProbeRejects(t)
  \/ ProbeFails(t)
  \/ ProbeRaises(t)

Converse(t) ==
  \/ ContractUnresolved(t)
  \/ SendHistorical(t)
  \/ HistoricalReturns(t)
  \/ QuoteReturns(t)
  \/ ScanReturns(t)

Next ==
  \/ \E t \in Threads :
       \/ BeginCollect(t) \/ BeginScan(t) \/ Close(t)
       \/ EnsureConnected(t) \/ OpenConversation(t)
       \/ Probe(t) \/ HandshakeEnds(t) \/ Converse(t)
  \/ \E s \in Sessions : SocketDrops(s)
  \/ Tick

(* A thread that holds the lock goes on: its waits have a timeout.  The    *)
(* one that has none is session.connect, which exchanges the API versions  *)
(* with the gateway, so nothing is assumed of HandshakeEnds.  Nor is       *)
(* anything of threads waiting for the lock, which is not a fair queue.    *)
Fairness == \A t \in Threads : WF_vars(Probe(t) \/ Converse(t))

Spec == Init /\ [][Next]_vars

FairSpec == Spec /\ Fairness
-----------------------------------------------------------------------------
(* Nothing the window still counts is ever dropped from the list, and      *)
(* nothing is in the list that was not sent: _prune_pacing loses no        *)
(* request early, and every request sent is charged.                       *)
PruneLosesNothing ==
  /\ Budget!InWindow(sent, clock) \subseteq requestTimes
  /\ requestTimes \subseteq sent

(* The check and the charge are two locked regions, so callers that passed *)
(* the check together may all send: the window can hold one request more   *)
(* than the budget per extra caller, and never more than that.             *)
OvershootBounded ==
  Cardinality(Budget!InWindow(sent, clock)) <= MaxRequests + Cardinality(Threads) - 1

(* What the pacing comment in provider_session.py says of the budget:      *)
(* "It is never quietly exceeded."                                         *)
NeverExceeded == Cardinality(Budget!InWindow(sent, clock)) <= MaxRequests

(* A thread in conversation holds the lock, and converses over the session *)
(* that is the provider's: no close and no reconnect by another thread     *)
(* takes the session object from under it.                                 *)
SingleConversation ==
  \A t \in Threads : pc[t] \in Conversing =>
    /\ owner = t
    /\ using[t] = session
    /\ session \in open

(* Every session object that was connected is the current one, or the one  *)
(* a probe is trying, or has been shut down: no reconnect, failed probe or *)
(* close leaves a socket (and its client id) behind.                       *)
NoSocketLeak ==
  /\ open \subseteq {session, candidate}
  /\ (candidate # NoSession) => (owner \in Threads /\ pc[owner] \in Probing)

(* collect_symbol refuses only when the window really is full. *)
RefusedOnlyWhenFull ==
  [][\A t \in Threads :
       (result[t] # "refused" /\ result'[t] = "refused")
         => Cardinality(Budget!InWindow(sent, clock)) >= MaxRequests]_vars

(* A thread that holds the lock over a wait gives it back, whatever the    *)
(* gateway does, with one exception: a gateway that accepts the socket and *)
(* never finishes the handshake of session.connect stops every caller for  *)
(* good.  No dead socket, silent request or failing probe does.            *)
LockReleased ==
  \/ []<>(owner = NoThread)
  \/ <>[](\E t \in Threads : pc[t] = "handshake")

(* The provider paces its requests as RateBudget says, with the capacity   *)
(* that OvershootBounded names.                                            *)
PacesRequests == Budget!Spec
=============================================================================
