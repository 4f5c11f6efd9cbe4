----------------------------- MODULE IbkrSession -----------------------------
(***************************************************************************)
(* One read-only gateway session (session.py of the export tool, and       *)
(* ibkr_session.py which extends it for the screener).                     *)
(*                                                                         *)
(* The thread that holds the provider's lock makes one request at a time:  *)
(* it registers an event under a fresh id, sends, waits with a timeout,    *)
(* cancels what would stream on, and reads the tables under the session's  *)
(* lock.  The reader thread runs the gateway's callbacks one after the     *)
(* other: items fill the tables, an end or an error that ends a request    *)
(* sets the event.  Messages to a request that timed out keep coming.      *)
(*                                                                         *)
(* The gateway and the socket are external: messages arrive in the order   *)
(* sent, a dropped socket loses the last of them.  An item is a contract   *)
(* candidate, a bar, a scanner row or a tick, and stands for the request   *)
(* the gateway sent it for.  Left out: the connection's own handshake,     *)
(* reqCurrentTime and the scanner parameters.                              *)
(***************************************************************************)
EXTENDS Integers, FiniteSets, Sequences

CONSTANTS
  MaxRequests,   (* bound: requests made                                    *)
  MaxItems,      (* bound: items the gateway sends for one request          *)
  MaxErrors,     (* bound: errors the gateway sends                         *)
  MaxWire        (* bound: messages the reader is behind the gateway        *)

ASSUME SessionBounds ==
  /\ MaxRequests \in Nat \ {0} /\ MaxItems \in Nat
  /\ MaxErrors \in Nat /\ MaxWire \in Nat

VARIABLES
  requests,   (* the requests made so far: kind and id                      *)
  pc,         (* where the requesting thread is                             *)
  completed,  (* what done.wait() returned to it                            *)
  result,     (* what its last request returned                             *)
  done,       (* _contract_done, _hist_done, _scanner_done, _tick_done      *)
  got,        (* _contract_candidates, _bars, _scanner_rows, _ticks         *)
  errs,       (* _errors, and the errors of a tick slot                     *)
  closed,     (* _connection_closed                                         *)
  reader,     (* where the reader thread is in error(), and the message     *)
  wire,       (* the messages the reader has not taken                      *)
  up,         (* isConnected()                                              *)
  gateway,    (* what each request is to the gateway                        *)
  sent,       (* items the gateway sent for each request                    *)
  whole,      (* history: items the gateway sent before it ended the        *)
              (* request under way                                          *)
  faults      (* errors the gateway sent                                    *)

requester == <<requests, pc, completed, result>>
tables == <<done, got, errs, closed>>
outside == <<wire, up, gateway, sent, whole, faults>>
vars == <<requester, tables, reader, outside>>

Kinds == {"contract", "bars", "scanner", "quote"}
Streams == {"scanner", "quote"}      (* cancelled when read *)
Codes == {"notice", "lost", "ending"}
Requests == 1..MaxRequests           (* the n-th request *)
Ids == 1..MaxRequests                (* request ids; 0 for none *)
NoEnd == -1

Messages == [id : {0} \cup Ids, of : {0} \cup Requests, what : {"item", "end"} \cup Codes]
Silence == [id |-> 0, of |-> 0, what |-> "notice"]

Results == [of : {0} \cup Requests, items : Seq(Requests), errs : SUBSET Codes,
            completed : BOOLEAN]
NoResult == [of |-> 0, items |-> <<>>, errs |-> {}, completed |-> FALSE]

TypeOK ==
  /\ requests \in Seq([kind : Kinds, id : Ids])
  /\ pc \in {"idle", "send", "wait", "cancel", "collect"}
  /\ completed \in BOOLEAN
  /\ result \in Results
  /\ done \in [Ids -> {"none", "clear", "set"}]
  /\ got \in [Ids -> Seq(Requests)]
  /\ errs \in [Ids -> SUBSET Codes]
  /\ closed \in BOOLEAN
  /\ reader \in [at : {"take", "wake", "slot", "wakeSlot"}, msg : Messages]
  /\ wire \in Seq(Messages)
  /\ up \in BOOLEAN
  /\ gateway \in [Requests -> {"none", "open", "ended", "over"}]
  /\ sent \in [Requests -> 0..MaxItems]
  /\ whole \in NoEnd..MaxItems
  /\ faults \in 0..MaxErrors

Init ==
  /\ requests = <<>>
  /\ pc = "idle"
  /\ completed = FALSE
  /\ result = NoResult
  /\ done = [i \in Ids |-> "none"]
  /\ got = [i \in Ids |-> <<>>]
  /\ errs = [i \in Ids |-> {}]
  /\ closed = FALSE
  /\ reader = [at |-> "take", msg |-> Silence]
  /\ wire = <<>>
  /\ up = TRUE
  /\ gateway = [r \in Requests |-> "none"]
  /\ sent = [r \in Requests |-> 0]
  /\ whole = NoEnd
  /\ faults = 0
-----------------------------------------------------------------------------
Current == Len(requests)                 (* the request under way *)
Kind(r) == requests[r].kind
CurrentId == requests[Current].id

IsLive == up /\ ~closed

(* Seeded bugs: the counter is not advanced; it is read, then advanced. *)
SameReqId == 1
StaleReqId == Current

NextReqId == Current + 1

(* Bars and a quote go out without another look at the session; which of  *)
(* the kinds a provider call asks for next is left open.                   *)
NextKinds == IF IsLive THEN Kinds ELSE {"bars", "quote"}

(* The event and the tables of the request, before it is sent. *)
Register(kind) ==
  /\ pc = "idle"
  /\ Current < MaxRequests
  /\ kind \in NextKinds
  /\ requests' = Append(requests, [kind |-> kind, id |-> NextReqId])
  /\ done' = [done EXCEPT ![NextReqId] = "clear"]
  /\ got' = IF kind = "quote" THEN [got EXCEPT ![NextReqId] = <<>>] ELSE got
  /\ pc' = "send"
  /\ result' = NoResult
  /\ whole' = NoEnd
  /\ UNCHANGED <<completed, errs, closed, reader, wire, up, gateway, sent, faults>>

(* What the client does with a request on a closed socket: error(504). *)
Refused ==
  /\ errs' = [errs EXCEPT ![CurrentId] = @ \cup {"ending"}]
  /\ done' = [done EXCEPT ![CurrentId] = "set"]
  /\ UNCHANGED gateway

ToGateway(state) ==
  /\ gateway' = [gateway EXCEPT ![Current] = state]
  /\ UNCHANGED <<errs, done>>

Send ==
  /\ pc = "send"
  /\ pc' = "wait"
  /\ IF up THEN ToGateway("open") ELSE Refused
  /\ UNCHANGED <<requests, completed, result, got, closed, reader, wire, up, sent, whole, faults>>

Leave(answered) ==
  /\ completed' = answered
  /\ pc' = IF Kind(Current) \in Streams THEN "cancel" ELSE "collect"
  /\ UNCHANGED <<requests, result, tables, reader, outside>>

Woken == pc = "wait" /\ done[CurrentId] = "set" /\ Leave(TRUE)

(* Seeded bug: the wait has no timeout of its own while the socket lives. *)
TimeOutWhenDown == pc = "wait" /\ done[CurrentId] = "clear" /\ ~up /\ Leave(FALSE)

(* The timeout of the wait; for a quote also prices that have settled. *)
TimeOut == pc = "wait" /\ done[CurrentId] = "clear" /\ Leave(FALSE)

(* Seeded bug: a request that completed is not cancelled. *)
CancelUnlessComplete ==
  /\ pc = "cancel"
  /\ pc' = "collect"
  /\ IF completed THEN UNCHANGED <<gateway, errs, done>>
     ELSE IF up THEN ToGateway("over") ELSE Refused
  /\ UNCHANGED <<requests, completed, result, got, closed, reader, wire, up, sent, whole, faults>>

(* cancelScannerSubscription, cancelMktData: what is on its way still comes. *)
Cancel ==
  /\ pc = "cancel"
  /\ pc' = "collect"
  /\ IF up THEN ToGateway("over") ELSE Refused
  /\ UNCHANGED <<requests, completed, result, got, closed, reader, wire, up, sent, whole, faults>>

(* The tables, read under the lock.  A quote is its slot, which late ticks *)
(* still change: this is the slot as it is handed over.                    *)
Collect ==
  /\ pc = "collect"
  /\ pc' = "idle"
  /\ result' = [of |-> Current, items |-> got[CurrentId], errs |-> errs[CurrentId],
                completed |-> completed]
  /\ completed' = FALSE
  /\ UNCHANGED <<requests, tables, reader, outside>>

(* ensure_connected finds the session dead, shuts it down and builds a     *)
(* new one; the ids go on.                                                 *)
Replace ==
  /\ pc = "idle"
  /\ ~IsLive
  /\ result' = NoResult
  /\ done' = [i \in Ids |-> "none"]
  /\ got' = [i \in Ids |-> <<>>]
  /\ errs' = [i \in Ids |-> {}]
  /\ closed' = FALSE
  /\ reader' = [at |-> "take", msg |-> Silence]
  /\ wire' = <<>>
  /\ up' = TRUE
  /\ gateway' = [r \in Requests |-> IF gateway[r] = "none" THEN "none" ELSE "over"]
  /\ UNCHANGED <<requests, pc, completed, sent, whole, faults>>
-----------------------------------------------------------------------------
(* The gateway and the socket.                                             *)

Message(r, what) == [id |-> requests[r].id, of |-> r, what |-> what]

Sends(msg) == Len(wire) < MaxWire /\ wire' = Append(wire, msg)

(* A scanner and a quote go on until they are cancelled. *)
SendItem(r) ==
  /\ gateway[r] = "open" \/ (gateway[r] = "ended" /\ Kind(r) \in Streams)
  /\ sent[r] < MaxItems
  /\ sent' = [sent EXCEPT ![r] = @ + 1]
  /\ Sends(Message(r, "item"))
  /\ UNCHANGED <<requester, tables, reader, up, gateway, whole, faults>>

SendEnd(r) ==
  /\ gateway[r] = "open" /\ Kind(r) # "quote"
  /\ gateway' = [gateway EXCEPT ![r] = "ended"]
  /\ whole' = IF r = Current THEN sent[r] ELSE whole
  /\ Sends(Message(r, "end"))
  /\ UNCHANGED <<requester, tables, reader, up, sent, faults>>

(* An error that ends the request here need not end it at the gateway. *)
SendError(r, msg, state) ==
  /\ gateway[r] = "open"
  /\ faults < MaxErrors
  /\ faults' = faults + 1
  /\ state = "over" => msg = "ending"
  /\ gateway' = [gateway EXCEPT ![r] = state]
  /\ Sends(Message(r, msg))
  /\ UNCHANGED <<requester, tables, reader, up, sent, whole>>

(* 1100: the gateway lost its own server; no request is named. *)
SendLost ==
  /\ up
  /\ faults < MaxErrors
  /\ faults' = faults + 1
  /\ Sends([id |-> 0, of |-> 0, what |-> "lost"])
  /\ UNCHANGED <<requester, tables, reader, up, gateway, sent, whole>>

SocketDrops(kept) ==
  /\ up
  /\ up' = FALSE
  /\ wire' = SubSeq(wire, 1, kept)
  /\ gateway' = [r \in Requests |-> IF gateway[r] = "none" THEN "none" ELSE "over"]
  /\ UNCHANGED <<requester, tables, reader, sent, whole, faults>>
-----------------------------------------------------------------------------
(* The reader thread.                                                      *)

First == Head(wire)
Takes(what) == reader.at = "take" /\ wire # <<>> /\ First.what \in what /\ wire' = Tail(wire)

(* contractDetails, historicalData, scannerData, and the tick callbacks. *)
TakeItem ==
  /\ Takes({"item"})
  /\ got' = [got EXCEPT ![First.id] = Append(@, First.of)]
  /\ UNCHANGED <<requester, done, errs, closed, reader, up, gateway, sent, whole, faults>>

Awaken(id, kinds) ==
  IF id # 0 /\ done[id] = "clear" /\ \E r \in 1..Current : requests[r].id = id /\ Kind(r) \in kinds
  THEN [done EXCEPT ![id] = "set"] ELSE done

(* contractDetailsEnd, historicalDataEnd, scannerDataEnd *)
TakeEnd ==
  /\ Takes({"end"})
  /\ done' = Awaken(First.id, Kinds)
  /\ UNCHANGED <<requester, got, errs, closed, reader, up, gateway, sent, whole, faults>>

(* Seeded bug: every error ends its request. *)
EveryErrorEnds(what) == what \in Codes

IsRequestEnding(what) == what = "ending"

(* error(): recorded under the lock; _errors is what all but a quote read. *)
TakeError ==
  /\ Takes(Codes)
  /\ errs' = IF First.id # 0 /\ Kind(First.of) # "quote"
             THEN [errs EXCEPT ![First.id] = @ \cup {First.what}] ELSE errs
  /\ reader' = [at |-> "wake", msg |-> First]
  /\ UNCHANGED <<requester, done, got, closed, up, gateway, sent, whole, faults>>

(* Seeded bug: only a historical request is woken. *)
WakeBarsOnly ==
  /\ reader.at = "wake"
  /\ closed' = (closed \/ reader.msg.what = "lost")
  /\ done' = IF IsRequestEnding(reader.msg.what) THEN Awaken(reader.msg.id, {"bars"}) ELSE done
  /\ reader' = [reader EXCEPT !.at = "slot"]
  /\ UNCHANGED <<requester, got, errs, outside>>

Wake ==
  /\ reader.at = "wake"
  /\ closed' = (closed \/ reader.msg.what = "lost")
  /\ done' = IF IsRequestEnding(reader.msg.what)
             THEN Awaken(reader.msg.id, Kinds \ Streams) ELSE done
  /\ reader' = [reader EXCEPT !.at = "slot"]
  /\ UNCHANGED <<requester, got, errs, outside>>

(* The override: the slot of a quote, under the lock. *)
RecordInSlot ==
  /\ reader.at = "slot"
  /\ errs' = IF reader.msg.id # 0 /\ Kind(reader.msg.of) = "quote"
             THEN [errs EXCEPT ![reader.msg.id] = @ \cup {reader.msg.what}] ELSE errs
  /\ reader' = [reader EXCEPT !.at = "wakeSlot"]
  /\ UNCHANGED <<requester, done, got, closed, outside>>

WakeStream ==
  /\ reader.at = "wakeSlot"
  /\ done' = IF IsRequestEnding(reader.msg.what) THEN Awaken(reader.msg.id, Streams) ELSE done
  /\ reader' = [at |-> "take", msg |-> Silence]
  /\ UNCHANGED <<requester, got, errs, closed, outside>>

(* connectionClosed(): it wakes nobody. *)
ConnectionClosed ==
  /\ ~up /\ ~closed
  /\ closed' = TRUE
  /\ UNCHANGED <<requester, done, got, errs, reader, outside>>
-----------------------------------------------------------------------------
Ask == \/ \E kind \in Kinds : Register(kind)
       \/ Replace

Answered == Send \/ Woken \/ TimeOut \/ Cancel \/ Collect

Gateway ==
  \/ \E r \in 1..Current :
       \/ SendItem(r)
       \/ SendEnd(r)
       \/ \E msg \in {"notice", "ending"}, state \in {"open", "over"} : SendError(r, msg, state)
  \/ SendLost
  \/ \E kept \in 0..Len(wire) : SocketDrops(kept)

Reader == TakeItem \/ TakeEnd \/ TakeError \/ Wake \/ RecordInSlot \/ WakeStream \/ ConnectionClosed

Next == Ask \/ Answered \/ Gateway \/ Reader

(* Every wait has a timeout, and the thread is never held up otherwise. *)
FairSpec == Init /\ [][Next]_vars /\ WF_vars(Answered)
-----------------------------------------------------------------------------
(* Properties.                                                             *)

(* A request that completed without an error that ends it returns at least *)
(* everything the gateway sent before its end, although the items, the end *)
(* and the errors arrive on another thread than the one that reads them.   *)
CompleteMeansAll ==
  result.completed /\ "ending" \notin result.errs =>
    /\ whole # NoEnd
    /\ Len(result.items) >= whole

(* The bars of one symbol are never taken for another's: what a request    *)
(* returns was sent for it, however late the items of a request that timed *)
(* out, and was never cancelled, come in.                                  *)
OwnItemsOnly == \A i \in 1..Len(result.items) : result.items[i] = result.of

(* "Always cancelled; never left streaming": between two requests nothing  *)
(* streams, whether the last one completed, failed or timed out.           *)
NeverLeftStreaming ==
  pc = "idle" =>
    \A r \in 1..Current : Kind(r) \in Streams => gateway[r] \notin {"open", "ended"}

(* No lost wake-up: once the gateway has ended the request that waits, and *)
(* the reader has no end or error of it left to handle, its event is set:  *)
(* it never sits out a timeout over an answer already handled.             *)
AnswerWakes ==
  pc = "wait" /\ up /\ gateway[Current] \in {"ended", "over"} /\ reader.at = "take" =>
    \/ done[CurrentId] = "set"
    \/ \E i \in 1..Len(wire) : wire[i].of = Current /\ wire[i].what \in {"end", "ending"}

(* Every request comes back, though the gateway may never answer and a     *)
(* dropped socket wakes nobody.                                            *)
RequestsEnd == (pc # "idle") ~> (pc = "idle")
=============================================================================
