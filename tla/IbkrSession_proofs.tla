------------------------- MODULE IbkrSession_proofs -------------------------
(***************************************************************************)
(* IbkrSession, for every number of requests, items, errors and messages   *)
(* under way: what the requesting thread finds in the tables that the      *)
(* reader thread fills.                                                    *)
(*                                                                         *)
(* The events and tables of the request under way have to be tied to the   *)
(* messages the reader has still to take.  Arrivals does it for the items: *)
(* it gives, for each message on the wire, the number of items the table   *)
(* will hold once the reader has taken it, and the end of the request      *)
(* comes where that number is whole.  Waking does it for the event.        *)
(***************************************************************************)
EXTENDS IbkrSession, SequenceTheorems, TLAPS

(* The n-th request has id n.                                               *)
Numbered ==
  /\ Current =< MaxRequests
  /\ \A r \in 1..Current : requests[r].id = r
  /\ pc # "idle" => Current > 0

(* Tables of later ids are untouched, and nothing was sent for a request    *)
(* the gateway never had.                                                   *)
Fresh ==
  /\ \A r \in Requests : /\ r > Current => gateway[r] = "none" /\ got[r] = <<>>
                         /\ gateway[r] = "none" => sent[r] = 0
  /\ pc = "send" => gateway[Current] = "none"

Addressed(msg, n) ==
  \/ msg.id = 0 /\ msg.of = 0 /\ msg.what \in Codes
  \/ msg.id = msg.of /\ msg.of \in 1..n

Mail ==
  /\ \A i \in 1..Len(wire) : Addressed(wire[i], Current)
  /\ reader.at # "take" => Addressed(reader.msg, Current) /\ reader.msg.what \in Codes

Offline == ~up => \A r \in Requests : gateway[r] \in {"none", "over"}

(* What streams is the request under way, up to its cancellation.           *)
Streaming ==
  \A r \in 1..Current : Kind(r) \in Streams /\ gateway[r] \in {"open", "ended"} =>
    r = Current /\ pc \in {"wait", "cancel"}

Own ==
  /\ \A i \in Ids : \A k \in 1..Len(got[i]) : got[i][k] = i
  /\ OwnItemsOnly

(* An error is in the tables before it wakes anybody.                       *)
Recorded ==
  reader.at # "take" /\ reader.msg.id # 0 /\ reader.msg.what = "ending" =>
    (Kind(reader.msg.of) # "quote" \/ reader.at = "wakeSlot" => "ending" \in errs[reader.msg.id])

(* The event of a request whose end has been sent is set, or a message that *)
(* sets it is on the wire or in the reader's hands.                         *)
Handling ==
  /\ reader.at # "take" /\ reader.msg.of = Current /\ reader.msg.what = "ending"
  /\ reader.at = "wake" \/ Kind(Current) \in Streams

OnWire == \E i \in 1..Len(wire) : wire[i].of = Current /\ wire[i].what \in {"end", "ending"}

Waking ==
  /\ pc \in {"send", "wait"} => done[Current] \in {"clear", "set"}
  /\ pc = "wait" /\ up /\ gateway[Current] \in {"ended", "over"} =>
       done[Current] = "set" \/ OnWire \/ Handling

EndSent == whole # NoEnd => Current > 0 /\ gateway[Current] \in {"ended", "over"}

IsItem(msg, r) == msg.of = r /\ msg.what = "item"

(* n[k] items are in the table of the request under way once the reader has *)
(* taken k more messages.                                                   *)
Counts(n) ==
  /\ n \in [0..Len(wire) -> Nat]
  /\ n[0] = Len(got[Current])
  /\ \A k \in 1..Len(wire) : n[k] = IF IsItem(wire[k], Current) THEN n[k - 1] + 1 ELSE n[k - 1]
  /\ \A k \in 1..Len(wire) : wire[k].of = Current /\ wire[k].what = "end" =>
                               whole # NoEnd /\ n[k] >= whole
  /\ gateway[Current] = "none" => \A k \in 0..Len(wire) : n[k] = 0
  /\ gateway[Current] = "open" => n[Len(wire)] = sent[Current]

Arrivals == pc # "idle" => \E n \in [0..Len(wire) -> Nat] : Counts(n)

(* What a set event means.                                                  *)
Settled ==
  /\ pc # "idle" /\ done[Current] = "set" =>
       \/ "ending" \in errs[Current]
       \/ whole # NoEnd /\ Len(got[Current]) >= whole
  /\ completed => pc \in {"cancel", "collect"} /\ done[Current] = "set"

IInv ==
  /\ TypeOK /\ Numbered /\ Fresh /\ Mail /\ Offline /\ Streaming /\ Own /\ Recorded
  /\ Waking /\ EndSent /\ Arrivals /\ Settled /\ CompleteMeansAll
-----------------------------------------------------------------------------
USE SessionBounds

LEMMA InitIInv == Init => IInv
  <1> SUFFICES ASSUME Init PROVE IInv
    OBVIOUS
  <1> USE DEF Init
  <1>1. TypeOK
    <2>1. NoResult \in Results
      BY DEF Results, NoResult
    <2>2. reader \in [at : {"take", "wake", "slot", "wakeSlot"}, msg : Messages]
      BY DEF Silence, Messages, Codes
    <2>3. /\ requests \in Seq([kind : Kinds, id : Ids]) /\ wire \in Seq(Messages)
          /\ got \in [Ids -> Seq(Requests)] /\ errs \in [Ids -> SUBSET Codes]
      OBVIOUS
    <2>4. /\ done \in [Ids -> {"none", "clear", "set"}]
          /\ gateway \in [Requests -> {"none", "open", "ended", "over"}]
          /\ sent \in [Requests -> 0..MaxItems]
          /\ whole \in NoEnd..MaxItems /\ faults \in 0..MaxErrors
      BY DEF NoEnd
    <2>5. /\ pc \in {"idle", "send", "wait", "cancel", "collect"}
          /\ completed \in BOOLEAN /\ closed \in BOOLEAN /\ up \in BOOLEAN
          /\ result \in Results
      BY <2>1
    <2> QED
      BY <2>2, <2>3, <2>4, <2>5, Zenon DEF TypeOK
  <1>2. Len(requests) = 0 /\ Current = 0 /\ Len(wire) = 0
    BY DEF Current
  <1>3. Numbered /\ Fresh /\ Mail /\ Offline /\ Streaming
    <2>1. Numbered /\ Mail /\ Offline /\ Streaming
      BY <1>2 DEF Numbered, Mail, Offline, Streaming
    <2>2. Fresh
      BY DEF Fresh, Ids, Requests
    <2> QED
      BY <2>1, <2>2
  <1>4. Own /\ CompleteMeansAll
    BY DEF Own, OwnItemsOnly, NoResult, CompleteMeansAll
  <1>5. Recorded /\ Waking /\ EndSent /\ Arrivals /\ Settled
    BY DEF Recorded, Waking, EndSent, Arrivals, Settled, NoEnd
  <1> QED
    BY <1>1, <1>3, <1>4, <1>5 DEF IInv

(* The three things that happen to the wire.                                *)

LEMMA Sending ==
  ASSUME wire \in Seq(Messages), NEW msg \in Messages, Sends(msg)
  PROVE  /\ wire' \in Seq(Messages) /\ Len(wire') = Len(wire) + 1 /\ Len(wire) \in Nat
         /\ \A i \in 1..Len(wire) : wire'[i] = wire[i]
         /\ wire'[Len(wire) + 1] = msg
  BY AppendProperties DEF Sends

LEMMA Taking ==
  ASSUME wire \in Seq(Messages), NEW what, Takes(what)
  PROVE  /\ wire' \in Seq(Messages) /\ Len(wire) = Len(wire') + 1 /\ Len(wire') \in Nat
         /\ \A i \in 1..Len(wire') : wire'[i] = wire[i + 1]
         /\ First = wire[1] /\ First \in Messages
  <1>1. wire # <<>> /\ wire' = Tail(wire)
    BY DEF Takes
  <1>2. Len(wire) \in Nat \ {0}
    BY <1>1, EmptySeq
  <1> QED
    BY <1>1, <1>2, HeadTailProperties DEF First

LEMMA Dropping ==
  ASSUME wire \in Seq(Messages), NEW kept \in 0..Len(wire), wire' = SubSeq(wire, 1, kept)
  PROVE  /\ wire' \in Seq(Messages) /\ Len(wire') = kept /\ Len(wire) \in Nat
         /\ \A i \in 1..kept : wire'[i] = wire[i]
  <1>1. Len(wire) \in Nat
    OBVIOUS
  <1>2. \A i \in 1..kept : wire[i] \in Messages
    BY <1>1
  <1> QED
    BY <1>1, <1>2, SubSeqProperties

(* A request is registered under the next id, which nothing has used yet.   *)
LEMMA Registering ==
  ASSUME TypeOK, Numbered, NEW kind \in Kinds, Register(kind)
  PROVE  /\ Current \in Nat /\ Current' = Current + 1 /\ Current' \in Ids
         /\ requests' \in Seq([kind : Kinds, id : Ids])
         /\ \A r \in 1..Current : requests'[r] = requests[r]
         /\ requests'[Current + 1] = [kind |-> kind, id |-> Current + 1]
  <1> DEFINE new == [kind |-> kind, id |-> NextReqId]
  <1>1. Current \in Nat /\ NextReqId = Current + 1 /\ NextReqId \in Ids
    BY DEF TypeOK, Current, NextReqId, Register, Ids
  <1>2. new \in [kind : Kinds, id : Ids] /\ requests' = Append(requests, new)
    BY <1>1 DEF Register
  <1> HIDE DEF new
  <1>3. /\ requests' \in Seq([kind : Kinds, id : Ids]) /\ Len(requests') = Len(requests) + 1
        /\ \A i \in 1..Len(requests) : requests'[i] = requests[i]
        /\ requests'[Len(requests) + 1] = new
    BY <1>2, AppendProperties DEF TypeOK
  <1> QED
    BY <1>1, <1>3 DEF Current, new, Ids

LEMMA CurrentType ==
  ASSUME TypeOK, Numbered
  PROVE  /\ Current \in 0..MaxRequests
         /\ pc # "idle" => /\ Current \in Ids /\ Current \in Requests /\ CurrentId = Current
                           /\ Kind(Current) \in Kinds
         /\ \A r \in 1..Current : r \in Ids /\ r \in Requests /\ Kind(r) \in Kinds
  <1>1. Current \in Nat /\ \A r \in 1..Current : requests[r] \in [kind : Kinds, id : Ids]
    <2>1. requests \in Seq([kind : Kinds, id : Ids])
      BY DEF TypeOK
    <2> QED
      BY <2>1, LenProperties DEF Current
  <1>2. \A r \in 1..Current : Kind(r) \in Kinds
    BY <1>1 DEF Kind
  <1>3. pc # "idle" => Current \in 1..Current /\ CurrentId = Current
    <2>1. pc # "idle" => Current \in 1..Current
      BY <1>1 DEF Numbered
    <2>2. pc # "idle" => requests[Current].id = Current
      BY <2>1 DEF Numbered
    <2> QED
      BY <2>1, <2>2 DEF CurrentId
  <1>4. Current \in 0..MaxRequests /\ \A r \in 1..Current : r \in Ids /\ r \in Requests
    BY <1>1 DEF Numbered, Ids, Requests
  <1> QED
    BY <1>2, <1>3, <1>4

LEMMA MessageType ==
  ASSUME TypeOK, Numbered, NEW r \in 1..Current, NEW what \in {"item", "end"} \cup Codes
  PROVE  Message(r, what) \in Messages /\ Message(r, what) = [id |-> r, of |-> r, what |-> what]
  BY CurrentType DEF Message, Messages, Numbered

(* Waking an event of the tables leaves it one of their events.             *)
LEMMA AwakenType ==
  ASSUME TypeOK, NEW id, NEW kinds, NEW woken, woken = Awaken(id, kinds)
  PROVE  /\ woken \in [Ids -> {"none", "clear", "set"}]
         /\ \A i \in Ids : woken[i] # done[i] => i = id /\ done[i] = "clear" /\ woken[i] = "set"
  <1>1. done \in [Ids -> {"none", "clear", "set"}]
    BY DEF TypeOK
  <1>2. \/ woken = done
        \/ done[id] = "clear" /\ woken = [done EXCEPT ![id] = "set"]
    BY DEF Awaken
  <1> QED
    BY <1>1, <1>2

LEMMA TypeStep == TypeOK /\ Numbered /\ Mail /\ [Next]_vars => TypeOK'
  <1> SUFFICES ASSUME TypeOK, Numbered, Mail, [Next]_vars PROVE TypeOK'
    OBVIOUS
  <1> USE DEF requester, tables, outside
  <1>0. /\ NoResult \in Results /\ Silence \in Messages /\ Codes \subseteq {"item", "end"} \cup Codes
        /\ NoEnd = -1
    BY DEF NoResult, Results, Silence, Messages, Codes, NoEnd
  <1>1. CASE UNCHANGED vars
    BY <1>1 DEF vars, TypeOK
  <1>2. CASE Ask
    <2>1. ASSUME NEW kind \in Kinds, Register(kind) PROVE TypeOK'
      <3>1. requests' \in Seq([kind : Kinds, id : Ids])
        BY <2>1, Registering
      <3>2. done' \in [Ids -> {"none", "clear", "set"}]
        BY <2>1 DEF TypeOK, Register
      <3>3. got' \in [Ids -> Seq(Requests)]
        <4>1. <<>> \in Seq(Requests) /\ got \in [Ids -> Seq(Requests)]
          BY DEF TypeOK
        <4> QED
          BY <2>1, <4>1 DEF Register
      <3>4. whole' \in NoEnd..MaxItems
        BY <1>0, <2>1 DEF Register
      <3> QED
        BY <1>0, <2>1, <3>1, <3>2, <3>3, <3>4 DEF TypeOK, Register
    <2>2. CASE Replace
      <3>1. /\ reader' \in [at : {"take", "wake", "slot", "wakeSlot"}, msg : Messages]
            /\ done' \in [Ids -> {"none", "clear", "set"}]
            /\ wire' \in Seq(Messages) /\ got' \in [Ids -> Seq(Requests)]
        BY <1>0, <2>2 DEF Replace
      <3>2. gateway' \in [Requests -> {"none", "open", "ended", "over"}]
        BY <2>2 DEF TypeOK, Replace
      <3>3. errs' \in [Ids -> SUBSET Codes]
        BY <2>2 DEF Replace
      <3> QED
        BY <1>0, <2>2, <3>1, <3>2, <3>3 DEF TypeOK, Replace
    <2> QED
      BY <1>2, <2>1, <2>2 DEF Ask
  <1>3. CASE Answered
    <2>1. CASE Send \/ Cancel
      <3>1. /\ errs' \in [Ids -> SUBSET Codes]
            /\ done' \in [Ids -> {"none", "clear", "set"}]
            /\ gateway' \in [Requests -> {"none", "open", "ended", "over"}]
        <4>1. Refused \/ \E state \in {"open", "over"} : ToGateway(state)
          BY <2>1 DEF Send, Cancel
        <4>2. CASE Refused
          BY <4>2 DEF Refused, TypeOK, Codes
        <4>3. ASSUME NEW state \in {"open", "over"}, ToGateway(state)
              PROVE  gateway' \in [Requests -> {"none", "open", "ended", "over"}]
          BY <4>3 DEF ToGateway, TypeOK
        <4>4. ASSUME NEW state \in {"open", "over"}, ToGateway(state)
              PROVE  errs' = errs /\ done' = done
          BY <4>4 DEF ToGateway
        <4> QED
          BY <4>1, <4>2, <4>3, <4>4 DEF TypeOK
      <3> QED
        BY <2>1, <3>1 DEF TypeOK, Send, Cancel
    <2>2. CASE Woken \/ TimeOut
      BY <2>2 DEF TypeOK, Woken, TimeOut, Leave
    <2>3. CASE Collect
      <3>1. result' \in Results
        BY <2>3, CurrentType DEF Collect, Results, TypeOK
      <3> QED
        BY <2>3, <3>1 DEF TypeOK, Collect
    <2> QED
      BY <1>3, <2>1, <2>2, <2>3 DEF Answered
  <1>4. CASE Gateway
    <2>1. ASSUME NEW r \in 1..Current, SendItem(r) PROVE TypeOK'
      <3>1. r \in Requests /\ wire' \in Seq(Messages)
        BY <2>1, CurrentType, MessageType, Sending DEF SendItem, TypeOK
      <3> QED
        BY <2>1, <3>1 DEF TypeOK, SendItem
    <2>2. ASSUME NEW r \in 1..Current, SendEnd(r) PROVE TypeOK'
      <3>1. r \in Requests /\ wire' \in Seq(Messages)
        BY <2>2, CurrentType, MessageType, Sending DEF SendEnd, TypeOK
      <3>2. whole' \in NoEnd..MaxItems
        BY <1>0, <2>2, <3>1 DEF TypeOK, SendEnd
      <3> QED
        BY <2>2, <3>1, <3>2 DEF TypeOK, SendEnd
    <2>3. ASSUME NEW r \in 1..Current, NEW msg \in {"notice", "ending"}, NEW state \in {"open", "over"},
                 SendError(r, msg, state)
          PROVE  TypeOK'
      <3>1. msg \in Codes
        BY DEF Codes
      <3>2. r \in Requests /\ wire' \in Seq(Messages)
        BY <2>3, <3>1, CurrentType, MessageType, Sending DEF SendError, TypeOK
      <3> QED
        BY <2>3, <3>2 DEF TypeOK, SendError
    <2>4. CASE SendLost
      <3>1. [id |-> 0, of |-> 0, what |-> "lost"] \in Messages
        BY DEF Messages, Codes
      <3>2. wire' \in Seq(Messages)
        BY <2>4, <3>1, Sending DEF SendLost, TypeOK
      <3> QED
        BY <2>4, <3>2 DEF TypeOK, SendLost
    <2>5. ASSUME NEW kept \in 0..Len(wire), SocketDrops(kept) PROVE TypeOK'
      <3>1. wire' \in Seq(Messages)
        BY <2>5, Dropping DEF SocketDrops, TypeOK
      <3> QED
        BY <2>5, <3>1 DEF TypeOK, SocketDrops
    <2> QED
      BY <1>4, <2>1, <2>2, <2>3, <2>4, <2>5 DEF Gateway
  <1>5. CASE Reader
    <2>1. CASE TakeItem
      <3>1. wire' \in Seq(Messages) /\ First = wire[1] /\ Len(wire) >= 1
        BY <2>1, Taking DEF TakeItem, TypeOK
      <3>2. First.what = "item"
        BY <2>1 DEF TakeItem, Takes
      <3>3. First.of \in Requests
        BY <3>1, <3>2, CurrentType DEF Mail, Addressed, Codes
      <3>4. got' \in [Ids -> Seq(Requests)]
        <4>1. \A q \in Seq(Requests) : Append(q, First.of) \in Seq(Requests)
          BY <3>3, AppendProperties
        <4>2. got \in [Ids -> Seq(Requests)]
          BY DEF TypeOK
        <4> QED
          BY <2>1, <4>1, <4>2 DEF TakeItem
      <3> QED
        BY <2>1, <3>1, <3>4 DEF TypeOK, TakeItem
    <2>2. CASE TakeEnd
      <3>1. wire' \in Seq(Messages)
        BY <2>2, Taking DEF TakeEnd, TypeOK
      <3>2. done' \in [Ids -> {"none", "clear", "set"}]
        BY <2>2, AwakenType DEF TakeEnd
      <3> QED
        BY <2>2, <3>1, <3>2 DEF TypeOK, TakeEnd
    <2>3. CASE TakeError
      <3>1. wire' \in Seq(Messages) /\ First \in Messages
        BY <2>3, Taking DEF TakeError, TypeOK
      <3>2. First.what \in Codes
        BY <2>3 DEF TakeError, Takes
      <3>3. errs' \in [Ids -> SUBSET Codes]
        BY <2>3, <3>2 DEF TypeOK, TakeError
      <3> QED
        BY <2>3, <3>1, <3>3 DEF TypeOK, TakeError
    <2>4. CASE Wake
      <3>1. done' \in [Ids -> {"none", "clear", "set"}]
        BY <2>4, AwakenType DEF Wake, TypeOK
      <3> QED
        BY <2>4, <3>1 DEF TypeOK, Wake
    <2>5. CASE RecordInSlot
      <3>1. reader.msg.what \in Codes
        BY <2>5 DEF RecordInSlot, Mail
      <3>2. errs' \in [Ids -> SUBSET Codes]
        BY <2>5, <3>1 DEF TypeOK, RecordInSlot
      <3> QED
        BY <2>5, <3>2 DEF TypeOK, RecordInSlot
    <2>6. CASE WakeStream
      <3>1. done' \in [Ids -> {"none", "clear", "set"}]
        BY <2>6, AwakenType DEF WakeStream, TypeOK
      <3> QED
        BY <1>0, <2>6, <3>1 DEF TypeOK, WakeStream
    <2>7. CASE ConnectionClosed
      BY <2>7 DEF TypeOK, ConnectionClosed
    <2> QED
      BY <1>5, <2>1, <2>2, <2>3, <2>4, <2>5, <2>6, <2>7 DEF Reader
  <1> QED
    BY <1>1, <1>2, <1>3, <1>4, <1>5 DEF Next
(* What the reader takes was sent for a request that was made.              *)
LEMMA Reading ==
  ASSUME TypeOK, Numbered, Mail, NEW what, Takes(what)
  PROVE  /\ First = wire[1] /\ 1 \in 1..Len(wire) /\ Addressed(First, Current) /\ First.what \in what
         /\ First.what \notin Codes => /\ First.id = First.of /\ First.of \in 1..Current
                                       /\ First.of \in Ids /\ First.of \in Requests
  <1>1. First = wire[1] /\ 1 \in 1..Len(wire)
    BY Taking DEF TypeOK
  <1>2. Addressed(First, Current) /\ First.what \in what
    BY <1>1 DEF Mail, Takes
  <1> QED
    BY <1>1, <1>2, CurrentType DEF Addressed

(* It puts an item at the end of the table of that request.                 *)
LEMMA ItemTaken ==
  ASSUME TypeOK, Numbered, Mail, TakeItem, NEW r, r = First.of
  PROVE  /\ wire[1].of = r /\ wire[1].what = "item" /\ r \in 1..Current /\ r \in Ids
         /\ \A i \in Ids : i # r => got'[i] = got[i]
         /\ Len(got'[r]) = Len(got[r]) + 1 /\ Len(got[r]) \in Nat
         /\ \A k \in 1..Len(got[r]) : got'[r][k] = got[r][k]
         /\ got'[r][Len(got[r]) + 1] = r
  <1>1. First = wire[1] /\ First.what = "item"
    BY Reading DEF TakeItem
  <1>2. First.id = r /\ r \in 1..Current /\ r \in Ids /\ r \in Requests
    BY <1>1, Reading DEF TakeItem, Codes
  <1>3. got \in [Ids -> Seq(Requests)]
    BY DEF TypeOK
  <1>4. PICK table : table = Append(got[r], r)
    OBVIOUS
  <1>5. got' = [got EXCEPT ![r] = table]
    BY <1>2, <1>4 DEF TakeItem
  <1>6. got'[r] = table /\ \A i \in Ids : i # r => got'[i] = got[i]
    BY <1>2, <1>3, <1>5
  <1>7. /\ Len(table) = Len(got[r]) + 1 /\ Len(got[r]) \in Nat
        /\ \A k \in 1..Len(got[r]) : table[k] = got[r][k]
        /\ table[Len(got[r]) + 1] = r
    BY <1>2, <1>3, <1>4, AppendProperties
  <1> QED
    BY <1>1, <1>2, <1>6, <1>7

LEMMA NumberedStep == TypeOK /\ Numbered /\ [Next]_vars => Numbered'
  <1> SUFFICES ASSUME TypeOK, Numbered, [Next]_vars PROVE Numbered'
    OBVIOUS
  <1> USE DEF requester, tables, outside
  <1>1. ASSUME NEW kind \in Kinds, Register(kind) PROVE Numbered'
    <2>1. /\ Current \in Nat /\ Current' = Current + 1 /\ Current' \in Ids
          /\ \A r \in 1..Current : requests'[r] = requests[r]
          /\ requests'[Current + 1] = [kind |-> kind, id |-> Current + 1]
      BY <1>1, Registering
    <2>2. \A r \in 1..Current' : requests'[r].id = r
      BY <2>1 DEF Numbered
    <2>3. Current' =< MaxRequests /\ Current' > 0
      BY <2>1 DEF Ids
    <2> QED
      BY <2>2, <2>3 DEF Numbered
  <1>2. ASSUME requests' = requests, pc' = "idle" \/ pc # "idle" PROVE Numbered'
    BY <1>2 DEF Numbered, Current
  <1>3. CASE UNCHANGED vars
    BY <1>2, <1>3 DEF vars
  <1>4. CASE Replace
    BY <1>2, <1>4 DEF Replace
  <1>5. CASE Answered
    BY <1>2, <1>5 DEF Answered, Send, Woken, TimeOut, Leave, Cancel, Collect
  <1>6. CASE Gateway
    BY <1>2, <1>6 DEF Gateway, SendItem, SendEnd, SendError, SendLost, SocketDrops
  <1>7. CASE Reader
    BY <1>2, <1>7 DEF Reader, TakeItem, TakeEnd, TakeError, Wake, RecordInSlot, WakeStream,
                      ConnectionClosed
  <1> QED
    BY <1>1, <1>3, <1>4, <1>5, <1>6, <1>7 DEF Next, Ask

LEMMA FreshStep == TypeOK /\ Numbered /\ Mail /\ Fresh /\ [Next]_vars => Fresh'
  <1> SUFFICES ASSUME TypeOK, Numbered, Mail, Fresh, [Next]_vars PROVE Fresh'
    OBVIOUS
  <1> USE DEF requester, tables, outside
  <1>0. Current \in 0..MaxRequests /\ \A r \in 1..Current : r \in Requests /\ r \in Ids
    BY CurrentType
  <1>1. ASSUME NEW kind \in Kinds, Register(kind) PROVE Fresh'
    <2>1. Current' = Current + 1 /\ NextReqId = Current + 1 /\ Current' \in Requests
      BY <1>1, Registering DEF NextReqId, Ids, Requests
    <2>2. \A r \in Requests : r > Current' => got'[r] = got[r]
      BY <1>0, <1>1, <2>1 DEF Register, TypeOK, Requests, Ids
    <2>3. gateway' = gateway /\ sent' = sent /\ gateway[Current'] = "none"
      BY <1>0, <1>1, <2>1 DEF Register, Fresh
    <2> QED
      BY <1>0, <2>1, <2>2, <2>3 DEF Fresh, Requests
  <1>2. ASSUME requests' = requests, got' = got, sent' = sent,
               \A r \in Requests : (gateway'[r] = "none") <=> (gateway[r] = "none"),
               pc' = "send" => pc = "send"
        PROVE  Fresh'
    <2>1. Current' = Current /\ (pc = "send" => Current \in Requests)
      BY <1>2, CurrentType DEF Current
    <2> QED
      BY <1>2, <2>1 DEF Fresh
  <1>3. CASE UNCHANGED vars
    BY <1>2, <1>3 DEF vars
  <1>4. CASE Replace
    BY <1>4 DEF Replace, Fresh, Current, Requests, Ids
  <1>5. CASE Answered
    <2>1. CASE Send \/ Cancel
      <3>1. pc # "idle" /\ Current \in Requests
        BY <2>1, CurrentType DEF Send, Cancel
      <3>2. \A r \in Requests : r # Current => gateway'[r] = gateway[r]
        BY <2>1, <3>1 DEF Send, Cancel, ToGateway, Refused, TypeOK
      <3>3. gateway'[Current] = "none" => gateway[Current] = "none"
        BY <2>1, <3>1 DEF Send, Cancel, ToGateway, Refused, TypeOK
      <3>4. Current' = Current /\ got' = got /\ sent' = sent /\ pc' # "send"
        BY <2>1 DEF Send, Cancel, Current
      <3> QED
        BY <1>0, <3>1, <3>2, <3>3, <3>4 DEF Fresh, Requests
    <2>2. CASE Woken \/ TimeOut \/ Collect
      BY <1>2, <2>2 DEF Woken, TimeOut, Leave, Collect
    <2> QED
      BY <1>5, <2>1, <2>2 DEF Answered
  <1>6. CASE Gateway
    <2>1. ASSUME NEW r \in 1..Current, SendItem(r) PROVE Fresh'
      <3>1. r \in Requests /\ gateway[r] # "none"
        BY <1>0, <2>1 DEF SendItem
      <3>2. \A s \in Requests : s # r => sent'[s] = sent[s]
        BY <2>1, <3>1 DEF SendItem, TypeOK
      <3>3. Current' = Current /\ got' = got /\ gateway' = gateway /\ pc' = pc
        BY <2>1 DEF SendItem, Current
      <3> QED
        BY <1>0, <3>1, <3>2, <3>3 DEF Fresh
    <2>2. ASSUME NEW r \in 1..Current, SendEnd(r) PROVE Fresh'
      <3>1. r \in Requests
        BY <1>0
      <3> QED
        BY <1>2, <2>2, <3>1 DEF SendEnd, TypeOK
    <2>3. ASSUME NEW r \in 1..Current, NEW msg \in {"notice", "ending"}, NEW state \in {"open", "over"},
                 SendError(r, msg, state)
          PROVE  Fresh'
      <3>1. r \in Requests
        BY <1>0
      <3> QED
        BY <1>2, <2>3, <3>1 DEF SendError, TypeOK
    <2>4. CASE SendLost
      BY <1>2, <2>4 DEF SendLost
    <2>5. ASSUME NEW kept \in 0..Len(wire), SocketDrops(kept) PROVE Fresh'
      BY <1>2, <2>5 DEF SocketDrops
    <2> QED
      BY <1>6, <2>1, <2>2, <2>3, <2>4, <2>5 DEF Gateway
  <1>7. CASE Reader
    <2>1. CASE TakeItem
      <3>1. First.of \in 1..Current /\ \A i \in Ids : i # First.of => got'[i] = got[i]
        BY <2>1, ItemTaken
      <3>2. \A r \in Requests : r > Current => got'[r] = got[r]
        BY <1>0, <3>1 DEF Requests, Ids
      <3>3. Current' = Current /\ gateway' = gateway /\ sent' = sent /\ pc' = pc
        BY <2>1 DEF TakeItem, Current
      <3> QED
        BY <3>2, <3>3 DEF Fresh
    <2>2. CASE TakeEnd \/ TakeError \/ Wake \/ RecordInSlot \/ WakeStream \/ ConnectionClosed
      BY <1>2, <2>2 DEF TakeEnd, TakeError, Wake, RecordInSlot, WakeStream, ConnectionClosed
    <2> QED
      BY <1>7, <2>1, <2>2 DEF Reader
  <1> QED
    BY <1>1, <1>3, <1>4, <1>5, <1>6, <1>7 DEF Next, Ask
(* Only Register makes a request.                                           *)
LEMMA Others ==
  ASSUME [Next]_vars
  PROVE  \/ \E kind \in Kinds : Register(kind)
         \/ requests' = requests /\ Current' = Current /\ CurrentId' = CurrentId
            /\ \A r : Kind(r)' = Kind(r)
  <1> USE DEF requester, tables, outside
  <1>1. requests' = requests \/ \E kind \in Kinds : Register(kind)
    <2>1. CASE UNCHANGED vars
      BY <2>1 DEF vars
    <2>2. CASE Ask
      BY <2>2 DEF Ask, Replace
    <2>3. CASE Answered
      BY <2>3 DEF Answered, Send, Woken, TimeOut, Leave, Cancel, Collect
    <2>4. CASE Gateway
      BY <2>4 DEF Gateway, SendItem, SendEnd, SendError, SendLost, SocketDrops
    <2>5. CASE Reader
      BY <2>5 DEF Reader, TakeItem, TakeEnd, TakeError, Wake, RecordInSlot, WakeStream,
                  ConnectionClosed
    <2> QED
      BY <2>1, <2>2, <2>3, <2>4, <2>5 DEF Next
  <1>2. requests' = requests => /\ Current' = Current /\ CurrentId' = CurrentId
                                /\ \A r : Kind(r)' = Kind(r)
    BY DEF Current, CurrentId, Kind
  <1> QED
    BY <1>1, <1>2

LEMMA MailStep == TypeOK /\ Numbered /\ Mail /\ [Next]_vars => Mail'
  <1> SUFFICES ASSUME TypeOK, Numbered, Mail, [Next]_vars PROVE Mail'
    OBVIOUS
  <1> USE DEF requester, tables, outside
  <1>0. wire \in Seq(Messages) /\ Len(wire) \in Nat /\ Current \in Nat
    BY CurrentType DEF TypeOK
  <1>1. Current' \in Nat /\ Current' >= Current
    <2>1. ASSUME NEW kind \in Kinds, Register(kind) PROVE Current' = Current + 1
      BY <2>1, Registering
    <2> QED
      BY <1>0, <2>1, Others
  <1>2. \A msg : Addressed(msg, Current) => Addressed(msg, Current')
    BY <1>0, <1>1 DEF Addressed
  <1>3. ASSUME wire' = wire, reader' = reader \/ reader'.at = "take" \/
                             (reader.at # "take" /\ reader'.msg = reader.msg)
        PROVE  Mail'
    BY <1>2, <1>3 DEF Mail
  <1>4. ASSUME NEW msg \in Messages, Addressed(msg, Current), Sends(msg), reader' = reader PROVE Mail'
    <2>1. /\ Len(wire') = Len(wire) + 1
          /\ \A i \in 1..Len(wire) : wire'[i] = wire[i]
          /\ wire'[Len(wire) + 1] = msg
      BY <1>0, <1>4, Sending
    <2>2. \A i \in 1..Len(wire') : Addressed(wire'[i], Current')
      BY <1>0, <1>2, <1>4, <2>1 DEF Mail
    <2> QED
      BY <1>2, <1>4, <2>2 DEF Mail
  <1>5. ASSUME NEW what, Takes(what), reader'.at = "take" \/
               (reader'.msg = First /\ First.what \in Codes)
        PROVE  Mail'
    <2>1. /\ Len(wire) = Len(wire') + 1 /\ Len(wire') \in Nat
          /\ \A i \in 1..Len(wire') : wire'[i] = wire[i + 1]
      BY <1>0, <1>5, Taking
    <2>2. \A i \in 1..Len(wire') : Addressed(wire'[i], Current')
      BY <1>0, <1>2, <2>1 DEF Mail
    <2>3. Addressed(First, Current')
      BY <1>2, <1>5, Reading
    <2> QED
      BY <1>5, <2>2, <2>3 DEF Mail
  <1>6. CASE UNCHANGED vars
    BY <1>3, <1>6 DEF vars
  <1>7. CASE Ask
    <2>1. ASSUME NEW kind \in Kinds, Register(kind) PROVE Mail'
      BY <1>3, <2>1 DEF Register
    <2>2. CASE Replace
      <3>1. Len(wire') = 0 /\ reader'.at = "take"
        BY <2>2 DEF Replace
      <3> QED
        BY <3>1 DEF Mail
    <2> QED
      BY <1>7, <2>1, <2>2 DEF Ask
  <1>8. CASE Answered
    BY <1>3, <1>8 DEF Answered, Send, Woken, TimeOut, Leave, Cancel, Collect
  <1>9. CASE Gateway
    <2>1. ASSUME NEW r \in 1..Current, NEW what \in {"item", "end"} \cup Codes,
                 Sends(Message(r, what)), reader' = reader
          PROVE  Mail'
      <3>1. Message(r, what) \in Messages /\ Addressed(Message(r, what), Current)
        BY MessageType DEF Addressed
      <3> QED
        BY <1>4, <2>1, <3>1
    <2>2. ASSUME NEW r \in 1..Current, SendItem(r) \/ SendEnd(r) PROVE Mail'
      BY <2>1, <2>2 DEF SendItem, SendEnd
    <2>3. ASSUME NEW r \in 1..Current, NEW msg \in {"notice", "ending"}, NEW state \in {"open", "over"},
                 SendError(r, msg, state)
          PROVE  Mail'
      BY <2>1, <2>3 DEF SendError, Codes
    <2>4. CASE SendLost
      <3>1. /\ [id |-> 0, of |-> 0, what |-> "lost"] \in Messages
            /\ Addressed([id |-> 0, of |-> 0, what |-> "lost"], Current)
        BY DEF Messages, Codes, Addressed
      <3> QED
        BY <1>4, <2>4, <3>1 DEF SendLost
    <2>5. ASSUME NEW kept \in 0..Len(wire), SocketDrops(kept) PROVE Mail'
      <3>1. Len(wire') = kept /\ \A i \in 1..kept : wire'[i] = wire[i]
        BY <1>0, <2>5, Dropping DEF SocketDrops
      <3>2. \A i \in 1..Len(wire') : Addressed(wire'[i], Current')
        BY <1>0, <1>2, <3>1 DEF Mail
      <3> QED
        BY <1>2, <2>5, <3>2 DEF Mail, SocketDrops
    <2> QED
      BY <1>9, <2>2, <2>3, <2>4, <2>5 DEF Gateway
  <1>10. CASE Reader
    <2>1. CASE TakeItem \/ TakeEnd
      BY <1>5, <2>1 DEF TakeItem, TakeEnd, Takes
    <2>2. CASE TakeError
      BY <1>5, <2>2 DEF TakeError, Takes
    <2>3. CASE Wake \/ RecordInSlot
      <3>1. reader.at # "take" /\ reader'.msg = reader.msg /\ wire' = wire
        BY <2>3 DEF Wake, RecordInSlot, TypeOK
      <3> QED
        BY <1>3, <3>1
    <2>4. CASE WakeStream \/ ConnectionClosed
      BY <1>3, <2>4 DEF WakeStream, ConnectionClosed
    <2> QED
      BY <1>10, <2>1, <2>2, <2>3, <2>4 DEF Reader
  <1> QED
    BY <1>6, <1>7, <1>8, <1>9, <1>10 DEF Next

LEMMA OfflineStep == TypeOK /\ Numbered /\ Offline /\ [Next]_vars => Offline'
  <1> SUFFICES ASSUME TypeOK, Numbered, Offline, [Next]_vars PROVE Offline'
    OBVIOUS
  <1> USE DEF requester, tables, outside
  <1>1. CASE UNCHANGED vars \/ Ask
    BY <1>1 DEF vars, Ask, Register, Replace, Offline
  <1>2. CASE Answered
    BY <1>2 DEF Answered, Send, Woken, TimeOut, Leave, Cancel, Collect, Refused, ToGateway, Offline
  <1>3. CASE Gateway
    <2>1. ASSUME NEW r \in 1..Current, gateway[r] = "open", up' = up PROVE Offline'
      BY <2>1, CurrentType DEF Offline
    <2> QED
      BY <1>3, <2>1 DEF Gateway, SendItem, SendEnd, SendError, SendLost, SocketDrops, Offline
  <1>4. CASE Reader
    BY <1>4 DEF Reader, TakeItem, TakeEnd, TakeError, Wake, RecordInSlot, WakeStream,
                ConnectionClosed, Offline
  <1> QED
    BY <1>1, <1>2, <1>3, <1>4 DEF Next

LEMMA StreamingStep ==
  TypeOK /\ Numbered /\ Fresh /\ Offline /\ Streaming /\ [Next]_vars => Streaming'
  <1> SUFFICES ASSUME TypeOK, Numbered, Fresh, Offline, Streaming, [Next]_vars PROVE Streaming'
    OBVIOUS
  <1> USE DEF requester, tables, outside
  <1>0. Current \in Nat /\ \A r \in 1..Current : r \in Requests /\ r \in Ids
    BY CurrentType
  <1>1. ASSUME NEW kind \in Kinds, Register(kind) PROVE Streaming'
    <2>1. /\ Current' = Current + 1 /\ Current' \in Ids
          /\ \A r \in 1..Current : requests'[r] = requests[r]
      BY <1>1, Registering
    <2>2. gateway' = gateway /\ gateway[Current'] = "none" /\ pc = "idle"
      BY <1>0, <1>1, <2>1 DEF Register, Fresh, Ids, Requests
    <2>3. \A r \in 1..Current : Kind(r)' = Kind(r)
      BY <2>1 DEF Kind
    <2> QED
      BY <1>0, <2>1, <2>2, <2>3 DEF Streaming
  <1>2. ASSUME requests' = requests,
               \A r \in 1..Current : gateway'[r] \in {"open", "ended"} => gateway[r] \in {"open", "ended"},
               pc' = pc \/ pc \notin {"wait", "cancel"}
        PROVE  Streaming'
    BY <1>2 DEF Streaming, Current, Kind
  <1>3. CASE UNCHANGED vars
    BY <1>2, <1>3 DEF vars
  <1>4. CASE Replace
    BY <1>0, <1>2, <1>4 DEF Replace
  <1>5. CASE Answered
    <2>0. requests' = requests /\ Current' = Current /\ \A r : Kind(r)' = Kind(r)
      BY <1>5, Others DEF Answered, Send, Woken, TimeOut, Leave, Cancel, Collect, Register
    <2>1. CASE Send
      <3>1. Current \in Requests /\ pc = "send" /\ pc' = "wait"
        BY <2>1, CurrentType DEF Send
      <3>2. \A r \in Requests : r # Current => gateway'[r] = gateway[r]
        BY <2>1, <3>1 DEF Send, ToGateway, Refused, TypeOK
      <3> QED
        BY <1>0, <2>0, <3>1, <3>2 DEF Streaming
    <2>2. CASE Woken \/ TimeOut
      BY <2>0, <2>2 DEF Woken, TimeOut, Leave, Streaming
    <2>3. CASE Cancel
      <3>1. Current \in Requests /\ pc = "cancel"
        BY <2>3, CurrentType DEF Cancel
      <3>2. gateway'[Current] \in {"none", "over"}
        BY <2>3, <3>1 DEF Cancel, ToGateway, Refused, TypeOK, Offline
      <3>3. \A r \in Requests : r # Current => gateway'[r] = gateway[r]
        BY <2>3, <3>1 DEF Cancel, ToGateway, Refused, TypeOK
      <3> QED
        BY <1>0, <2>0, <3>1, <3>2, <3>3 DEF Streaming
    <2>4. CASE Collect
      BY <1>2, <2>4 DEF Collect
    <2> QED
      BY <1>5, <2>1, <2>2, <2>3, <2>4 DEF Answered
  <1>6. CASE Gateway
    <2>1. ASSUME NEW r \in 1..Current, SendItem(r) PROVE Streaming'
      BY <1>2, <2>1 DEF SendItem
    <2>2. ASSUME NEW r \in 1..Current, SendEnd(r) PROVE Streaming'
      BY <1>0, <1>2, <2>2 DEF SendEnd, TypeOK
    <2>3. ASSUME NEW r \in 1..Current, NEW msg \in {"notice", "ending"}, NEW state \in {"open", "over"},
                 SendError(r, msg, state)
          PROVE  Streaming'
      BY <1>0, <1>2, <2>3 DEF SendError, TypeOK
    <2>4. CASE SendLost
      BY <1>2, <2>4 DEF SendLost
    <2>5. ASSUME NEW kept \in 0..Len(wire), SocketDrops(kept) PROVE Streaming'
      BY <1>0, <1>2, <2>5 DEF SocketDrops
    <2> QED
      BY <1>6, <2>1, <2>2, <2>3, <2>4, <2>5 DEF Gateway
  <1>7. CASE Reader
    BY <1>2, <1>7 DEF Reader, TakeItem, TakeEnd, TakeError, Wake, RecordInSlot, WakeStream,
                      ConnectionClosed
  <1> QED
    BY <1>1, <1>3, <1>4, <1>5, <1>6, <1>7 DEF Next, Ask
LEMMA OwnStep == TypeOK /\ Numbered /\ Mail /\ Own /\ [Next]_vars => Own'
  <1> SUFFICES ASSUME TypeOK, Numbered, Mail, Own, [Next]_vars PROVE Own'
    OBVIOUS
  <1> USE DEF requester, tables, outside
  <1>1. ASSUME \A i \in Ids : got'[i] = got[i] \/ got'[i] = <<>>,
               result' = result \/ result' = NoResult
        PROVE  Own'
    BY <1>1 DEF Own, OwnItemsOnly, NoResult
  <1>2. CASE UNCHANGED vars
    BY <1>1, <1>2 DEF vars
  <1>3. CASE Ask
    <2>1. ASSUME NEW kind \in Kinds, Register(kind) PROVE Own'
      BY <1>1, <2>1, Registering DEF Register, TypeOK, NextReqId
    <2>2. CASE Replace
      BY <1>1, <2>2 DEF Replace
    <2> QED
      BY <1>3, <2>1, <2>2 DEF Ask
  <1>4. CASE Answered
    <2>1. CASE Collect
      <3>1. CurrentId = Current /\ Current \in Ids
        BY <2>1, CurrentType DEF Collect
      <3>2. got' = got /\ result'.of = Current /\ result'.items = got[Current]
        BY <2>1, <3>1 DEF Collect
      <3> QED
        BY <3>1, <3>2 DEF Own, OwnItemsOnly
    <2>2. CASE Send \/ Woken \/ TimeOut \/ Cancel
      BY <1>1, <2>2 DEF Send, Woken, TimeOut, Leave, Cancel
    <2> QED
      BY <1>4, <2>1, <2>2 DEF Answered
  <1>5. CASE Gateway
    BY <1>1, <1>5 DEF Gateway, SendItem, SendEnd, SendError, SendLost, SocketDrops
  <1>6. CASE Reader
    <2>1. CASE TakeItem
      <3>1. PICK r : r = First.of
        OBVIOUS
      <3>2. /\ r \in Ids /\ \A i \in Ids : i # r => got'[i] = got[i]
            /\ Len(got'[r]) = Len(got[r]) + 1 /\ Len(got[r]) \in Nat
            /\ \A k \in 1..Len(got[r]) : got'[r][k] = got[r][k]
            /\ got'[r][Len(got[r]) + 1] = r
        BY <2>1, <3>1, ItemTaken
      <3>3. \A k \in 1..Len(got'[r]) : got'[r][k] = r
        BY <3>2 DEF Own
      <3>4. result' = result
        BY <2>1 DEF TakeItem
      <3> QED
        BY <3>2, <3>3, <3>4 DEF Own, OwnItemsOnly
    <2>2. CASE TakeEnd \/ TakeError \/ Wake \/ RecordInSlot \/ WakeStream \/ ConnectionClosed
      BY <1>1, <2>2 DEF TakeEnd, TakeError, Wake, RecordInSlot, WakeStream, ConnectionClosed
    <2> QED
      BY <1>6, <2>1, <2>2 DEF Reader
  <1> QED
    BY <1>2, <1>3, <1>4, <1>5, <1>6 DEF Next

LEMMA RecordedStep == TypeOK /\ Numbered /\ Mail /\ Recorded /\ [Next]_vars => Recorded'
  <1> SUFFICES ASSUME TypeOK, Numbered, Mail, Recorded, [Next]_vars PROVE Recorded'
    OBVIOUS
  <1> USE DEF requester, tables, outside
  <1>0. reader.at # "take" /\ reader.msg.id # 0 =>
          reader.msg.id = reader.msg.of /\ reader.msg.of \in 1..Current /\ reader.msg.of \in Ids
    BY CurrentType DEF Mail, Addressed
  <1>1. ASSUME NEW kind \in Kinds, Register(kind) PROVE Recorded'
    <2>1. \A r \in 1..Current : requests'[r] = requests[r]
      BY <1>1, Registering
    <2>2. \A r \in 1..Current : Kind(r)' = Kind(r)
      BY <2>1 DEF Kind
    <2> QED
      BY <1>0, <1>1, <2>2 DEF Register, Recorded
  <1>2. ASSUME requests' = requests, reader' = reader, \A i \in Ids : errs[i] \subseteq errs'[i]
        PROVE  Recorded'
    BY <1>0, <1>2 DEF Recorded, Kind
  <1>3. CASE UNCHANGED vars
    BY <1>2, <1>3 DEF vars
  <1>4. CASE Replace
    BY <1>4 DEF Replace, Recorded
  <1>5. CASE Answered
    <2>1. errs' = errs \/ errs' = [errs EXCEPT ![CurrentId] = @ \cup {"ending"}]
      BY <1>5 DEF Answered, Send, Woken, TimeOut, Leave, Cancel, Collect, Refused, ToGateway
    <2>2. \A i \in Ids : errs[i] \subseteq errs'[i]
      <3>1. errs \in [Ids -> SUBSET Codes]
        BY DEF TypeOK
      <3> QED
        BY <2>1, <3>1
    <2> QED
      BY <1>2, <1>5, <2>2 DEF Answered, Send, Woken, TimeOut, Leave, Cancel, Collect
  <1>6. CASE Gateway
    BY <1>2, <1>6 DEF Gateway, SendItem, SendEnd, SendError, SendLost, SocketDrops
  <1>7. CASE Reader
    <2>1. CASE TakeItem \/ TakeEnd \/ ConnectionClosed
      BY <1>2, <2>1 DEF TakeItem, TakeEnd, ConnectionClosed
    <2>2. CASE TakeError
      <3>1. PICK msg : msg = First
        OBVIOUS
      <3>2. reader' = [at |-> "wake", msg |-> msg] /\ requests' = requests
        BY <2>2, <3>1 DEF TakeError
      <3>3. msg.id # 0 => msg.id \in Ids /\ msg.id = msg.of
        BY <2>2, <3>1, Reading, CurrentType DEF TakeError, Addressed
      <3>4. msg.id # 0 /\ Kind(msg.of) # "quote" => msg.what \in errs'[msg.id]
        BY <2>2, <3>1, <3>3 DEF TakeError, TypeOK
      <3> QED
        BY <3>2, <3>4 DEF Recorded, Kind
    <2>3. CASE Wake
      <3>1. reader' = [reader EXCEPT !.at = "slot"] /\ errs' = errs /\ requests' = requests
        BY <2>3 DEF Wake
      <3>2. reader'.at = "slot" /\ reader'.msg = reader.msg /\ reader.at # "take"
        BY <2>3, <3>1 DEF TypeOK, Wake
      <3> QED
        BY <3>1, <3>2 DEF Recorded, Kind
    <2>4. CASE RecordInSlot
      <3>1. reader'.at = "wakeSlot" /\ reader'.msg = reader.msg /\ reader.at = "slot"
            /\ requests' = requests
        BY <2>4 DEF RecordInSlot, TypeOK
      <3>2. reader.msg.id # 0 /\ reader.msg.what = "ending" => "ending" \in errs'[reader.msg.id]
        <4>1. CASE reader.msg.id # 0 /\ Kind(reader.msg.of) = "quote"
          BY <1>0, <2>4, <3>1, <4>1 DEF RecordInSlot, TypeOK
        <4>2. CASE Kind(reader.msg.of) # "quote"
          BY <2>4, <3>1, <4>2 DEF RecordInSlot, Recorded
        <4> QED
          BY <4>1, <4>2
      <3> QED
        BY <3>1, <3>2 DEF Recorded, Kind
    <2>5. CASE WakeStream
      BY <2>5 DEF WakeStream, Recorded
    <2> QED
      BY <1>7, <2>1, <2>2, <2>3, <2>4, <2>5 DEF Reader
  <1> QED
    BY <1>1, <1>3, <1>4, <1>5, <1>6, <1>7 DEF Next, Ask

LEMMA EndSentStep == TypeOK /\ Numbered /\ Fresh /\ EndSent /\ [Next]_vars => EndSent'
  <1> SUFFICES ASSUME TypeOK, Numbered, Fresh, EndSent, [Next]_vars PROVE EndSent'
    OBVIOUS
  <1> USE DEF requester, tables, outside
  <1>1. ASSUME requests' = requests, whole' = whole, whole # NoEnd,
               gateway'[Current] = gateway[Current] \/ gateway'[Current] \in {"ended", "over"}
        PROVE  EndSent'
    BY <1>1 DEF EndSent, Current
  <1>2. whole' = NoEnd => EndSent'
    BY DEF EndSent
  <1>3. Current # 0 => Current \in Requests
    BY CurrentType DEF Requests
  <1>4. CASE UNCHANGED vars
    BY <1>1, <1>2, <1>4 DEF vars
  <1>5. CASE Ask
    <2>1. ASSUME NEW kind \in Kinds, Register(kind) PROVE EndSent'
      BY <1>2, <2>1 DEF Register
    <2>2. CASE Replace
      BY <1>1, <1>2, <1>3, <2>2 DEF Replace, EndSent
    <2> QED
      BY <1>5, <2>1, <2>2 DEF Ask
  <1>6. CASE Answered
    <2>1. CASE Send
      <3>1. whole' = NoEnd
        BY <2>1 DEF Send, EndSent, Fresh
      <3> QED
        BY <1>2, <3>1
    <2>2. CASE Cancel
      <3>1. gateway'[Current] = gateway[Current] \/ gateway'[Current] = "over"
        BY <2>2, CurrentType DEF Cancel, ToGateway, Refused, TypeOK
      <3> QED
        BY <1>1, <1>2, <2>2, <3>1 DEF Cancel
    <2>3. CASE Woken \/ TimeOut \/ Collect
      BY <1>1, <1>2, <2>3 DEF Woken, TimeOut, Leave, Collect
    <2> QED
      BY <1>6, <2>1, <2>2, <2>3 DEF Answered
  <1>7. CASE Gateway
    <2>1. ASSUME NEW r \in 1..Current, SendItem(r) PROVE EndSent'
      BY <1>1, <1>2, <2>1 DEF SendItem
    <2>2. ASSUME NEW r \in 1..Current, SendEnd(r) PROVE EndSent'
      <3>1. r \in Requests /\ Current > 0 /\ Current' = Current
        BY <2>2, CurrentType DEF SendEnd, Current
      <3>2. gateway'[r] = "ended" /\ (r # Current => gateway'[Current] = gateway[Current])
        BY <1>3, <2>2, <3>1 DEF SendEnd, TypeOK
      <3>3. r # Current => whole' = whole
        BY <2>2 DEF SendEnd
      <3> QED
        BY <3>1, <3>2, <3>3 DEF EndSent
    <2>3. ASSUME NEW r \in 1..Current, NEW msg \in {"notice", "ending"}, NEW state \in {"open", "over"},
                 SendError(r, msg, state)
          PROVE  EndSent'
      <3>1. Current \in Requests /\ gateway[r] = "open"
        BY <1>3, <2>3, CurrentType DEF SendError
      <3>2. r # Current => gateway'[Current] = gateway[Current]
        BY <2>3, <3>1 DEF SendError, TypeOK
      <3> QED
        BY <1>1, <1>2, <2>3, <3>1, <3>2 DEF SendError, EndSent
    <2>4. CASE SendLost
      BY <1>1, <1>2, <2>4 DEF SendLost
    <2>5. ASSUME NEW kept \in 0..Len(wire), SocketDrops(kept) PROVE EndSent'
      BY <1>1, <1>2, <1>3, <2>5 DEF SocketDrops, EndSent
    <2> QED
      BY <1>7, <2>1, <2>2, <2>3, <2>4, <2>5 DEF Gateway
  <1>8. CASE Reader
    BY <1>1, <1>2, <1>8 DEF Reader, TakeItem, TakeEnd, TakeError, Wake, RecordInSlot, WakeStream,
                            ConnectionClosed
  <1> QED
    BY <1>4, <1>5, <1>6, <1>7, <1>8 DEF Next
(* Waking sets the event of a request of those kinds, and no other event.   *)
LEMMA Awakening ==
  ASSUME TypeOK, Numbered, NEW id, NEW kinds, NEW woken, woken = Awaken(id, kinds)
  PROVE  /\ \A i \in Ids : woken[i] # done[i] =>
              /\ i = id /\ i \in 1..Current /\ Kind(i) \in kinds
              /\ done[i] = "clear" /\ woken[i] = "set"
         /\ id \in 1..Current /\ Kind(id) \in kinds /\ done[id] \in {"clear", "set"} =>
              woken[id] = "set"
  <1> DEFINE awaits == id # 0 /\ done[id] = "clear" /\ \E r \in 1..Current : requests[r].id = id /\ Kind(r) \in kinds
  <1>1. done \in [Ids -> {"none", "clear", "set"}] /\ \A r \in 1..Current : r \in Ids
    BY CurrentType DEF TypeOK
  <1>2. /\ awaits => woken = [done EXCEPT ![id] = "set"]
        /\ ~awaits => woken = done
    BY DEF Awaken
  <1>3. awaits => id \in 1..Current /\ Kind(id) \in kinds /\ done[id] = "clear"
    BY DEF Numbered
  <1>4. id \in 1..Current /\ Kind(id) \in kinds /\ done[id] = "clear" => awaits
    BY CurrentType DEF Numbered
  <1> HIDE DEF awaits
  <1> QED
    BY <1>1, <1>2, <1>3, <1>4

(* What is left of the wire when the reader has taken the first message.    *)
LEMMA WireLeft ==
  ASSUME TypeOK, Numbered, Mail, NEW what, Takes(what), Current' = Current, OnWire
  PROVE  OnWire' \/ (First.of = Current /\ First.what \in {"end", "ending"} \cap what)
  <1>1. /\ Len(wire) = Len(wire') + 1 /\ Len(wire') \in Nat
        /\ \A i \in 1..Len(wire') : wire'[i] = wire[i + 1]
    BY Taking DEF TypeOK
  <1>2. PICK i \in 1..Len(wire) : wire[i].of = Current /\ wire[i].what \in {"end", "ending"}
    BY DEF OnWire
  <1>3. CASE i = 1
    BY <1>2, <1>3, Reading
  <1>4. CASE i # 1
    <2>1. i - 1 \in 1..Len(wire') /\ wire'[i - 1] = wire[i]
      BY <1>1, <1>4
    <2> QED
      BY <1>2, <2>1 DEF OnWire
  <1> QED
    BY <1>3, <1>4

LEMMA WakingStep ==
  TypeOK /\ Numbered /\ Fresh /\ Mail /\ Waking /\ [Next]_vars => Waking'
  <1> SUFFICES ASSUME TypeOK, Numbered, Fresh, Mail, Waking, [Next]_vars PROVE Waking'
    OBVIOUS
  <1> USE DEF requester, tables, outside
  <1>0. wire \in Seq(Messages) /\ Len(wire) \in Nat /\ (pc # "idle" => Current \in Ids /\ Current \in Requests)
    BY CurrentType DEF TypeOK
  <1>1. ASSUME NEW kind \in Kinds, Register(kind) PROVE Waking'
    <2>1. Current' \in Ids /\ Current' = NextReqId
      BY <1>1, Registering DEF NextReqId
    <2> QED
      BY <1>1, <2>1 DEF Register, Waking, TypeOK
  <1>2. ASSUME pc' \notin {"send", "wait"} PROVE Waking'
    BY <1>2 DEF Waking
  <1>3. ASSUME requests' = requests, pc' = pc, done' = done, ~up' PROVE Waking'
    BY <1>3 DEF Waking, Current
  <1>4. CASE UNCHANGED vars
    <2>1. Current' = Current /\ \A r : Kind(r)' = Kind(r)
      BY <1>4 DEF vars, Current, Kind
    <2> QED
      BY <1>4, <2>1 DEF vars, Waking, OnWire, Handling
  <1>5. CASE Replace
    BY <1>2, <1>5 DEF Replace
  <1>6. CASE Answered
    <2>1. CASE Send
      <3>1. Current' = Current /\ done[Current] \in {"clear", "set"} /\ CurrentId = Current
        BY <2>1, CurrentType DEF Send, Waking, Current
      <3>2. done'[Current] \in {"clear", "set"}
        BY <1>0, <2>1, <3>1 DEF Send, Refused, ToGateway, TypeOK
      <3>3. up' => gateway'[Current] = "open"
        BY <1>0, <2>1 DEF Send, Refused, ToGateway, TypeOK
      <3> QED
        BY <3>1, <3>2, <3>3 DEF Waking
    <2>2. CASE Woken \/ TimeOut \/ Cancel \/ Collect
      BY <1>2, <2>2 DEF Woken, TimeOut, Leave, Cancel, Collect
    <2> QED
      BY <1>6, <2>1, <2>2 DEF Answered
  <1>7. CASE Gateway
    <2>1. ASSUME NEW msg \in Messages, Sends(msg), UNCHANGED <<requester, tables, reader, up>>,
                 pc = "wait" => \/ gateway'[Current] = gateway[Current]
                                \/ gateway'[Current] = "open"
                                \/ msg.of = Current /\ msg.what \in {"end", "ending"}
          PROVE  Waking'
      <3>1. Current' = Current /\ (Handling => Handling')
        BY <2>1 DEF Current, Handling, Kind
      <3>2. /\ Len(wire') = Len(wire) + 1
            /\ \A i \in 1..Len(wire) : wire'[i] = wire[i]
            /\ wire'[Len(wire) + 1] = msg
        BY <1>0, <2>1, Sending
      <3>3. OnWire => OnWire'
        BY <1>0, <3>1, <3>2 DEF OnWire
      <3>4. msg.of = Current /\ msg.what \in {"end", "ending"} => OnWire'
        BY <1>0, <3>1, <3>2 DEF OnWire
      <3> QED
        BY <2>1, <3>1, <3>3, <3>4 DEF Waking
    <2>2. ASSUME NEW r \in 1..Current, SendItem(r) PROVE Waking'
      BY <2>1, <2>2, MessageType DEF SendItem
    <2>3. ASSUME NEW r \in 1..Current, SendEnd(r) PROVE Waking'
      <3>1. Message(r, "end") \in Messages /\ Message(r, "end").of = r /\ Message(r, "end").what = "end"
        BY MessageType
      <3>2. pc = "wait" => gateway'[Current] = gateway[Current] \/ r = Current
        BY <1>0, <2>3 DEF SendEnd, TypeOK
      <3> QED
        BY <2>1, <2>3, <3>1, <3>2 DEF SendEnd
    <2>4. ASSUME NEW r \in 1..Current, NEW msg \in {"notice", "ending"}, NEW state \in {"open", "over"},
                 SendError(r, msg, state)
          PROVE  Waking'
      <3>1. Message(r, msg) \in Messages /\ Message(r, msg).of = r /\ Message(r, msg).what = msg
        BY MessageType DEF Codes
      <3>2. pc = "wait" => \/ gateway'[Current] = gateway[Current]
                           \/ r = Current /\ gateway'[Current] = state
        BY <1>0, <2>4 DEF SendError, TypeOK
      <3>3. state = "over" => msg = "ending"
        BY <2>4 DEF SendError
      <3> QED
        BY <2>1, <2>4, <3>1, <3>2, <3>3 DEF SendError
    <2>5. CASE SendLost
      <3>1. [id |-> 0, of |-> 0, what |-> "lost"] \in Messages
        BY DEF Messages, Codes
      <3> QED
        BY <2>1, <2>5, <3>1 DEF SendLost
    <2>6. ASSUME NEW kept \in 0..Len(wire), SocketDrops(kept) PROVE Waking'
      BY <1>3, <2>6 DEF SocketDrops
    <2> QED
      BY <1>7, <2>2, <2>3, <2>4, <2>5, <2>6 DEF Gateway
  <1>8. CASE Reader
    <2>0. Current' = Current /\ (\A r : Kind(r)' = Kind(r)) /\ UNCHANGED <<pc, up, gateway>>
      BY <1>8 DEF Reader, TakeItem, TakeEnd, TakeError, Wake, RecordInSlot, WakeStream,
                  ConnectionClosed, Current, Kind
    <2>1. CASE TakeItem
      <3>1. OnWire => OnWire'
        BY <2>0, <2>1, WireLeft DEF TakeItem
      <3>2. done' = done /\ reader' = reader
        BY <2>1 DEF TakeItem
      <3> QED
        BY <2>0, <3>1, <3>2 DEF Waking, Handling
    <2>2. CASE TakeEnd
      <3>1. PICK id, woken : id = First.id /\ woken = Awaken(id, Kinds)
        OBVIOUS
      <3>2. /\ woken = done' /\ reader' = reader
            /\ \A i \in Ids : woken[i] # done[i] => done[i] = "clear" /\ woken[i] = "set"
            /\ id \in 1..Current /\ Kind(id) \in Kinds /\ done[id] \in {"clear", "set"} =>
                 woken[id] = "set"
        BY <2>2, <3>1, Awakening DEF TakeEnd
      <3>3. OnWire /\ pc = "wait" => OnWire' \/ woken[Current] = "set"
        <4>1. ASSUME pc = "wait", First.of = Current PROVE woken[Current] = "set"
          <5>1. id = Current /\ Current \in 1..Current
            BY <2>2, <3>1, <4>1, Reading DEF TakeEnd, Codes
          <5>2. Kind(Current) \in Kinds /\ done[Current] \in {"clear", "set"}
            BY <4>1, CurrentType DEF Waking
          <5> QED
            BY <3>2, <5>1, <5>2
        <4> QED
          BY <2>0, <2>2, <4>1, WireLeft DEF TakeEnd
      <3> QED
        BY <1>0, <2>0, <3>2, <3>3 DEF Waking, Handling
    <2>3. CASE TakeError
      <3>1. PICK msg : msg = First
        OBVIOUS
      <3>2. done' = done /\ reader.at = "take" /\ reader' = [at |-> "wake", msg |-> msg]
        BY <2>3, <3>1 DEF TakeError, Takes
      <3>3. reader'.at = "wake" /\ reader'.msg = msg
        BY <3>2
      <3>4. OnWire => OnWire' \/ Handling'
        <4>1. OnWire => OnWire' \/ (First.of = Current /\ First.what = "ending")
          BY <2>0, <2>3, WireLeft DEF TakeError, Codes
        <4> QED
          BY <2>0, <3>1, <3>3, <4>1 DEF Handling
      <3> QED
        BY <2>0, <3>2, <3>4 DEF Waking, Handling
    <2>4. ASSUME NEW kinds, NEW id, NEW woken, woken = Awaken(id, kinds), id = reader.msg.id,
                 done' = IF reader.msg.what = "ending" THEN woken ELSE done,
                 wire' = wire, reader.at # "take",
                 pc = "wait" /\ Handling /\ Kind(Current) \notin kinds => Handling'
          PROVE  Waking'
      <3>2. /\ \A i \in Ids : woken[i] # done[i] => done[i] = "clear" /\ woken[i] = "set"
            /\ id \in 1..Current /\ Kind(id) \in kinds /\ done[id] \in {"clear", "set"} =>
                 woken[id] = "set"
        BY <2>4, Awakening
      <3>3. \A i \in Ids : done'[i] # done[i] => done[i] = "clear" /\ done'[i] = "set"
        <4>1. done' = woken \/ done' = done
          BY <2>4
        <4> QED
          BY <3>2, <4>1
      <3>4. ASSUME pc = "wait", Handling, Kind(Current) \in kinds PROVE done'[Current] = "set"
        <4>1. reader.msg.of = Current /\ reader.msg.what = "ending" /\ Current \in 1..Current
          BY <1>0, <3>4, CurrentType DEF Handling, Ids
        <4>2. id = Current /\ done' = woken
          BY <2>4, <4>1 DEF Mail, Addressed
        <4> QED
          BY <3>2, <3>4, <4>1, <4>2 DEF Waking
      <3>5. OnWire => OnWire'
        BY <2>0, <2>4 DEF OnWire
      <3> QED
        BY <1>0, <2>0, <3>3, <3>4, <2>4, <3>5 DEF Waking
    <2>5. CASE Wake
      <3>1. reader.at = "wake" /\ reader'.at = "slot" /\ reader'.msg = reader.msg
        BY <2>5 DEF Wake, TypeOK
      <3>2. pc = "wait" /\ Handling /\ Kind(Current) \notin Kinds \ Streams => Handling'
        BY <2>0, <3>1, CurrentType DEF Handling
      <3> QED
        <4>1. PICK id, woken : id = reader.msg.id /\ woken = Awaken(id, Kinds \ Streams)
          OBVIOUS
        <4> QED
          BY <2>4, <2>5, <3>1, <3>2, <4>1 DEF Wake, IsRequestEnding
    <2>6. CASE RecordInSlot
      <3>1. reader.at = "slot" /\ reader'.at = "wakeSlot" /\ reader'.msg = reader.msg
        BY <2>6 DEF RecordInSlot, TypeOK
      <3>2. Handling => Handling'
        BY <2>0, <3>1 DEF Handling
      <3> QED
        BY <2>0, <2>6, <3>2 DEF RecordInSlot, Waking, OnWire
    <2>7. CASE WakeStream
      <3>1. reader.at = "wakeSlot"
        BY <2>7 DEF WakeStream
      <3>2. Handling => Kind(Current) \in Streams
        BY <3>1 DEF Handling
      <3> QED
        <4>1. PICK id, woken : id = reader.msg.id /\ woken = Awaken(id, Streams)
          OBVIOUS
        <4> QED
          BY <2>4, <2>7, <3>1, <3>2, <4>1 DEF WakeStream, IsRequestEnding
    <2>8. CASE ConnectionClosed
      BY <1>3, <2>8 DEF ConnectionClosed
    <2> QED
      BY <1>8, <2>1, <2>2, <2>3, <2>5, <2>6, <2>7, <2>8 DEF Reader
  <1> QED
    BY <1>1, <1>4, <1>5, <1>6, <1>7, <1>8 DEF Next, Ask
(* One more message: the last count goes on by one if it is an item of the  *)
(* request under way.                                                       *)
LEMMA OneMore ==
  ASSUME TypeOK, NEW n, Counts(n), NEW msg \in Messages, Sends(msg),
         Current' = Current, got' = got,
         whole' = whole \/ whole = NoEnd,
         msg.of = Current /\ msg.what = "end" => whole' # NoEnd /\ n[Len(wire)] >= whole',
         gateway'[Current] = "none" => gateway[Current] = "none" /\ ~IsItem(msg, Current),
         gateway'[Current] = "open" => /\ gateway[Current] = "open"
                                       /\ sent'[Current] = IF IsItem(msg, Current) THEN sent[Current] + 1
                                                                               ELSE sent[Current]
  PROVE  \E m \in [0..Len(wire') -> Nat] : Counts(m)'
  <1> DEFINE last == IF IsItem(msg, Current) THEN n[Len(wire)] + 1 ELSE n[Len(wire)]
             longer == [k \in 0..Len(wire) + 1 |-> IF k =< Len(wire) THEN n[k] ELSE last]
  <1>1. /\ wire \in Seq(Messages) /\ Len(wire) \in Nat /\ Len(wire') = Len(wire) + 1
        /\ \A i \in 1..Len(wire) : wire'[i] = wire[i]
        /\ wire'[Len(wire) + 1] = msg
    BY Sending DEF TypeOK
  <1>2. n \in [0..Len(wire) -> Nat] /\ last \in Nat
    BY <1>1 DEF Counts
  <1>3. PICK m : m = longer
    OBVIOUS
  <1>4. /\ m \in [0..Len(wire') -> Nat] /\ \A k \in 0..Len(wire) : m[k] = n[k]
        /\ m[Len(wire) + 1] = last
    BY <1>1, <1>2, <1>3
  <1> HIDE DEF longer
  <1>5. m[0] = Len(got'[Current'])
    BY <1>1, <1>4 DEF Counts
  <1>6. \A k \in 1..Len(wire') : m[k] = IF IsItem(wire'[k], Current') THEN m[k - 1] + 1 ELSE m[k - 1]
    <2>1. \A k \in 1..Len(wire) : m[k] = IF IsItem(wire'[k], Current') THEN m[k - 1] + 1 ELSE m[k - 1]
      <3> SUFFICES ASSUME NEW k \in 1..Len(wire)
                   PROVE  m[k] = IF IsItem(wire'[k], Current') THEN m[k - 1] + 1 ELSE m[k - 1]
        OBVIOUS
      <3>1. k \in 0..Len(wire) /\ k - 1 \in 0..Len(wire)
        BY <1>1
      <3>2. m[k] = n[k] /\ m[k - 1] = n[k - 1] /\ wire'[k] = wire[k]
        BY <1>1, <1>4, <3>1
      <3>3. n[k] = IF IsItem(wire[k], Current) THEN n[k - 1] + 1 ELSE n[k - 1]
        BY DEF Counts
      <3> QED
        BY <3>2, <3>3
    <2>2. m[Len(wire) + 1] = IF IsItem(msg, Current) THEN m[Len(wire)] + 1 ELSE m[Len(wire)]
      BY <1>1, <1>4
    <2> QED
      BY <1>1, <2>1, <2>2
  <1>7. \A k \in 1..Len(wire') : wire'[k].of = Current' /\ wire'[k].what = "end" =>
                                   whole' # NoEnd /\ m[k] >= whole'
    <2>1. \A k \in 1..Len(wire) : wire[k].of = Current /\ wire[k].what = "end" =>
                                    whole' # NoEnd /\ n[k] >= whole'
      BY DEF Counts
    <2>2. last >= n[Len(wire)]
      BY <1>1, <1>2
    <2>3. \A k \in 1..Len(wire) : wire'[k].of = Current' /\ wire'[k].what = "end" =>
                                   whole' # NoEnd /\ m[k] >= whole'
      BY <1>1, <1>4, <2>1
    <2>4. msg.of = Current /\ msg.what = "end" => whole' # NoEnd /\ m[Len(wire) + 1] >= whole'
      BY <1>4 DEF IsItem
    <2> QED
      BY <1>1, <2>3, <2>4
  <1>8. gateway'[Current'] = "none" => \A k \in 0..Len(wire') : m[k] = 0
    BY <1>1, <1>4 DEF Counts
  <1>9. gateway'[Current'] = "open" => m[Len(wire')] = sent'[Current']
    BY <1>1, <1>4 DEF Counts
  <1> QED
    BY <1>4, <1>5, <1>6, <1>7, <1>8, <1>9 DEF Counts

(* One message taken: every count moves one place forward.                  *)
LEMMA OneLess ==
  ASSUME TypeOK, NEW n, Counts(n), NEW what, Takes(what),
         Current' = Current, whole' = whole, gateway' = gateway, sent' = sent,
         Len(got'[Current]) = IF IsItem(First, Current) THEN Len(got[Current]) + 1 ELSE Len(got[Current])
  PROVE  \E m \in [0..Len(wire') -> Nat] : Counts(m)'
  <1>1. /\ Len(wire) = Len(wire') + 1 /\ Len(wire') \in Nat /\ First = wire[1]
        /\ \A i \in 1..Len(wire') : wire'[i] = wire[i + 1]
    BY Taking DEF TypeOK
  <1>2. n \in [0..Len(wire) -> Nat]
    BY DEF Counts
  <1>3. PICK m : m = [k \in 0..Len(wire') |-> n[k + 1]]
    OBVIOUS
  <1>4. m \in [0..Len(wire') -> Nat] /\ \A k \in 0..Len(wire') : m[k] = n[k + 1]
    BY <1>1, <1>2, <1>3
  <1>5. m[0] = Len(got'[Current'])
    <2>1. n[1] = IF IsItem(wire[1], Current) THEN n[0] + 1 ELSE n[0]
      BY <1>1 DEF Counts
    <2>2. m[0] = n[1] /\ n[0] = Len(got[Current])
      BY <1>1, <1>4 DEF Counts
    <2> QED
      BY <1>1, <2>1, <2>2
  <1>6. \A k \in 1..Len(wire') : m[k] = IF IsItem(wire'[k], Current') THEN m[k - 1] + 1 ELSE m[k - 1]
    <2> SUFFICES ASSUME NEW k \in 1..Len(wire')
                 PROVE  m[k] = IF IsItem(wire'[k], Current') THEN m[k - 1] + 1 ELSE m[k - 1]
      OBVIOUS
    <2>1. m[k] = n[k + 1] /\ m[k - 1] = n[k] /\ wire'[k] = wire[k + 1] /\ k + 1 \in 1..Len(wire)
      <3>1. k \in 0..Len(wire') /\ k - 1 \in 0..Len(wire') /\ k + 1 \in 1..Len(wire) /\ (k - 1) + 1 = k
        BY <1>1
      <3> QED
        BY <1>1, <1>4, <3>1
    <2>2. n[k + 1] = IF IsItem(wire[k + 1], Current) THEN n[(k + 1) - 1] + 1 ELSE n[(k + 1) - 1]
      BY <2>1 DEF Counts
    <2>3. (k + 1) - 1 = k
      BY <1>1
    <2> QED
      BY <2>1, <2>2, <2>3
  <1>7. \A k \in 1..Len(wire') : wire'[k].of = Current' /\ wire'[k].what = "end" =>
                                   whole' # NoEnd /\ m[k] >= whole'
    BY <1>1, <1>4 DEF Counts
  <1>8. gateway'[Current'] = "none" => \A k \in 0..Len(wire') : m[k] = 0
    BY <1>1, <1>4 DEF Counts
  <1>9. gateway'[Current'] = "open" => m[Len(wire')] = sent'[Current']
    BY <1>1, <1>4 DEF Counts
  <1> QED
    BY <1>4, <1>5, <1>6, <1>7, <1>8, <1>9 DEF Counts

(* The messages after the first few are lost, and with them their counts.   *)
LEMMA FirstFew ==
  ASSUME TypeOK, NEW n, Counts(n), NEW kept \in 0..Len(wire), wire' = SubSeq(wire, 1, kept),
         Current' = Current, whole' = whole, got' = got,
         gateway'[Current] # "open", gateway'[Current] = "none" => gateway[Current] = "none"
  PROVE  \E m \in [0..Len(wire') -> Nat] : Counts(m)'
  <1>1. Len(wire') = kept /\ Len(wire) \in Nat /\ \A i \in 1..kept : wire'[i] = wire[i]
    BY Dropping DEF TypeOK
  <1>2. n \in [0..Len(wire) -> Nat]
    BY DEF Counts
  <1>3. PICK m : m = [k \in 0..kept |-> n[k]]
    OBVIOUS
  <1>4. m \in [0..Len(wire') -> Nat] /\ \A k \in 0..kept : m[k] = n[k]
    BY <1>1, <1>2, <1>3
  <1>5. m[0] = Len(got'[Current'])
    BY <1>1, <1>4 DEF Counts
  <1>6. \A k \in 1..Len(wire') : m[k] = IF IsItem(wire'[k], Current') THEN m[k - 1] + 1 ELSE m[k - 1]
    <2> SUFFICES ASSUME NEW k \in 1..Len(wire')
                 PROVE  m[k] = IF IsItem(wire'[k], Current') THEN m[k - 1] + 1 ELSE m[k - 1]
      OBVIOUS
    <2>1. k \in 0..kept /\ k - 1 \in 0..kept /\ k \in 1..Len(wire)
      BY <1>1
    <2>2. m[k] = n[k] /\ m[k - 1] = n[k - 1] /\ wire'[k] = wire[k]
      BY <1>1, <1>4, <2>1
    <2>3. n[k] = IF IsItem(wire[k], Current) THEN n[k - 1] + 1 ELSE n[k - 1]
      BY <2>1 DEF Counts
    <2> QED
      BY <2>2, <2>3
  <1>7. \A k \in 1..Len(wire') : wire'[k].of = Current' /\ wire'[k].what = "end" =>
                                   whole' # NoEnd /\ m[k] >= whole'
    BY <1>1, <1>4 DEF Counts
  <1>8. gateway'[Current'] = "none" => \A k \in 0..Len(wire') : m[k] = 0
    BY <1>1, <1>4 DEF Counts
  <1> QED
    BY <1>4, <1>5, <1>6, <1>7, <1>8 DEF Counts

LEMMA ArrivalsStep ==
  TypeOK /\ Numbered /\ Fresh /\ Mail /\ EndSent /\ Arrivals /\ [Next]_vars => Arrivals'
  <1> SUFFICES ASSUME TypeOK, Numbered, Fresh, Mail, EndSent, Arrivals, [Next]_vars, pc' # "idle"
               PROVE  \E m \in [0..Len(wire') -> Nat] : Counts(m)'
    BY DEF Arrivals
  <1> USE DEF requester, tables, outside
  <1>1. ASSUME NEW kind \in Kinds, Register(kind) PROVE \E m \in [0..Len(wire') -> Nat] : Counts(m)'
    <2>1. Current' = Current + 1 /\ Current' \in Ids /\ Current' = NextReqId /\ Current \in Nat
      BY <1>1, Registering DEF NextReqId
    <2>2. got'[Current'] = <<>> /\ gateway'[Current'] = "none" /\ wire' = wire
      BY <1>1, <2>1 DEF Register, Fresh, Ids, Requests, TypeOK
    <2>3. \A k \in 1..Len(wire) : wire[k].of # Current'
      BY <2>1 DEF Mail, Addressed
    <2>4. PICK m : m = [k \in 0..Len(wire) |-> 0]
      OBVIOUS
    <2>5. m \in [0..Len(wire) -> Nat] /\ Len(wire) \in Nat /\ \A k \in 0..Len(wire) : m[k] = 0
      BY <2>4 DEF TypeOK
    <2>6. \A k \in 1..Len(wire) : k - 1 \in 0..Len(wire) /\ k \in 0..Len(wire)
      BY <2>5
    <2>7. Len(got'[Current']) = 0
      BY <2>2
    <2> QED
      BY <2>2, <2>3, <2>5, <2>6, <2>7 DEF Counts, IsItem
  <1>2. ASSUME pc # "idle", requests' = requests, wire' = wire, got' = got, whole' = whole, sent' = sent,
               \/ gateway'[Current] = gateway[Current]
               \/ gateway'[Current] = "open" /\ gateway[Current] = "none"
               \/ gateway'[Current] = "over"
        PROVE  \E m \in [0..Len(wire') -> Nat] : Counts(m)'
    <2>1. PICK n \in [0..Len(wire) -> Nat] : Counts(n)
      BY <1>2 DEF Arrivals
    <2>2. Current' = Current /\ Current \in Requests /\ Len(wire) \in Nat
      BY <1>2, CurrentType DEF Current, TypeOK
    <2>3. gateway[Current] = "none" => n[Len(wire)] = sent[Current]
      BY <2>1, <2>2 DEF Counts, Fresh
    <2> QED
      BY <1>2, <2>1, <2>2, <2>3 DEF Counts
  <1>3. CASE UNCHANGED vars
    BY <1>2, <1>3 DEF vars
  <1>4. CASE Replace
    BY <1>4 DEF Replace
  <1>5. CASE Answered
    <2>1. CASE Send
      <3>1. Current \in Requests /\ gateway[Current] = "none"
        BY <2>1, CurrentType DEF Send, Fresh
      <3>2. gateway'[Current] \in {"open", "none"}
        BY <2>1, <3>1 DEF Send, ToGateway, Refused, TypeOK
      <3> QED
        BY <1>2, <2>1, <3>1, <3>2 DEF Send
    <2>2. CASE Cancel
      <3>1. gateway'[Current] = gateway[Current] \/ gateway'[Current] = "over"
        BY <2>2, CurrentType DEF Cancel, ToGateway, Refused, TypeOK
      <3> QED
        BY <1>2, <2>2, <3>1 DEF Cancel
    <2>3. CASE Woken \/ TimeOut \/ Collect
      BY <1>2, <2>3 DEF Woken, TimeOut, Leave, Collect
    <2> QED
      BY <1>5, <2>1, <2>2, <2>3 DEF Answered
  <1>6. CASE Gateway
    <2>0. pc' = pc /\ Current' = Current /\ got' = got
      BY <1>6 DEF Gateway, SendItem, SendEnd, SendError, SendLost, SocketDrops, Current
    <2>1. PICK n \in [0..Len(wire) -> Nat] : Counts(n)
      BY <2>0 DEF Arrivals
    <2>2. Current \in Requests /\ Len(wire) \in Nat
      BY <2>0, CurrentType DEF TypeOK
    <2>3. ASSUME NEW r \in 1..Current, SendItem(r) PROVE \E m \in [0..Len(wire') -> Nat] : Counts(m)'
      <3>1. /\ Message(r, "item") \in Messages
            /\ Message(r, "item").of = r /\ Message(r, "item").what = "item"
        BY MessageType
      <3>2. IsItem(Message(r, "item"), Current) <=> r = Current
        BY <3>1 DEF IsItem
      <3>3. /\ gateway' = gateway /\ gateway[r] # "none" /\ whole' = whole /\ r \in Requests
            /\ Sends(Message(r, "item"))
        BY <2>3, CurrentType DEF SendItem
      <3>4. sent'[Current] = IF r = Current THEN sent[Current] + 1 ELSE sent[Current]
        BY <2>2, <2>3, <3>3 DEF SendItem, TypeOK
      <3> QED
        BY <2>0, <2>1, <3>1, <3>2, <3>3, <3>4, OneMore
    <2>4. ASSUME NEW r \in 1..Current, SendEnd(r) PROVE \E m \in [0..Len(wire') -> Nat] : Counts(m)'
      <3>1. /\ Message(r, "end") \in Messages
            /\ Message(r, "end").of = r /\ Message(r, "end").what = "end"
        BY MessageType
      <3>2. ~IsItem(Message(r, "end"), Current)
        BY <3>1 DEF IsItem
      <3>3. gateway[r] = "open" /\ sent' = sent /\ Sends(Message(r, "end")) /\ r \in Requests
        BY <2>4, CurrentType DEF SendEnd
      <3>4. gateway'[Current] = IF r = Current THEN "ended" ELSE gateway[Current]
        BY <2>2, <2>4, <3>3 DEF SendEnd, TypeOK
      <3>5. /\ r = Current => whole = NoEnd /\ whole' = sent[Current] /\ n[Len(wire)] = sent[Current]
            /\ r # Current => whole' = whole
        BY <2>1, <2>4, <3>3 DEF SendEnd, EndSent, Counts
      <3>6. sent[Current] # NoEnd /\ sent[Current] \in Nat
        BY <2>2 DEF TypeOK, NoEnd
      <3> QED
        BY <2>0, <2>1, <3>1, <3>2, <3>3, <3>4, <3>5, <3>6, OneMore
    <2>5. ASSUME NEW r \in 1..Current, NEW msg \in {"notice", "ending"}, NEW state \in {"open", "over"},
                 SendError(r, msg, state)
          PROVE  \E m \in [0..Len(wire') -> Nat] : Counts(m)'
      <3>1. /\ Message(r, msg) \in Messages
            /\ Message(r, msg).of = r /\ Message(r, msg).what = msg
        BY MessageType DEF Codes
      <3>2. ~IsItem(Message(r, msg), Current)
        BY <3>1 DEF IsItem
      <3>3. /\ gateway[r] = "open" /\ sent' = sent /\ Sends(Message(r, msg)) /\ r \in Requests
            /\ whole' = whole
        BY <2>5, CurrentType DEF SendError
      <3>4. gateway'[Current] = IF r = Current THEN state ELSE gateway[Current]
        BY <2>2, <2>5, <3>3 DEF SendError, TypeOK
      <3> QED
        BY <2>0, <2>1, <3>1, <3>2, <3>3, <3>4, OneMore
    <2>6. CASE SendLost
      <3>1. PICK msg : msg = [id |-> 0, of |-> 0, what |-> "lost"]
        OBVIOUS
      <3>2. msg \in Messages /\ msg.what = "lost" /\ ~IsItem(msg, Current)
        BY <3>1 DEF Messages, Codes, IsItem
      <3>3. gateway' = gateway /\ sent' = sent /\ whole' = whole /\ Sends(msg)
        BY <2>6, <3>1 DEF SendLost
      <3> QED
        BY <2>0, <2>1, <3>2, <3>3, OneMore
    <2>7. ASSUME NEW kept \in 0..Len(wire), SocketDrops(kept)
          PROVE  \E m \in [0..Len(wire') -> Nat] : Counts(m)'
      <3>1. /\ gateway'[Current] # "open" /\ whole' = whole /\ wire' = SubSeq(wire, 1, kept)
            /\ gateway'[Current] = "none" => gateway[Current] = "none"
        BY <2>2, <2>7 DEF SocketDrops
      <3> QED
        BY <2>0, <2>1, <3>1, FirstFew
    <2> QED
      BY <1>6, <2>3, <2>4, <2>5, <2>6, <2>7 DEF Gateway
  <1>7. CASE Reader
    <2>0. UNCHANGED <<requests, pc, whole, gateway, sent>> /\ Current' = Current
      BY <1>7 DEF Reader, TakeItem, TakeEnd, TakeError, Wake, RecordInSlot, WakeStream,
                  ConnectionClosed, Current
    <2>1. PICK n \in [0..Len(wire) -> Nat] : Counts(n)
      BY <2>0 DEF Arrivals
    <2>2. Current \in Ids
      BY <2>0, CurrentType
    <2>3. CASE TakeItem
      <3>1. PICK r : r = First.of
        OBVIOUS
      <3>2. /\ \A i \in Ids : i # r => got'[i] = got[i]
            /\ Len(got'[r]) = Len(got[r]) + 1
        BY <2>3, <3>1, ItemTaken
      <3>3. First.what = "item" /\ Takes({"item"})
        BY <2>3 DEF TakeItem, Takes
      <3>4. Len(got'[Current]) = IF IsItem(First, Current) THEN Len(got[Current]) + 1 ELSE Len(got[Current])
        BY <2>2, <3>1, <3>2, <3>3 DEF IsItem
      <3> QED
        BY <2>0, <2>1, <3>3, <3>4, OneLess
    <2>4. CASE TakeEnd \/ TakeError
      <3>1. PICK what : Takes(what) /\ "item" \notin what
        BY <2>4 DEF TakeEnd, TakeError, Codes
      <3>2. ~IsItem(First, Current) /\ got' = got
        BY <2>4, <3>1 DEF IsItem, Takes, TakeEnd, TakeError
      <3> QED
        BY <2>0, <2>1, <3>1, <3>2, OneLess
    <2>5. CASE Wake \/ RecordInSlot \/ WakeStream \/ ConnectionClosed
      BY <1>2, <2>0, <2>5 DEF Wake, RecordInSlot, WakeStream, ConnectionClosed
    <2> QED
      BY <1>7, <2>3, <2>4, <2>5 DEF Reader
  <1> QED
    BY <1>1, <1>3, <1>4, <1>5, <1>6, <1>7 DEF Next, Ask
LEMMA SettledStep ==
  ASSUME TypeOK, Numbered, Mail, Recorded, EndSent, Arrivals, Settled, [Next]_vars
  PROVE  Settled'
  <1> USE DEF requester, tables, outside
  <1>0. pc # "idle" => Current \in Ids /\ Current \in Requests /\ CurrentId = Current
    BY CurrentType
  <1>1. ASSUME NEW kind \in Kinds, Register(kind) PROVE Settled'
    <2>1. Current' \in Ids /\ Current' = NextReqId
      BY <1>1, Registering DEF NextReqId
    <2> QED
      BY <1>1, <2>1 DEF Register, Settled, TypeOK
  <1>2. ASSUME requests' = requests, pc # "idle" \/ pc' = "idle", completed' = completed,
               completed => pc' \in {"cancel", "collect"},
               pc # "idle" => errs[Current] \subseteq errs'[Current],
               pc # "idle" => done'[Current] = done[Current] \/ "ending" \in errs'[Current],
               done[Current] = "set" => done'[Current] = "set",
               whole' = whole \/ whole = NoEnd,
               pc # "idle" /\ whole # NoEnd /\ Len(got[Current]) >= whole => Len(got'[Current]) >= whole
        PROVE  Settled'
    BY <1>2 DEF Settled, Current
  <1>3. CASE UNCHANGED vars
    BY <1>2, <1>3 DEF vars, Settled
  <1>4. CASE Replace
    BY <1>4 DEF Replace, Settled
  <1>5. CASE Answered
    <2>1. CASE Send \/ Cancel
      <3>1. /\ errs[Current] \subseteq errs'[Current]
            /\ done'[Current] = done[Current] \/ "ending" \in errs'[Current]
            /\ done[Current] = "set" => done'[Current] = "set"
        BY <1>0, <2>1 DEF Send, Cancel, ToGateway, Refused, TypeOK
      <3> QED
        BY <1>2, <2>1, <3>1 DEF Send, Cancel, Settled
    <2>2. CASE Woken \/ TimeOut
      BY <1>0, <2>2 DEF Woken, TimeOut, Leave, Settled, Current, CurrentId
    <2>3. CASE Collect
      BY <2>3 DEF Collect, Settled
    <2> QED
      BY <1>5, <2>1, <2>2, <2>3 DEF Answered
  <1>6. CASE Gateway
    <2>1. ASSUME NEW r \in 1..Current, SendEnd(r) PROVE Settled'
      <3>1. r = Current => whole = NoEnd
        BY <2>1 DEF SendEnd, EndSent
      <3> QED
        BY <1>2, <2>1, <3>1 DEF SendEnd, Settled
    <2>2. CASE \E r \in 1..Current : \/ SendItem(r)
                                     \/ \E msg \in {"notice", "ending"}, state \in {"open", "over"} :
                                          SendError(r, msg, state)
      BY <1>2, <2>2 DEF SendItem, SendError, Settled
    <2>3. CASE SendLost \/ \E kept \in 0..Len(wire) : SocketDrops(kept)
      BY <1>2, <2>3 DEF SendLost, SocketDrops, Settled
    <2> QED
      BY <1>6, <2>1, <2>2, <2>3 DEF Gateway
  <1>7. CASE Reader
    <2>0. UNCHANGED <<requests, pc, completed, whole>> /\ Current' = Current /\ \A r : Kind(r)' = Kind(r)
      BY <1>7 DEF Reader, TakeItem, TakeEnd, TakeError, Wake, RecordInSlot, WakeStream,
                  ConnectionClosed, Current, Kind
    <2>1. ASSUME UNCHANGED <<done, got>>, \A i \in Ids : errs[i] \subseteq errs'[i] PROVE Settled'
      BY <1>0, <1>2, <2>0, <2>1 DEF Settled
    <2>2. CASE TakeItem
      <3>1. PICK r : r = First.of
        OBVIOUS
      <3>2. /\ \A i \in Ids : i # r => got'[i] = got[i]
            /\ Len(got'[r]) = Len(got[r]) + 1 /\ Len(got[r]) \in Nat
        BY <2>2, <3>1, ItemTaken
      <3>3. whole \in Int /\ (pc # "idle" => Len(got[Current]) \in Nat)
        BY <1>0 DEF TypeOK, NoEnd
      <3>4. pc # "idle" /\ Len(got[Current]) >= whole => Len(got'[Current]) >= whole
        BY <1>0, <3>2, <3>3
      <3>5. done' = done /\ errs' = errs
        BY <2>2 DEF TakeItem
      <3> QED
        BY <1>2, <2>0, <3>4, <3>5 DEF Settled
    <2>3. CASE TakeEnd
      <3>1. PICK id, woken : id = First.id /\ woken = Awaken(id, Kinds)
        OBVIOUS
      <3>2. /\ woken = done' /\ errs' = errs /\ got' = got
            /\ \A i \in Ids : woken[i] # done[i] => i = id /\ done[i] = "clear" /\ woken[i] = "set"
        BY <2>3, <3>1, Awakening DEF TakeEnd
      <3>3. pc # "idle" /\ id = Current => whole # NoEnd /\ Len(got[Current]) >= whole
        <4>1. ASSUME pc # "idle", id = Current PROVE whole # NoEnd /\ Len(got[Current]) >= whole
          <5>1. PICK n \in [0..Len(wire) -> Nat] : Counts(n)
            BY <4>1 DEF Arrivals
          <5>2. wire[1].of = Current /\ wire[1].what = "end" /\ 1 \in 1..Len(wire)
            BY <2>3, <3>1, <4>1, Reading DEF TakeEnd, Codes
          <5>3. whole # NoEnd /\ n[1] >= whole /\ ~IsItem(wire[1], Current)
            BY <5>1, <5>2 DEF Counts, IsItem
          <5>4. n[1] = n[1 - 1] /\ n[0] = Len(got[Current])
            BY <5>1, <5>2, <5>3 DEF Counts
          <5> QED
            BY <5>3, <5>4
        <4> QED
          BY <4>1
      <3> QED
        BY <1>0, <2>0, <3>2, <3>3 DEF Settled
    <2>4. CASE TakeError
      <3>1. \A i \in Ids : errs[i] \subseteq errs'[i]
        BY <2>4 DEF TakeError, TypeOK
      <3> QED
        BY <2>1, <2>4, <3>1 DEF TakeError
    <2>5. ASSUME NEW kinds, NEW id, NEW woken, woken = Awaken(id, kinds), id = reader.msg.id,
                 done' = IF reader.msg.what = "ending" THEN woken ELSE done,
                 UNCHANGED <<got, errs>>, reader.at # "take",
                 reader.at = "wakeSlot" \/ "quote" \notin kinds
          PROVE  Settled'
      <3>1. \A i \in Ids : woken[i] # done[i] =>
              i = id /\ i \in 1..Current /\ Kind(i) \in kinds /\ done[i] = "clear" /\ woken[i] = "set"
        BY <2>5, Awakening
      <3>2. done' = done \/ (done' = woken /\ reader.msg.what = "ending")
        BY <2>5
      <3>3. ASSUME pc # "idle", done'[Current] # done[Current]
            PROVE  "ending" \in errs[Current] /\ done[Current] = "clear"
        <4>1. /\ id = Current /\ Current # 0 /\ reader.msg.what = "ending"
              /\ Kind(Current) \in kinds /\ done[Current] = "clear"
          BY <1>0, <3>1, <3>2, <3>3 DEF Ids
        <4>2. reader.msg.of = Current
          BY <2>5, <4>1 DEF Mail, Addressed
        <4> QED
          BY <2>5, <4>1, <4>2 DEF Recorded
      <3> QED
        BY <1>0, <2>0, <2>5, <3>3 DEF Settled
    <2>6. CASE Wake
      <3>1. PICK id, woken : id = reader.msg.id /\ woken = Awaken(id, Kinds \ Streams)
        OBVIOUS
      <3> QED
        BY <2>5, <2>6, <3>1 DEF Wake, IsRequestEnding, Streams
    <2>7. CASE RecordInSlot
      <3>1. \A i \in Ids : errs[i] \subseteq errs'[i]
        BY <2>7 DEF RecordInSlot, TypeOK
      <3> QED
        BY <2>1, <2>7, <3>1 DEF RecordInSlot
    <2>8. CASE WakeStream
      <3>1. PICK id, woken : id = reader.msg.id /\ woken = Awaken(id, Streams)
        OBVIOUS
      <3> QED
        BY <2>5, <2>8, <3>1 DEF WakeStream, IsRequestEnding
    <2>9. CASE ConnectionClosed
      BY <2>1, <2>9 DEF ConnectionClosed
    <2> QED
      BY <1>7, <2>2, <2>3, <2>4, <2>6, <2>7, <2>8, <2>9 DEF Reader
  <1> QED
    BY <1>1, <1>3, <1>4, <1>5, <1>6, <1>7 DEF Next, Ask

LEMMA CompleteStep ==
  ASSUME TypeOK, Numbered, EndSent, Settled, CompleteMeansAll, [Next]_vars
  PROVE  CompleteMeansAll'
  <1> USE DEF requester, tables, outside
  <1>1. ASSUME result' = result, whole' = whole PROVE CompleteMeansAll'
    BY <1>1 DEF CompleteMeansAll
  <1>2. CASE UNCHANGED vars
    BY <1>1, <1>2 DEF vars
  <1>3. CASE Ask
    <2>1. result' = NoResult
      BY <1>3 DEF Ask, Register, Replace
    <2>2. ~result'.completed
      BY <2>1 DEF NoResult
    <2> QED
      BY <2>2 DEF CompleteMeansAll
  <1>4. CASE Answered
    <2>1. CASE Collect
      <3>1. /\ CurrentId = Current /\ pc # "idle" /\ whole' = whole
            /\ result'.items = got[CurrentId] /\ result'.errs = errs[CurrentId]
            /\ result'.completed = completed
        BY <2>1, CurrentType DEF Collect
      <3> QED
        BY <3>1 DEF Settled, CompleteMeansAll
    <2>2. CASE Send \/ Woken \/ TimeOut \/ Cancel
      BY <1>1, <2>2 DEF Send, Woken, TimeOut, Leave, Cancel
    <2> QED
      BY <1>4, <2>1, <2>2 DEF Answered
  <1>5. CASE Gateway
    <2>1. ASSUME NEW r \in 1..Current, SendEnd(r) PROVE CompleteMeansAll'
      <3>1. r = Current => whole = NoEnd
        BY <2>1 DEF SendEnd, EndSent
      <3> QED
        BY <2>1, <3>1 DEF SendEnd, CompleteMeansAll
    <2>2. CASE ~\E r \in 1..Current : SendEnd(r)
      BY <1>1, <1>5, <2>2 DEF Gateway, SendItem, SendError, SendLost, SocketDrops
    <2> QED
      BY <2>1, <2>2
  <1>6. CASE Reader
    BY <1>1, <1>6 DEF Reader, TakeItem, TakeEnd, TakeError, Wake, RecordInSlot, WakeStream,
                      ConnectionClosed
  <1> QED
    BY <1>2, <1>3, <1>4, <1>5, <1>6 DEF Next

LEMMA InvStep == IInv /\ [Next]_vars => IInv'
  BY TypeStep, NumberedStep, FreshStep, MailStep, OfflineStep, StreamingStep, OwnStep, RecordedStep,
     WakingStep, EndSentStep, ArrivalsStep, SettledStep, CompleteStep DEF IInv

(* The inductive invariant holds of every state.                            *)
LEMMA Inductive == FairSpec => []IInv
  BY InitIInv, InvStep, PTL DEF FairSpec

(* The tables, the events and the messages keep their types, whatever the   *)
(* gateway sends and whenever the socket drops.                             *)
THEOREM SessionTypes == FairSpec => []TypeOK
  <1>1. IInv => TypeOK
    BY DEF IInv
  <1> QED
    BY <1>1, Inductive, PTL

(* A request that completed without an error that ends it returns at least  *)
(* what the gateway sent before the end (session.py's request methods, and  *)
(* the callbacks of the reader thread).                                     *)
THEOREM CompleteIsWhole == FairSpec => []CompleteMeansAll
  <1>1. IInv => CompleteMeansAll
    BY DEF IInv
  <1> QED
    BY <1>1, Inductive, PTL

(* What a request returns was sent for it, however late the items of an     *)
(* earlier request come in.                                                 *)
THEOREM ItemsAreOwn == FairSpec => []OwnItemsOnly
  <1>1. IInv => OwnItemsOnly
    BY DEF IInv, Own
  <1> QED
    BY <1>1, Inductive, PTL

(* No scanner and no quote streams between two requests.                    *)
THEOREM StreamsCancelled == FairSpec => []NeverLeftStreaming
  <1>1. IInv => NeverLeftStreaming
    BY DEF IInv, Streaming, NeverLeftStreaming
  <1> QED
    BY <1>1, Inductive, PTL

(* An answer the reader thread has handled has woken the request it answers. *)
THEOREM NoLostWakeUp == FairSpec => []AnswerWakes
  <1>1. IInv => AnswerWakes
    BY CurrentType DEF IInv, Waking, OnWire, Handling, AnswerWakes
  <1> QED
    BY <1>1, Inductive, PTL
=============================================================================
