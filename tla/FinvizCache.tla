----------------------------- MODULE FinvizCache -----------------------------
(***************************************************************************)
(* The cache of FinvizClient (finviz_live.py) under the threads that fill  *)
(* it and read it: the loop and the request handlers fetch the screener    *)
(* and single symbols under the client's lock, readers look rows up        *)
(* without it, and a rejected key is replaced in between                   *)
(* (finviz_auto_refresh.py).                                               *)
(*                                                                         *)
(* Requests are numbered as they are sent, and a row is told by the        *)
(* request that brought it.  Whether a cached row is within its time to    *)
(* live is left open, and so are the symbols a caller asks for.            *)
(***************************************************************************)
EXTENDS Naturals, FiniteSets

CONSTANTS
  Threads,      (* request handlers and the refresh loop                     *)
  Symbols,
  Nobody,
  NoSymbol,
  MaxRequests,  (* bound: requests sent                                      *)
  MaxKeys       (* bound: keys installed after the first                     *)

ASSUME NobodyAssumption == Nobody \notin Threads
ASSUME NoSymbolAssumption == NoSymbol \notin Symbols
ASSUME BoundsAssumption == MaxRequests \in Nat /\ MaxKeys \in Nat

VARIABLES
  lock,      (* _lock                                                        *)
  copies,    (* rows of each symbol in _cache, which is None while it is empty *)
  listAt,    (* the request that brought them, 0 while there are none        *)
  rowAt,     (* _cache_by_symbol: the request of the row, 0 for no row       *)
  conflicts, (* _mapping_conflicts                                           *)
  cachedAt,  (* _cache_at, 0 for None                                        *)
  stamped,   (* _symbol_fetched_at has the symbol                            *)
  sent,      (* history: requests sent                                       *)
  keyAt,     (* history: requests sent when the key was installed            *)
  keys,      (* history: keys installed after the first                      *)
  pc,        (* where each thread is                                         *)
  req,       (* the request it is waiting on, or whose answer it installs    *)
  symbol,    (* the symbol it asks for                                       *)
  match,     (* the symbol of the row that the answer brought                *)
  asker,     (* who asks for it, by where the caller goes on                 *)
  todo,      (* symbols ensure_symbols has still to fetch                    *)
  held,      (* the request of the row a reader holds, and is about to label *)
  heldAt     (* history: cachedAt when it took the row                       *)

cache == <<copies, listAt, rowAt, conflicts, cachedAt, stamped>>
history == <<sent, keyAt, keys>>
reading == <<held, heldAt>>
locals == <<req, symbol, match, asker, todo, reading>>
vars == <<lock, cache, history, pc, locals>>

Empty == [s \in Symbols |-> 0]

(* Steps taken with the lock. *)
Inside == {"bulk", "list", "rows", "stamp", "symbol", "store", "newkey"}
Outside == {"idle", "recover", "ensure", "lookup", "fetch", "again", "found"}

TypeOK ==
  /\ lock \in Threads \cup {Nobody}
  /\ copies \in [Symbols -> 0..2]
  /\ listAt \in [Symbols -> 0..MaxRequests]
  /\ rowAt \in [Symbols -> 0..MaxRequests]
  /\ conflicts \subseteq Symbols
  /\ cachedAt \in 0..MaxRequests
  /\ stamped \subseteq Symbols
  /\ sent \in 0..MaxRequests /\ keyAt \in 0..MaxRequests /\ keys \in 0..MaxKeys
  /\ pc \in [Threads -> Inside \cup Outside]
  /\ req \in [Threads -> 0..MaxRequests]
  /\ symbol \in [Threads -> Symbols \cup {NoSymbol}]
  /\ match \in [Threads -> Symbols \cup {NoSymbol}]
  /\ asker \in [Threads -> {"ensure", "again"}]
  /\ todo \in [Threads -> SUBSET Symbols]
  /\ held \in [Threads -> 0..MaxRequests] /\ heldAt \in [Threads -> 0..MaxRequests]

Init ==
  /\ lock = Nobody
  /\ copies = Empty /\ listAt = Empty /\ rowAt = Empty
  /\ conflicts = {} /\ cachedAt = 0 /\ stamped = {}
  /\ sent = 0 /\ keyAt = 0 /\ keys = 0
  /\ pc = [t \in Threads |-> "idle"]
  /\ req = [t \in Threads |-> 0]
  /\ symbol = [t \in Threads |-> NoSymbol]
  /\ match = [t \in Threads |-> NoSymbol]
  /\ asker = [t \in Threads |-> "again"]
  /\ todo = [t \in Threads |-> {}]
  /\ held = [t \in Threads |-> 0] /\ heldAt = [t \in Threads |-> 0]
-----------------------------------------------------------------------------
Go(t, from, to) == pc[t] = from /\ pc' = [pc EXCEPT ![t] = to]

Acquire(t) == lock = Nobody /\ lock' = t
Release(t) ==
  /\ lock' = Nobody
  /\ req' = [req EXCEPT ![t] = 0]

Send(t) ==
  /\ sent < MaxRequests
  /\ sent' = sent + 1
  /\ req' = [req EXCEPT ![t] = sent + 1]
  /\ UNCHANGED <<keyAt, keys>>

-----------------------------------------------------------------------------
(* fetch_screener.  An answer from the cache changes nothing.               *)

(* Seeded bug: the request is sent outside the lock. *)
BulkSendsUnlocked(t) ==
  /\ Go(t, "idle", "bulk")
  /\ Send(t)
  /\ UNCHANGED <<lock, cache, symbol, match, asker, todo, reading>>

BulkSends(t) ==
  /\ Go(t, "idle", "bulk")
  /\ Acquire(t)
  /\ Send(t)
  /\ UNCHANGED <<cache, symbol, match, asker, todo, reading>>

(* An error, a login page, no rows, an exception, the timeout; a rejected   *)
(* key sends the provider bundle to maybe_recover_finviz.                   *)
BulkFails(t) ==
  /\ \E to \in {"idle", "recover"} : Go(t, "bulk", to)
  /\ Release(t)
  /\ UNCHANGED <<cache, history, symbol, match, asker, todo, reading>>

(* The answer's rows are chosen in two steps: which symbols are ambiguous,  *)
(* and when the list is replaced, the rest.                                 *)
Answers == {rows \in [Symbols -> 0..2] \ {Empty} : conflicts = {s \in Symbols : rows[s] > 1}}

BulkAnswers(t) ==
  /\ Go(t, "bulk", "list")
  /\ conflicts' \in SUBSET Symbols
  /\ UNCHANGED <<lock, copies, listAt, rowAt, cachedAt, stamped, history, locals>>

(* Seeded bug: the time is noted before the rows are in place. *)
InstallListStamped(t) ==
  /\ Go(t, "list", "rows")
  /\ copies' \in Answers
  /\ listAt' = [s \in Symbols |-> IF copies'[s] = 0 THEN 0 ELSE req[t]]
  /\ cachedAt' = req[t]
  /\ UNCHANGED <<lock, rowAt, conflicts, stamped, history, locals>>

InstallList(t) ==
  /\ Go(t, "list", "rows")
  /\ copies' \in Answers
  /\ listAt' = [s \in Symbols |-> IF copies'[s] = 0 THEN 0 ELSE req[t]]
  /\ UNCHANGED <<lock, rowAt, conflicts, cachedAt, stamped, history, locals>>

InstallRows(t) ==
  /\ Go(t, "rows", "stamp")
  /\ rowAt' = [s \in Symbols |-> IF copies[s] = 1 THEN req[t] ELSE 0]
  /\ UNCHANGED <<lock, copies, listAt, conflicts, cachedAt, stamped, history, locals>>

InstallStamp(t) ==
  /\ Go(t, "stamp", "idle")
  /\ cachedAt' = req[t]
  /\ Release(t)
  /\ UNCHANGED <<copies, listAt, rowAt, conflicts, stamped, history,
                 symbol, match, asker, todo, reading>>

(* maybe_recover_finviz.  The cooldown, another error than a rejected key   *)
(* and the token service leave everything as it is.                         *)
RecoverFails(t) ==
  /\ Go(t, "recover", "idle")
  /\ UNCHANGED <<lock, cache, history, locals>>

(* set_api_key                                                              *)
ReplaceKey(t) ==
  /\ Go(t, "recover", "newkey")
  /\ keys < MaxKeys
  /\ Acquire(t)
  /\ keys' = keys + 1
  /\ keyAt' = sent
  /\ copies' = Empty /\ listAt' = Empty /\ rowAt' = Empty
  /\ cachedAt' = 0
  /\ UNCHANGED <<conflicts, stamped, sent, locals>>

(* Seeded bug: the conflicts of the old key stay. *)
KeepConflicts(t) ==
  /\ Go(t, "newkey", "idle")
  /\ stamped' = {}
  /\ Release(t)
  /\ UNCHANGED <<conflicts, copies, listAt, rowAt, cachedAt, history,
                 symbol, match, asker, todo, reading>>

ForgetConflicts(t) ==
  /\ Go(t, "newkey", "idle")
  /\ conflicts' = {} /\ stamped' = {}
  /\ Release(t)
  /\ UNCHANGED <<copies, listAt, rowAt, cachedAt, history,
                 symbol, match, asker, todo, reading>>

-----------------------------------------------------------------------------
(* ensure_symbols: of the symbols asked for, the ones without a row, and    *)
(* the ones whose row was not fetched alone or too long ago.                *)
EnsureBegins(t) ==
  /\ Go(t, "idle", "ensure")
  /\ \E asked, expired \in SUBSET Symbols :
       todo' = [todo EXCEPT ![t] =
                  {s \in asked : rowAt[s] = 0 \/ s \notin stamped \/ s \in expired}]
  /\ UNCHANGED <<lock, cache, history, req, symbol, match, asker, reading>>

EnsureEnds(t) ==
  /\ todo[t] = {}
  /\ Go(t, "ensure", "idle")
  /\ UNCHANGED <<lock, cache, history, locals>>

EnsureNext(t, s) ==
  /\ s \in todo[t]
  /\ Go(t, "ensure", "fetch")
  /\ symbol' = [symbol EXCEPT ![t] = s]
  /\ asker' = [asker EXCEPT ![t] = "ensure"]
  /\ todo' = [todo EXCEPT ![t] = @ \ {s}]
  /\ UNCHANGED <<lock, cache, history, req, match, reading>>

(* get_row: an ambiguous symbol is withheld, which changes nothing.         *)
LooksUp(t, s) ==
  /\ s \notin conflicts
  /\ Go(t, "idle", "lookup")
  /\ symbol' = [symbol EXCEPT ![t] = s]
  /\ UNCHANGED <<lock, cache, history, req, match, asker, todo, reading>>

(* The row in the lookup is returned: at once, or after the fetch.          *)
FindsRow(t) ==
  /\ Go(t, "lookup", "found") \/ Go(t, "again", "found")
  /\ rowAt[symbol[t]] # 0
  /\ held' = [held EXCEPT ![t] = rowAt[symbol[t]]]
  /\ heldAt' = [heldAt EXCEPT ![t] = cachedAt]
  /\ UNCHANGED <<lock, cache, history, req, symbol, match, asker, todo>>

Misses(t) ==
  /\ Go(t, "lookup", "fetch")
  /\ rowAt[symbol[t]] = 0
  /\ UNCHANGED <<lock, cache, history, locals>>

(* The fetch brought the row of another symbol, or the row is gone again.   *)
MissesAgain(t) ==
  /\ Go(t, "again", "idle")
  /\ rowAt[symbol[t]] = 0
  /\ symbol' = [symbol EXCEPT ![t] = NoSymbol]
  /\ UNCHANGED <<lock, cache, history, req, match, asker, todo, reading>>

(* The caller of get_row reads cached_at, without the lock, and labels the  *)
(* row it holds with it.                                                    *)
LabelsRow(t) ==
  /\ Go(t, "found", "idle")
  /\ symbol' = [symbol EXCEPT ![t] = NoSymbol]
  /\ held' = [held EXCEPT ![t] = 0] /\ heldAt' = [heldAt EXCEPT ![t] = 0]
  /\ UNCHANGED <<lock, cache, history, req, match, asker, todo>>
-----------------------------------------------------------------------------
(* fetch_symbol returns to who asked: get_row looks again for its symbol,   *)
(* ensure_symbols goes on.                                                  *)
Returns(t) ==
  /\ symbol' = IF asker[t] = "again" THEN symbol ELSE [symbol EXCEPT ![t] = NoSymbol]
  /\ asker' = [asker EXCEPT ![t] = "again"]

(* Without a row: get_row has none to return.                               *)
ReturnsNone(t) ==
  /\ symbol' = [symbol EXCEPT ![t] = NoSymbol]
  /\ asker' = [asker EXCEPT ![t] = "again"]

(* A row fetched alone and not too long ago is the answer. *)
SymbolCached(t) ==
  /\ Go(t, "fetch", asker[t])
  /\ lock = Nobody
  /\ rowAt[symbol[t]] # 0 /\ symbol[t] \in stamped
  /\ Returns(t)
  /\ UNCHANGED <<lock, cache, history, req, match, todo, reading>>

SymbolSends(t) ==
  /\ Go(t, "fetch", "symbol")
  /\ Acquire(t)
  /\ Send(t)
  /\ UNCHANGED <<cache, symbol, match, asker, todo, reading>>

(* An error is reported, and ensure_symbols goes on with the next.          *)
SymbolFails(t) ==
  /\ Go(t, "symbol", IF asker[t] = "ensure" THEN "ensure" ELSE "idle")
  /\ Release(t) /\ ReturnsNone(t)
  /\ UNCHANGED <<cache, history, match, todo, reading>>

(* An exception, such as the timeout's, ends ensure_symbols too.            *)
SymbolRaises(t) ==
  /\ Go(t, "symbol", "idle")
  /\ Release(t) /\ ReturnsNone(t)
  /\ todo' = [todo EXCEPT ![t] = {}]
  /\ UNCHANGED <<cache, history, match, reading>>

(* The row of the symbol, or whichever comes first when it is not there.    *)
SymbolAnswers(t) ==
  /\ Go(t, "symbol", "store")
  /\ \E s \in Symbols :
       /\ match' = [match EXCEPT ![t] = s]
       /\ rowAt' = [rowAt EXCEPT ![s] = req[t]]
  /\ UNCHANGED <<lock, copies, listAt, conflicts, cachedAt, stamped, history,
                 req, symbol, asker, todo, reading>>

(* Seeded bug: the row is added whatever the list has. *)
SymbolAdded(t) ==
  /\ Go(t, "store", asker[t])
  /\ stamped' = stamped \cup {match[t]}
  /\ copies' = [copies EXCEPT ![match[t]] = @ + 1]
  /\ listAt' = [listAt EXCEPT ![match[t]] = req[t]]
  /\ Release(t) /\ Returns(t)
  /\ match' = [match EXCEPT ![t] = NoSymbol]
  /\ UNCHANGED <<rowAt, conflicts, cachedAt, history, todo, reading>>

(* The list gets the row if it has none of the symbol. *)
SymbolStored(t) ==
  /\ Go(t, "store", asker[t])
  /\ stamped' = stamped \cup {match[t]}
  /\ IF copies[match[t]] = 0
     THEN /\ copies' = [copies EXCEPT ![match[t]] = 1]
          /\ listAt' = [listAt EXCEPT ![match[t]] = req[t]]
     ELSE UNCHANGED <<copies, listAt>>
  /\ Release(t) /\ Returns(t)
  /\ match' = [match EXCEPT ![t] = NoSymbol]
  /\ UNCHANGED <<rowAt, conflicts, cachedAt, history, todo, reading>>
-----------------------------------------------------------------------------
Holding(t) ==
  BulkFails(t) \/ BulkAnswers(t) \/ InstallList(t) \/ InstallRows(t) \/ InstallStamp(t)
  \/ ForgetConflicts(t) \/ SymbolFails(t) \/ SymbolRaises(t) \/ SymbolAnswers(t) \/ SymbolStored(t)

Fetching(t) ==
  BulkSends(t) \/ RecoverFails(t) \/ ReplaceKey(t) \/ EnsureBegins(t) \/ EnsureEnds(t)
  \/ SymbolCached(t) \/ SymbolSends(t) \/ \E s \in Symbols : EnsureNext(t, s)

Reading(t) ==
  FindsRow(t) \/ Misses(t) \/ MissesAgain(t) \/ LabelsRow(t)
  \/ \E s \in Symbols : LooksUp(t, s)

Next == \E t \in Threads : Holding(t) \/ Fetching(t) \/ Reading(t)

Spec == Init /\ [][Next]_vars
-----------------------------------------------------------------------------
(* Properties.                                                             *)

(* set_api_key: no row of a request sent with an earlier key is ever       *)
(* cached, even if the key was replaced while the request was out.         *)
RowsOfCurrentKey ==
  /\ \A s \in Symbols : /\ copies[s] # 0 => listAt[s] > keyAt
                        /\ rowAt[s] # 0 => rowAt[s] > keyAt
  /\ cachedAt # 0 => cachedAt > keyAt

(* refresh_symbol takes a row and then reads cached_at to date it, both     *)
(* without the lock.  The date may be newer than the request that brought  *)
(* the row, but only if a fetch completed between the two reads: the date  *)
(* is then another one than when the row was taken, and the row is no      *)
(* longer the one get_row returns.                                         *)
LabelNewerOnlyIfOvertaken ==
  \A t \in Threads :
    pc[t] = "found" /\ cachedAt > held[t] =>
      heldAt[t] < cachedAt /\ rowAt[symbol[t]] # held[t]

(* "Replace both lookup structures only after the whole response           *)
(* validates": between fetches the list and the lookup tell the same       *)
(* story.  A symbol has a row for get_row exactly when the list has one;   *)
(* more rows make it ambiguous; the lookup's row is never the older one.   *)
LookupsAgree ==
  lock = Nobody => \A s \in Symbols :
    /\ s \in conflicts <=> copies[s] > 1
    /\ copies[s] = 0 => rowAt[s] = 0
    /\ copies[s] = 1 => rowAt[s] >= listAt[s] /\ listAt[s] > 0

(* While the key stays, an answer never replaces rows of a later request,  *)
(* and what fails leaves the last good rows alone.                         *)
LastGoodKept ==
  [][keyAt' = keyAt /\ keys' = keys =>
       /\ cachedAt' >= cachedAt
       /\ \A s \in Symbols : rowAt'[s] # 0 => rowAt'[s] >= rowAt[s]
       /\ copies # Empty => copies' # Empty]_vars
=============================================================================
