------------------------- MODULE FinvizCache_proofs -------------------------
(***************************************************************************)
(* FinvizCache, for every number of threads, symbols, requests and keys:   *)
(* its types, and what readers that take no lock may rely on.              *)
(*                                                                         *)
(* Two facts carry everything.  The owner of the lock is the one thread    *)
(* inside, so the request it waits on is the last one sent: an answer is   *)
(* never older than what it replaces.  And Progress says how much of an    *)
(* answer is in place at each step inside; outside, all of it is.          *)
(***************************************************************************)
EXTENDS FinvizCache, TLAPS

LockInv == \A t \in Threads : pc[t] \in Inside <=> lock = t

(* Nothing is from the future, and what is waited on is the latest.         *)
Numbers ==
  /\ keyAt =< sent /\ cachedAt =< sent
  /\ \A s \in Symbols : listAt[s] =< sent /\ rowAt[s] =< sent
  /\ \A t \in Threads : pc[t] \in Inside \ {"newkey"} => req[t] = sent /\ sent > keyAt

(* List, lookup and conflicts tell the same of a symbol, apart from whether *)
(* it has a row at all.                                                     *)
Agrees(s) ==
  /\ s \in conflicts <=> copies[s] > 1
  /\ copies[s] = 1 => rowAt[s] >= listAt[s] /\ listAt[s] > 0

AllAgree == \A s \in Symbols : Agrees(s) /\ (copies[s] = 0 => rowAt[s] = 0)

Known == \A t \in Threads :
  /\ pc[t] \in {"lookup", "fetch", "symbol", "store", "again", "found"} => symbol[t] \in Symbols
  /\ pc[t] = "store" => match[t] \in Symbols

(* At every moment the time is no later than the request of any row that    *)
(* get_row returns.                                                         *)
TimeBehindRows == \A s \in Symbols : rowAt[s] # 0 => cachedAt =< rowAt[s]

(* So the row a reader holds was dated safely when it was taken.            *)
Dated == \A t \in Threads : pc[t] = "found" => held[t] # 0 /\ heldAt[t] =< held[t]

Progress(t) ==
  /\ pc[t] \in {"bulk", "symbol", "stamp"} => AllAgree
  /\ pc[t] = "rows" => \A s \in Symbols : /\ s \in conflicts <=> copies[s] > 1
                                          /\ copies[s] # 0 => listAt[s] = req[t]
  /\ pc[t] = "stamp" => \A s \in Symbols : rowAt[s] \in {0, req[t]}
  /\ pc[t] = "store" => /\ rowAt[match[t]] = req[t]
                        /\ \A s \in Symbols : /\ Agrees(s)
                                              /\ s # match[t] /\ copies[s] = 0 => rowAt[s] = 0
  /\ pc[t] = "newkey" => \A s \in Symbols : copies[s] = 0 /\ rowAt[s] = 0

IInv ==
  /\ TypeOK /\ LockInv /\ Known /\ Dated /\ Numbers
  /\ lock = Nobody => AllAgree
  /\ \A t \in Threads : Progress(t)
  /\ RowsOfCurrentKey /\ TimeBehindRows
-----------------------------------------------------------------------------
USE NobodyAssumption, NoSymbolAssumption, BoundsAssumption

LEMMA InitIInv == Init => IInv
  <1> SUFFICES ASSUME Init PROVE IInv
    OBVIOUS
  <1> USE DEF Init, Empty
  <1>1. TypeOK
    BY DEF TypeOK, Inside, Outside
  <1>2. LockInv
    BY DEF LockInv, Inside
  <1>3. Numbers
    BY DEF Numbers, Inside
  <1>4. AllAgree
    BY DEF AllAgree, Agrees
  <1>5. \A t \in Threads : Progress(t)
    BY DEF Progress
  <1>6. Known
    BY DEF Known
  <1>7. Dated
    BY DEF Dated
  <1> QED
    BY <1>1, <1>2, <1>3, <1>4, <1>5, <1>6, <1>7 DEF IInv, RowsOfCurrentKey, TimeBehindRows

(* A step is one thread's: it moves, and leaves the other threads alone.    *)
LEMMA Moves ==
  ASSUME TypeOK, NEW t \in Threads, Holding(t) \/ Fetching(t) \/ Reading(t)
  PROVE  \A u \in Threads \ {t} : /\ pc'[u] = pc[u]
                                   /\ match'[u] = match[u] /\ req'[u] = req[u]
  <1> USE DEF TypeOK, Go, Release, Send, Returns, ReturnsNone, reading, locals
  <1>1. CASE Holding(t)
    BY <1>1 DEF Holding, BulkFails, BulkAnswers, InstallList, InstallRows, InstallStamp,
                ForgetConflicts, SymbolFails, SymbolRaises, SymbolAnswers, SymbolStored
  <1>2. CASE Fetching(t)
    BY <1>2 DEF Fetching, BulkSends, RecoverFails, ReplaceKey, EnsureBegins, EnsureEnds,
                SymbolCached, SymbolSends, EnsureNext
  <1>3. CASE Reading(t)
    BY <1>3 DEF Reading, FindsRow, Misses, MissesAgain, LabelsRow, LooksUp
  <1> QED
    BY <1>1, <1>2, <1>3

LEMMA TypeStep == TypeOK /\ Known /\ [Next]_vars => TypeOK'
  <1> SUFFICES ASSUME TypeOK, Known, [Next]_vars PROVE TypeOK'
    OBVIOUS
  <1> USE DEF TypeOK, Inside, Outside, Go, Acquire, Release, Send, Returns, ReturnsNone, Empty,
              cache, history, reading, locals
  <1>1. CASE UNCHANGED vars
    BY <1>1 DEF vars
  <1>2. ASSUME NEW t \in Threads, Holding(t) PROVE TypeOK'
    <2>1. CASE BulkFails(t)
      BY <2>1 DEF BulkFails
    <2>2. CASE BulkAnswers(t)
      BY <2>2 DEF BulkAnswers
    <2>3. CASE InstallList(t)
      <3>1. copies' \in [Symbols -> 0..2]
        BY <2>3 DEF InstallList, Answers
      <3>2. listAt' \in [Symbols -> 0..MaxRequests]
        BY <2>3 DEF InstallList
      <3> QED
        BY <2>3, <3>1, <3>2 DEF InstallList
    <2>4. CASE InstallRows(t)
      BY <2>4 DEF InstallRows
    <2>5. CASE InstallStamp(t)
      BY <2>5 DEF InstallStamp
    <2>6. CASE ForgetConflicts(t)
      BY <2>6 DEF ForgetConflicts
    <2>7. CASE SymbolFails(t)
      BY <2>7 DEF SymbolFails
    <2>8. CASE SymbolRaises(t)
      BY <2>8 DEF SymbolRaises
    <2>9. CASE SymbolAnswers(t)
      BY <2>9 DEF SymbolAnswers
    <2>10. CASE SymbolStored(t)
      <3>1. copies' \in [Symbols -> 0..2] /\ listAt' \in [Symbols -> 0..MaxRequests]
        BY <2>10 DEF SymbolStored
      <3>2. stamped' \subseteq Symbols
        BY <2>10 DEF SymbolStored, Known
      <3> QED
        BY <2>10, <3>1, <3>2 DEF SymbolStored
    <2> QED
      BY <1>2, <2>1, <2>2, <2>3, <2>4, <2>5, <2>6, <2>7, <2>8, <2>9, <2>10 DEF Holding
  <1>3. ASSUME NEW t \in Threads, Fetching(t) PROVE TypeOK'
    <2>1. CASE BulkSends(t)
      BY <2>1 DEF BulkSends
    <2>2. CASE RecoverFails(t)
      BY <2>2 DEF RecoverFails
    <2>3. CASE ReplaceKey(t)
      BY <2>3 DEF ReplaceKey
    <2>4. CASE EnsureBegins(t)
      BY <2>4 DEF EnsureBegins
    <2>5. CASE EnsureEnds(t)
      BY <2>5 DEF EnsureEnds
    <2>6. CASE SymbolCached(t)
      BY <2>6 DEF SymbolCached
    <2>7. CASE SymbolSends(t)
      BY <2>7 DEF SymbolSends
    <2>8. ASSUME NEW s \in Symbols, EnsureNext(t, s) PROVE TypeOK'
      BY <2>8 DEF EnsureNext
    <2> QED
      BY <1>3, <2>1, <2>2, <2>3, <2>4, <2>5, <2>6, <2>7, <2>8 DEF Fetching
  <1>4. ASSUME NEW t \in Threads, Reading(t) PROVE TypeOK'
    <2>1. CASE FindsRow(t)
      BY <2>1 DEF FindsRow, Known
    <2>2. CASE Misses(t)
      BY <2>2 DEF Misses
    <2>3. CASE MissesAgain(t)
      BY <2>3 DEF MissesAgain
    <2>4. CASE LabelsRow(t)
      BY <2>4 DEF LabelsRow
    <2>5. ASSUME NEW s \in Symbols, LooksUp(t, s) PROVE TypeOK'
      BY <2>5 DEF LooksUp
    <2> QED
      BY <1>4, <2>1, <2>2, <2>3, <2>4, <2>5 DEF Reading
  <1> QED
    BY <1>1, <1>2, <1>3, <1>4 DEF Next

(* Who is inside has the lock, and gives it back on the way out.            *)
LEMMA LockStep == TypeOK /\ LockInv /\ [Next]_vars => LockInv'
  <1> SUFFICES ASSUME TypeOK, LockInv, [Next]_vars PROVE LockInv'
    OBVIOUS
  <1> USE DEF TypeOK, LockInv, Inside, Outside, Go, Acquire, Release
  <1>1. CASE UNCHANGED vars
    BY <1>1 DEF vars
  <1>2. ASSUME NEW t \in Threads, Holding(t) PROVE LockInv'
    BY <1>2 DEF Holding, BulkFails, BulkAnswers, InstallList, InstallRows, InstallStamp,
                ForgetConflicts, SymbolFails, SymbolRaises, SymbolAnswers, SymbolStored
  <1>3. ASSUME NEW t \in Threads, Fetching(t) PROVE LockInv'
    BY <1>3 DEF Fetching, BulkSends, RecoverFails, ReplaceKey, EnsureBegins, EnsureEnds,
                SymbolCached, SymbolSends, EnsureNext, locals
  <1>4. ASSUME NEW t \in Threads, Reading(t) PROVE LockInv'
    BY <1>4 DEF Reading, FindsRow, Misses, MissesAgain, LabelsRow, LooksUp, locals
  <1> QED
    BY <1>1, <1>2, <1>3, <1>4 DEF Next

LEMMA KnownStep == TypeOK /\ Known /\ [Next]_vars => Known'
  <1> SUFFICES ASSUME TypeOK, Known, [Next]_vars PROVE Known'
    OBVIOUS
  <1> USE DEF TypeOK, Known, Inside, Outside, Go, Returns, ReturnsNone, reading
  <1>1. CASE UNCHANGED vars
    BY <1>1 DEF vars, locals
  <1>2. ASSUME NEW t \in Threads, Holding(t) PROVE Known'
    BY <1>2 DEF Holding, BulkFails, BulkAnswers, InstallList, InstallRows, InstallStamp,
                ForgetConflicts, SymbolFails, SymbolRaises, SymbolAnswers, SymbolStored, locals
  <1>3. ASSUME NEW t \in Threads, Fetching(t) PROVE Known'
    BY <1>3 DEF Fetching, BulkSends, RecoverFails, ReplaceKey, EnsureBegins, EnsureEnds,
                SymbolCached, SymbolSends, EnsureNext, locals
  <1>4. ASSUME NEW t \in Threads, Reading(t) PROVE Known'
    BY <1>4 DEF Reading, FindsRow, Misses, MissesAgain, LabelsRow, LooksUp, locals
  <1> QED
    BY <1>1, <1>2, <1>3, <1>4 DEF Next

LEMMA DatedStep == TypeOK /\ Known /\ TimeBehindRows /\ Dated /\ [Next]_vars => Dated'
  <1> SUFFICES ASSUME TypeOK, Known, TimeBehindRows, Dated, [Next]_vars PROVE Dated'
    OBVIOUS
  <1> USE DEF TypeOK, Known, TimeBehindRows, Dated, Inside, Outside, Go
  <1>1. CASE UNCHANGED vars
    BY <1>1 DEF vars, locals, reading
  <1>2. ASSUME NEW t \in Threads, Holding(t) PROVE Dated'
    BY <1>2 DEF Holding, BulkFails, BulkAnswers, InstallList, InstallRows, InstallStamp,
                ForgetConflicts, SymbolFails, SymbolRaises, SymbolAnswers, SymbolStored,
                locals, reading
  <1>3. ASSUME NEW t \in Threads, Fetching(t) PROVE Dated'
    BY <1>3 DEF Fetching, BulkSends, RecoverFails, ReplaceKey, EnsureBegins, EnsureEnds,
                SymbolCached, SymbolSends, EnsureNext, locals, reading
  <1>4. ASSUME NEW t \in Threads, Reading(t) PROVE Dated'
    BY <1>4 DEF Reading, FindsRow, Misses, MissesAgain, LabelsRow, LooksUp, locals, reading
  <1> QED
    BY <1>1, <1>2, <1>3, <1>4 DEF Next

(* Of the other threads a step of the lock's owner, or of the thread that   *)
(* takes it, need not show anything: they are outside and wait on nothing.  *)
LEMMA Alone ==
  ASSUME IInv, TypeOK', LockInv', Known', Dated', NEW t \in Threads, lock \in {t, Nobody},
         \A u \in Threads \ {t} : pc'[u] = pc[u] /\ match'[u] = match[u] /\ req'[u] = req[u],
         Progress(t)',
         keyAt' =< sent' /\ cachedAt' =< sent',
         \A s \in Symbols : listAt'[s] =< sent' /\ rowAt'[s] =< sent',
         pc'[t] \in Inside \ {"newkey"} => req'[t] = sent' /\ sent' > keyAt',
         lock' = Nobody => AllAgree', RowsOfCurrentKey', TimeBehindRows'
  PROVE  IInv'
  <1>1. \A u \in Threads \ {t} : pc'[u] \notin Inside
    BY DEF IInv, LockInv
  <1>2. Numbers'
    BY <1>1 DEF Numbers
  <1>3. ASSUME NEW u \in Threads \ {t} PROVE Progress(u)'
    <2>1. pc'[u] \notin {"bulk", "symbol", "stamp", "rows", "store", "newkey"}
      BY <1>1, <1>3 DEF Inside
    <2> QED
      BY <2>1 DEF Progress
  <1> QED
    BY <1>2, <1>3 DEF IInv

(* Nor need a step that looks without the lock and changes nothing shared.  *)
LEMMA Looks ==
  ASSUME IInv, TypeOK', LockInv', Known', Dated', NEW t \in Threads, UNCHANGED <<lock, cache, history>>,
         \A u \in Threads \ {t} : pc'[u] = pc[u] /\ match'[u] = match[u] /\ req'[u] = req[u],
         pc'[t] \notin Inside
  PROVE  IInv'
  <1> USE DEF cache, history
  <1>1. Numbers'
    BY DEF IInv, Numbers
  <1>2. AllAgree => AllAgree'
    BY DEF AllAgree, Agrees
  <1>3. Progress(t)'
    BY DEF Progress, Inside
  <1>4. ASSUME NEW u \in Threads \ {t} PROVE Progress(u)'
    BY <1>2, <1>4 DEF IInv, Progress, Agrees
  <1> QED
    BY <1>1, <1>2, <1>3, <1>4 DEF IInv, RowsOfCurrentKey, TimeBehindRows
-----------------------------------------------------------------------------
(* The steps inside, one lemma each for the ones that change what readers   *)
(* see; what `Alone` asks for, in its order.                                *)

LEMMA ListStep ==
  ASSUME IInv, TypeOK', LockInv', Known', Dated', NEW t \in Threads, InstallList(t)
  PROVE  IInv'
  <1> USE DEF IInv
  <1>1. lock = t /\ lock' = t /\ pc[t] = "list" /\ pc'[t] = "rows" /\ req'[t] = req[t]
    BY DEF InstallList, Go, LockInv, Inside, TypeOK, locals
  <1>2. req[t] = sent /\ sent > keyAt /\ UNCHANGED <<sent, keyAt, cachedAt, rowAt, conflicts>>
    BY <1>1 DEF InstallList, Numbers, Inside, history
  <1>3. sent \in Nat /\ keyAt \in Nat
    BY DEF TypeOK
  <1>4. \A s \in Symbols : /\ s \in conflicts <=> copies'[s] > 1
                           /\ listAt'[s] = IF copies'[s] = 0 THEN 0 ELSE sent
    BY <1>2 DEF InstallList, Answers
  <1>5. Progress(t)'
    BY <1>1, <1>2, <1>4 DEF Progress
  <1>6. \A s \in Symbols : listAt'[s] =< sent'
    BY <1>2, <1>3, <1>4
  <1>7. RowsOfCurrentKey'
    BY <1>2, <1>3, <1>4 DEF RowsOfCurrentKey
  <1>8. TimeBehindRows'
    BY <1>2 DEF TimeBehindRows
  <1>9. \A u \in Threads \ {t} : pc'[u] = pc[u] /\ match'[u] = match[u] /\ req'[u] = req[u]
    BY Moves DEF Holding
  <1> QED
    BY <1>1, <1>2, <1>5, <1>6, <1>7, <1>8, <1>9, Alone, NobodyAssumption DEF Numbers

LEMMA RowsStep ==
  ASSUME IInv, TypeOK', LockInv', Known', Dated', NEW t \in Threads, InstallRows(t)
  PROVE  IInv'
  <1> USE DEF IInv
  <1>1. lock = t /\ lock' = t /\ pc[t] = "rows" /\ pc'[t] = "stamp" /\ req'[t] = req[t]
    BY DEF InstallRows, Go, LockInv, Inside, TypeOK, locals
  <1>2. /\ req[t] = sent /\ sent > keyAt
        /\ UNCHANGED <<sent, keyAt, cachedAt, copies, listAt, conflicts>>
    BY <1>1 DEF InstallRows, Numbers, Inside, history
  <1>3. sent \in Nat /\ keyAt \in Nat /\ cachedAt \in Nat /\ cachedAt =< sent
        /\ copies \in [Symbols -> 0..2]
    BY DEF TypeOK, Numbers
  <1>4. \A s \in Symbols : /\ s \in conflicts <=> copies[s] > 1
                           /\ copies[s] # 0 => listAt[s] = sent
                           /\ rowAt'[s] = IF copies[s] = 1 THEN sent ELSE 0
    BY <1>1, <1>2 DEF InstallRows, Progress
  <1>5. AllAgree'
    BY <1>2, <1>3, <1>4 DEF AllAgree, Agrees
  <1>6. Progress(t)'
    BY <1>1, <1>2, <1>4, <1>5 DEF Progress
  <1>7. \A s \in Symbols : rowAt'[s] =< sent'
    BY <1>2, <1>3, <1>4
  <1>8. RowsOfCurrentKey'
    BY <1>2, <1>3, <1>4 DEF RowsOfCurrentKey
  <1>9. TimeBehindRows'
    BY <1>2, <1>3, <1>4 DEF TimeBehindRows
  <1>10. \A u \in Threads \ {t} : pc'[u] = pc[u] /\ match'[u] = match[u] /\ req'[u] = req[u]
    BY Moves DEF Holding
  <1> QED
    BY <1>1, <1>2, <1>6, <1>7, <1>8, <1>9, <1>10, Alone, NobodyAssumption DEF Numbers

LEMMA StampStep ==
  ASSUME IInv, TypeOK', LockInv', Known', Dated', NEW t \in Threads, InstallStamp(t)
  PROVE  IInv'
  <1> USE DEF IInv
  <1>1. lock = t /\ pc[t] = "stamp" /\ pc'[t] = "idle"
    BY DEF InstallStamp, Go, LockInv, Inside, TypeOK
  <1>2. /\ req[t] = sent /\ sent > keyAt /\ cachedAt' = sent
        /\ UNCHANGED <<sent, keyAt, copies, listAt, rowAt, conflicts>>
    BY <1>1 DEF InstallStamp, Numbers, Inside, history
  <1>3. sent \in Nat
    BY DEF TypeOK
  <1>4. AllAgree /\ \A s \in Symbols : rowAt[s] \in {0, sent}
    BY <1>1, <1>2 DEF Progress
  <1>5. AllAgree'
    BY <1>2, <1>4 DEF AllAgree, Agrees
  <1>6. Progress(t)'
    BY <1>1 DEF Progress
  <1>7. RowsOfCurrentKey'
    BY <1>2 DEF RowsOfCurrentKey
  <1>8. TimeBehindRows'
    BY <1>2, <1>3, <1>4 DEF TimeBehindRows
  <1>9. \A u \in Threads \ {t} : pc'[u] = pc[u] /\ match'[u] = match[u] /\ req'[u] = req[u]
    BY Moves DEF Holding
  <1> QED
    BY <1>1, <1>2, <1>3, <1>5, <1>6, <1>7, <1>8, <1>9, Alone DEF Numbers, Inside

LEMMA AnswerStep ==
  ASSUME IInv, TypeOK', LockInv', Known', Dated', NEW t \in Threads, SymbolAnswers(t)
  PROVE  IInv'
  <1> USE DEF IInv
  <1>1. lock = t /\ lock' = t /\ pc[t] = "symbol" /\ pc'[t] = "store" /\ req'[t] = req[t]
    BY DEF SymbolAnswers, Go, LockInv, Inside, TypeOK
  <1>2. /\ req[t] = sent /\ sent > keyAt
        /\ UNCHANGED <<sent, keyAt, cachedAt, copies, listAt, conflicts>>
    BY <1>1 DEF SymbolAnswers, Numbers, Inside, history
  <1>3. sent \in Nat /\ cachedAt =< sent /\ \A s \in Symbols : listAt[s] =< sent /\ rowAt[s] =< sent
    BY DEF TypeOK, Numbers
  <1>4. PICK s \in Symbols : match'[t] = s /\ rowAt' = [rowAt EXCEPT ![s] = sent]
    BY <1>2 DEF SymbolAnswers, TypeOK
  <1>5. rowAt'[s] = sent /\ \A r \in Symbols \ {s} : rowAt'[r] = rowAt[r]
    BY <1>4 DEF TypeOK
  <1>6. AllAgree
    BY <1>1 DEF Progress
  <1>7. Progress(t)'
    <2>1. \A r \in Symbols : Agrees(r)'
      BY <1>2, <1>3, <1>5, <1>6 DEF AllAgree, Agrees
    <2>2. \A r \in Symbols \ {s} : copies'[r] = 0 => rowAt'[r] = 0
      BY <1>2, <1>5, <1>6 DEF AllAgree
    <2> QED
      BY <1>1, <1>2, <1>4, <1>5, <2>1, <2>2 DEF Progress
  <1>8. RowsOfCurrentKey'
    BY <1>2, <1>5 DEF RowsOfCurrentKey
  <1>9. TimeBehindRows'
    BY <1>2, <1>3, <1>5 DEF TimeBehindRows
  <1>10. \A r \in Symbols : listAt'[r] =< sent' /\ rowAt'[r] =< sent'
    BY <1>2, <1>3, <1>5
  <1>11. \A u \in Threads \ {t} : pc'[u] = pc[u] /\ match'[u] = match[u] /\ req'[u] = req[u]
    BY Moves DEF Holding
  <1> QED
    BY <1>1, <1>2, <1>7, <1>8, <1>9, <1>10, <1>11, Alone, NobodyAssumption DEF Numbers

LEMMA StoreStep ==
  ASSUME IInv, TypeOK', LockInv', Known', Dated', NEW t \in Threads, SymbolStored(t)
  PROVE  IInv'
  <1> USE DEF IInv
  <1>1. lock = t /\ pc[t] = "store" /\ pc'[t] \in {"ensure", "again"}
    BY DEF SymbolStored, Go, LockInv, Inside, TypeOK
  <1>s. PICK s \in Symbols : s = match[t]
    BY <1>1 DEF Known
  <1>2. /\ req[t] = sent /\ sent > keyAt /\ rowAt[s] = sent
        /\ UNCHANGED <<sent, keyAt, cachedAt, rowAt, conflicts>>
    BY <1>1, <1>s DEF SymbolStored, Numbers, Inside, history, Progress
  <1>3. sent \in Nat /\ keyAt \in Nat /\ \A r \in Symbols : listAt[r] =< sent /\ rowAt[r] =< sent
    BY DEF TypeOK, Numbers
  <1>4. /\ \A r \in Symbols \ {s} : copies'[r] = copies[r] /\ listAt'[r] = listAt[r]
        /\ \/ copies[s] = 0 /\ copies'[s] = 1 /\ listAt'[s] = sent
           \/ copies[s] # 0 /\ copies'[s] = copies[s] /\ listAt'[s] = listAt[s]
    BY <1>1, <1>2, <1>s DEF SymbolStored, TypeOK
  <1>5. \A r \in Symbols : Agrees(r) /\ (r # s /\ copies[r] = 0 => rowAt[r] = 0)
    BY <1>1, <1>s DEF Progress
  <1>6. AllAgree'
    <2>1. \A r \in Symbols \ {s} : Agrees(r)' /\ (copies'[r] = 0 => rowAt'[r] = 0)
      BY <1>2, <1>4, <1>5 DEF Agrees
    <2>2. Agrees(s)' /\ copies'[s] # 0
      BY <1>1, <1>2, <1>3, <1>4, <1>5 DEF Agrees
    <2> QED
      BY <2>1, <2>2 DEF AllAgree
  <1>7. Progress(t)'
    BY <1>1 DEF Progress
  <1>8. RowsOfCurrentKey'
    BY <1>1, <1>2, <1>3, <1>4 DEF RowsOfCurrentKey
  <1>9. TimeBehindRows'
    BY <1>2 DEF TimeBehindRows
  <1>10. \A r \in Symbols : listAt'[r] =< sent' /\ rowAt'[r] =< sent'
    BY <1>2, <1>3, <1>4
  <1>11. \A u \in Threads \ {t} : pc'[u] = pc[u] /\ match'[u] = match[u] /\ req'[u] = req[u]
    BY Moves DEF Holding
  <1> QED
    BY <1>1, <1>2, <1>6, <1>7, <1>8, <1>9, <1>10, <1>11, Alone DEF Numbers, Inside

(* A request goes out: who sends it takes the lock, and nothing changes     *)
(* that readers see.                                                        *)
LEMMA SendStep ==
  ASSUME IInv, TypeOK', LockInv', Known', Dated', NEW t \in Threads, BulkSends(t) \/ SymbolSends(t)
  PROVE  IInv'
  <1> USE DEF IInv
  <1>1. /\ lock = Nobody /\ lock' = t /\ pc'[t] \in {"bulk", "symbol"}
        /\ sent' = sent + 1 /\ req'[t] = sent' /\ UNCHANGED <<keyAt, cache>>
    BY DEF BulkSends, SymbolSends, Go, Acquire, Send, TypeOK
  <1>2. sent \in Nat /\ keyAt \in Nat /\ keyAt =< sent /\ cachedAt \in Nat /\ cachedAt =< sent
    BY DEF TypeOK, Numbers
  <1>3. \A s \in Symbols : listAt[s] \in Nat /\ rowAt[s] \in Nat /\ listAt[s] =< sent /\ rowAt[s] =< sent
    BY DEF TypeOK, Numbers
  <1>4. keyAt' =< sent' /\ cachedAt' =< sent' /\ \A s \in Symbols : listAt'[s] =< sent' /\ rowAt'[s] =< sent'
    BY <1>1, <1>2, <1>3 DEF cache
  <1>5. AllAgree'
    BY <1>1 DEF AllAgree, Agrees, cache
  <1>6. Progress(t)'
    BY <1>1, <1>5 DEF Progress
  <1>7. RowsOfCurrentKey' /\ TimeBehindRows'
    BY <1>1 DEF RowsOfCurrentKey, TimeBehindRows, cache
  <1>8. \A u \in Threads \ {t} : pc'[u] = pc[u] /\ match'[u] = match[u] /\ req'[u] = req[u]
    BY Moves DEF Fetching
  <1> QED
    BY <1>1, <1>2, <1>4, <1>5, <1>6, <1>7, <1>8, Alone

(* A request fails: what was cached stays, and it still agrees.             *)
LEMMA FailStep ==
  ASSUME IInv, TypeOK', LockInv', Known', Dated', NEW t \in Threads,
         BulkFails(t) \/ SymbolFails(t) \/ SymbolRaises(t)
  PROVE  IInv'
  <1> USE DEF IInv
  <1>1. /\ lock = t /\ pc[t] \in {"bulk", "symbol"} /\ pc'[t] \notin Inside
        /\ UNCHANGED <<cache, history>>
    BY DEF BulkFails, SymbolFails, SymbolRaises, Go, LockInv, Inside, TypeOK
  <1>2. AllAgree'
    BY <1>1 DEF Progress, AllAgree, Agrees, cache
  <1>3. Progress(t)'
    BY <1>1 DEF Progress, Inside
  <1>4. /\ keyAt' =< sent' /\ cachedAt' =< sent'
        /\ \A s \in Symbols : listAt'[s] =< sent' /\ rowAt'[s] =< sent'
    BY <1>1 DEF Numbers, cache, history
  <1>5. RowsOfCurrentKey' /\ TimeBehindRows'
    BY <1>1 DEF RowsOfCurrentKey, TimeBehindRows, cache, history
  <1>6. \A u \in Threads \ {t} : pc'[u] = pc[u] /\ match'[u] = match[u] /\ req'[u] = req[u]
    BY Moves DEF Holding
  <1> QED
    BY <1>1, <1>2, <1>3, <1>4, <1>5, <1>6, Alone

(* The conflicts of a new answer: from here to the list they stand alone.   *)
LEMMA ConflictsStep ==
  ASSUME IInv, TypeOK', LockInv', Known', Dated', NEW t \in Threads, BulkAnswers(t)
  PROVE  IInv'
  <1> USE DEF IInv
  <1>1. /\ lock = t /\ lock' = t /\ pc[t] = "bulk" /\ pc'[t] = "list" /\ req'[t] = req[t]
        /\ UNCHANGED <<copies, listAt, rowAt, cachedAt, sent, keyAt>>
    BY DEF BulkAnswers, Go, LockInv, Inside, TypeOK, locals, history
  <1>2. req'[t] = sent' /\ sent' > keyAt'
    BY <1>1 DEF Numbers, Inside
  <1>3. Progress(t)'
    BY <1>1 DEF Progress
  <1>4. /\ keyAt' =< sent' /\ cachedAt' =< sent'
        /\ \A s \in Symbols : listAt'[s] =< sent' /\ rowAt'[s] =< sent'
    BY <1>1 DEF Numbers
  <1>5. RowsOfCurrentKey' /\ TimeBehindRows'
    BY <1>1 DEF RowsOfCurrentKey, TimeBehindRows
  <1>6. \A u \in Threads \ {t} : pc'[u] = pc[u] /\ match'[u] = match[u] /\ req'[u] = req[u]
    BY Moves DEF Holding
  <1> QED
    BY <1>1, <1>2, <1>3, <1>4, <1>5, <1>6, Alone, NobodyAssumption

(* The key is replaced in two steps; nothing is left in between but the     *)
(* conflicts, which the second one forgets.                                 *)
LEMMA KeyStep ==
  ASSUME IInv, TypeOK', LockInv', Known', Dated', NEW t \in Threads, ReplaceKey(t) \/ ForgetConflicts(t)
  PROVE  IInv'
  <1> USE DEF IInv
  <1>1. \A u \in Threads \ {t} : pc'[u] = pc[u] /\ match'[u] = match[u] /\ req'[u] = req[u]
    BY Moves DEF Fetching, Holding
  <1>2. sent \in Nat /\ keyAt \in Nat /\ cachedAt \in Nat
    BY DEF TypeOK
  <1>3. CASE ReplaceKey(t)
    <2>1. /\ lock = Nobody /\ lock' = t /\ pc'[t] = "newkey"
          /\ sent' = sent /\ keyAt' = sent /\ cachedAt' = 0
          /\ \A s \in Symbols : copies'[s] = 0 /\ listAt'[s] = 0 /\ rowAt'[s] = 0
      BY <1>3 DEF ReplaceKey, Go, Acquire, Empty, TypeOK
    <2>2. Progress(t)'
      BY <2>1 DEF Progress
    <2>3. RowsOfCurrentKey' /\ TimeBehindRows'
      BY <2>1 DEF RowsOfCurrentKey, TimeBehindRows
    <2>4. /\ keyAt' =< sent' /\ cachedAt' =< sent'
          /\ \A s \in Symbols : listAt'[s] =< sent' /\ rowAt'[s] =< sent'
      BY <1>2, <2>1
    <2> QED
      BY <1>1, <2>1, <2>2, <2>3, <2>4, Alone, NobodyAssumption
  <1>4. CASE ForgetConflicts(t)
    <2>1. /\ lock = t /\ pc[t] = "newkey" /\ pc'[t] = "idle" /\ conflicts' = {}
          /\ UNCHANGED <<copies, listAt, rowAt, cachedAt, sent, keyAt>>
      BY <1>4 DEF ForgetConflicts, Go, LockInv, Inside, TypeOK, history
    <2>2. \A s \in Symbols : copies[s] = 0 /\ rowAt[s] = 0
      BY <2>1 DEF Progress
    <2>3. AllAgree'
      BY <2>1, <2>2 DEF AllAgree, Agrees
    <2>4. Progress(t)'
      BY <2>1 DEF Progress
    <2>5. RowsOfCurrentKey' /\ TimeBehindRows'
      BY <2>1 DEF RowsOfCurrentKey, TimeBehindRows
    <2>6. /\ keyAt' =< sent' /\ cachedAt' =< sent'
          /\ \A s \in Symbols : listAt'[s] =< sent' /\ rowAt'[s] =< sent'
      BY <2>1 DEF Numbers
    <2> QED
      BY <1>1, <2>1, <2>3, <2>4, <2>5, <2>6, Alone DEF Inside
  <1> QED
    BY <1>3, <1>4

LEMMA InvStep == IInv /\ [Next]_vars => IInv'
  <1> SUFFICES ASSUME IInv, [Next]_vars PROVE IInv'
    OBVIOUS
  <1>1. TypeOK' /\ LockInv' /\ Known' /\ Dated'
    BY TypeStep, LockStep, KnownStep, DatedStep DEF IInv
  <1>2. CASE UNCHANGED vars
    BY <1>2 DEF vars, cache, history, locals, IInv, TypeOK, LockInv, Known, Dated, reading, Numbers, AllAgree,
                Agrees, Progress, RowsOfCurrentKey, TimeBehindRows
  <1>3. ASSUME NEW t \in Threads, Holding(t) PROVE IInv'
    BY <1>1, <1>3, FailStep, ConflictsStep, ListStep, RowsStep, StampStep, KeyStep, AnswerStep,
       StoreStep DEF Holding
  <1>4. ASSUME NEW t \in Threads, Fetching(t) PROVE IInv'
    <2>1. CASE BulkSends(t) \/ SymbolSends(t)
      BY <1>1, <2>1, SendStep
    <2>2. CASE ReplaceKey(t)
      BY <1>1, <2>2, KeyStep
    <2>3. CASE \/ RecoverFails(t) \/ EnsureBegins(t) \/ EnsureEnds(t) \/ SymbolCached(t)
               \/ \E s \in Symbols : EnsureNext(t, s)
      <3>1. UNCHANGED <<lock, cache, history>> /\ pc'[t] \notin Inside
        BY <2>3 DEF RecoverFails, EnsureBegins, EnsureEnds, SymbolCached, EnsureNext,
                    Go, Inside, IInv, TypeOK
      <3> QED
        BY <1>1, <1>4, <3>1, Moves, Looks DEF IInv
    <2> QED
      BY <1>4, <2>1, <2>2, <2>3 DEF Fetching
  <1>5. ASSUME NEW t \in Threads, Reading(t) PROVE IInv'
    <2>1. UNCHANGED <<lock, cache, history>> /\ pc'[t] \notin Inside
      BY <1>5 DEF Reading, FindsRow, Misses, MissesAgain, LabelsRow, LooksUp, Go, Inside, IInv, TypeOK
    <2> QED
      BY <1>1, <1>5, <2>1, Moves, Looks DEF IInv
  <1> QED
    BY <1>2, <1>3, <1>4, <1>5 DEF Next

LEMMA Inductive == Spec => []IInv
  BY InitIInv, InvStep, PTL DEF Spec
-----------------------------------------------------------------------------
(* The cache, its history and the threads' locals keep their types.         *)
THEOREM CacheTypes == Spec => []TypeOK
  <1>1. IInv => TypeOK
    BY DEF IInv
  <1> QED
    BY <1>1, Inductive, PTL

(* set_api_key: once a key is replaced, no row fetched with an earlier one  *)
(* is cached again, although requests and keys come from many threads.      *)
THEOREM OnlyCurrentKey == Spec => []RowsOfCurrentKey
  <1>1. IInv => RowsOfCurrentKey
    BY DEF IInv
  <1> QED
    BY <1>1, Inductive, PTL

(* refresh_symbol dates a row with a time newer than its request only when  *)
(* a fetch completed between its two unlocked reads, and then the row it    *)
(* holds has been replaced.                                                 *)
THEOREM LabelIsSafe == Spec => []LabelNewerOnlyIfOvertaken
  <1>1. IInv => LabelNewerOnlyIfOvertaken
    <2> SUFFICES ASSUME IInv, NEW t \in Threads, pc[t] = "found", cachedAt > held[t]
                 PROVE  heldAt[t] < cachedAt /\ rowAt[symbol[t]] # held[t]
      BY DEF LabelNewerOnlyIfOvertaken
    <2>1. held[t] \in Nat /\ heldAt[t] \in Nat /\ cachedAt \in Nat
      BY DEF IInv, TypeOK
    <2>2. symbol[t] \in Symbols /\ held[t] # 0 /\ heldAt[t] =< held[t]
      BY DEF IInv, Known, Dated
    <2> QED
      BY <2>1, <2>2 DEF IInv, TimeBehindRows
  <1> QED
    BY <1>1, Inductive, PTL

(* fetch_screener, fetch_symbol and set_api_key each leave the list, the    *)
(* lookup and the conflicts in agreement.                                   *)
THEOREM StructuresAgree == Spec => []LookupsAgree
  <1>1. IInv => LookupsAgree
    BY DEF IInv, AllAgree, Agrees, LookupsAgree
  <1> QED
    BY <1>1, Inductive, PTL

(* No answer replaces a later one's rows, and no failure takes the last     *)
(* good rows away, until the key is replaced.                               *)
THEOREM LastGoodIsKept == Spec => LastGoodKept
  <1> DEFINE Kept == keyAt' = keyAt /\ keys' = keys =>
                       /\ cachedAt' >= cachedAt
                       /\ \A s \in Symbols : rowAt'[s] # 0 => rowAt'[s] >= rowAt[s]
                       /\ copies # Empty => copies' # Empty
  <1>1. IInv /\ [Next]_vars => Kept
    <2> SUFFICES ASSUME IInv, [Next]_vars, keys' = keys PROVE Kept
      OBVIOUS
    <2>0. /\ cachedAt \in Nat /\ sent \in Nat /\ keys \in Nat
          /\ cachedAt =< sent
          /\ \A s \in Symbols : rowAt[s] \in Nat /\ rowAt[s] =< sent
          /\ copies \in [Symbols -> 0..2]
      BY DEF IInv, TypeOK, Numbers
    <2>1. CASE UNCHANGED <<copies, rowAt, cachedAt>>
      BY <2>0, <2>1
    <2>2. ASSUME NEW t \in Threads, InstallList(t) PROVE Kept
      BY <2>0, <2>2 DEF InstallList, Answers
    <2>3. ASSUME NEW t \in Threads, InstallRows(t) \/ InstallStamp(t) PROVE Kept
      <3>1. req[t] = sent
        BY <2>3 DEF InstallRows, InstallStamp, Go, Inside, IInv, Numbers
      <3> QED
        BY <2>0, <2>3, <3>1 DEF InstallRows, InstallStamp
    <2>4. ASSUME NEW t \in Threads, SymbolAnswers(t) PROVE Kept
      <3>1. req[t] = sent
        BY <2>4 DEF SymbolAnswers, Go, Inside, IInv, Numbers
      <3>2. PICK s \in Symbols : rowAt' = [rowAt EXCEPT ![s] = sent]
        BY <2>4, <3>1 DEF SymbolAnswers
      <3>3. \A r \in Symbols : rowAt'[r] >= rowAt[r]
        BY <2>0, <3>2 DEF IInv, TypeOK
      <3> QED
        BY <2>0, <2>4, <3>3 DEF SymbolAnswers
    <2>5. ASSUME NEW t \in Threads, SymbolStored(t) PROVE Kept
      <3>1. \A s \in Symbols : copies[s] # 0 => copies'[s] # 0
        BY <2>0, <2>5 DEF SymbolStored
      <3>2. copies # Empty => copies' # Empty
        BY <2>0, <3>1 DEF Empty
      <3> QED
        BY <2>0, <2>5, <3>2 DEF SymbolStored
    <2>6. ASSUME NEW t \in Threads, ReplaceKey(t) PROVE Kept
      BY <2>0, <2>6 DEF ReplaceKey
    <2>7. CASE UNCHANGED vars
      BY <2>1, <2>7 DEF vars, cache
    <2>8. ASSUME NEW t \in Threads,
                 \/ BulkFails(t) \/ BulkAnswers(t) \/ ForgetConflicts(t) \/ SymbolFails(t)
                 \/ SymbolRaises(t) \/ BulkSends(t) \/ RecoverFails(t) \/ EnsureBegins(t)
                 \/ EnsureEnds(t) \/ SymbolCached(t) \/ SymbolSends(t) \/ Reading(t)
                 \/ \E s \in Symbols : EnsureNext(t, s)
          PROVE  Kept
      BY <2>1, <2>8 DEF BulkFails, BulkAnswers, ForgetConflicts, SymbolFails, SymbolRaises,
         BulkSends, RecoverFails, EnsureBegins, EnsureEnds, SymbolCached, SymbolSends,
         EnsureNext, Reading, FindsRow, Misses, MissesAgain, LabelsRow, LooksUp, cache
    <2> QED
      BY <2>2, <2>3, <2>4, <2>5, <2>6, <2>7, <2>8 DEF Next, Holding, Fetching
  <1> QED
    BY <1>1, Inductive, PTL DEF Spec, LastGoodKept
=============================================================================
