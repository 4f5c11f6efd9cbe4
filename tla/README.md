# A TLA+ model of the current-data screener

This project models the part of the repository that runs: the *current screen* of
`short-squeeze-core/apps/research_screener`, a threaded Python application that finds
candidates with a broker's scanner and a web screener, refreshes them under a request
budget, evaluates rules over them and serves the result over HTTP. The rest of the
repository is a library of pure computations over records (`src/squeeze_core`), its data,
reports and tests, and a deployment copy of the same sources.

All paths below are relative to `src/short-squeeze-core/`; `app/` is
`apps/research_screener/`.

## 1. The system

| Component | State | Operations | Talks to |
|---|---|---|---|
| IBKR live provider, `app/provider_session.py`, `tools/ibkr_historical_export/collector.py` | session object, connection result, pacing ledger, statuses; one re-entrant lock | `ensure_connected`, `close`, `run_discovery`, `collect_symbol`, `historical_budget_remaining` | the gateway, through a session object |
| IBKR session, `app/ibkr_session.py`, `tools/ibkr_historical_export/session.py` | tables of requests, ticks, bars, events; reader thread | requests that wait with a timeout; callbacks | the broker's client library |
| Candidate store, `app/session_state.py` | `states`: symbol to `CandidateState` (collection, evaluation, stale, history, transitions); one lock | `refresh_discovery`, `add_manual_symbols`, `clear`, `refresh_symbol`, `refresh_all`, `rows` | provider, external providers, evaluation |
| Auto-refresh and bootstrap, `app/session_state.py`, `app/__main__.py` | `auto_refresh`, `_stop`, `_thread`, `_last_scan_ts` | `start_auto_refresh`, `stop_auto_refresh`, `_loop`, `_bootstrap_live_data` | candidate store, collectors |
| Refresh scheduling, `app/squeeze_priority.py` | none of its own; scores from states and rows | `rank_symbols_for_refresh`, `compute_symbols_per_cycle` | candidate store, provider budget |
| Causal state, `app/causal_intelligence.py` | `last_causal_state`, `causal_transitions` of a candidate | classification with hysteresis, recorded while a row is rendered | candidate store |
| Collectors, `app/collectors/`, `app/collector_session.py` | scheduler thread, evidence store | `start`, `stop`, `_tick`, `merge` | candidate store (universe, gaps) |
| External providers, `app/live_providers.py`, `app/finviz_live.py`, `app/news_live.py`, ... | caches with times, conflict tables, locks | `refresh_all`, `fetch_screener`, `get_row` | web services |
| HTTP server, `app/server.py`, `app/snapshot.py` | rate table, token | one thread per request | everything above |
| Frozen research, demo, logger, exports, profiles, interface | files | read or append | nothing that changes state |
| `src/squeeze_core`, `app/methodologies`, `app/current_eval.py` | none | pure functions | called by evaluation |

The threads are: one per HTTP request, the bootstrap, the auto-refresh loop, a background
thread per "refresh all providers" request, the collector scheduler, and one reader thread
per broker session. They meet at three places: the provider's lock, the session's lock, and
the loop's switch.

What is hard, and what should hold all the same:

- **Provider.** A call is several locked regions. Between the pacing check, the connection
  check and the conversation any other thread may run; the socket may drop at any time.
  Conversations must exclude each other, no socket may be left up, the lock must come back
  (unless the gateway never answers a handshake, which has no timeout), a refusal must be justified, and the window may not hold more requests than can be
  accounted for.
- **Candidate store.** A pass looks up an object, lets the lock go for as long as the
  provider takes (up to half a minute), and commits to that object. Discovery and clear run
  in between. What has left must stay gone, failures must not erase a usable snapshot, what
  is shown as current must be of one piece, and the history must tell one story.
- **Discovery.** Who stays on the screen depends on sequences of scans, empty scans and
  manual additions, through a label that the scans themselves rewrite.
- **Auto-refresh.** `stop` takes no lock and `start` does; both make several writes. There
  must be one loop at most, it must survive what a cycle raises, and end when stopped.
- **Scheduling.** A cycle takes the best of a ranking, as many as the budget allows, while
  users spend the same budget. Failed candidates rise in the ranking. Nobody must be left
  behind, and growing the slice must not starve a later cycle.
- **Causal state.** Every thread that renders a row judges it, holds the judgement back by
  hysteresis and records it, without a lock. Overlaps may write old states over new ones; the
  record must stay bounded and lasting evidence must come to be shown.
- **Finviz.** A fetch replaces two lookup structures, a conflict table and a time in several
  writes; readers look without the lock, single-symbol fetches add to the same structures,
  and the key may be replaced while requests are out.
- **Callbacks.** Answers arrive on the reader thread, in tables that another thread waits on
  with a timeout, and keep arriving after the timeout.
- **Collectors, HTTP rate table**: see the plan.

`PROJECT.json` lists every hazard at its line, with the properties that cover it or the
reason why none does yet.

## 2. The modules

### `LiveProvider` and `RateBudget`

`LiveProvider` has one action per locked region of a call. `owner` is the thread that holds
the lock *over a wait*; a region without a wait is one action guarded by `LockFree`.

| Action | Code |
|---|---|
| `BeginCollect` | the pacing check that opens `collect_symbol` |
| `BeginScan` | entry of `run_discovery` and `scanner_parameters_available` |
| `EnsureConnected` | `ensure_connected`: keep a live session, else `close()` and probe |
| `ProbeOpens`, `HandshakeEnds`, `ProbeReady`, `ProbeRejects`, `ProbeRaises`, `ProbeFails` | `probe_and_connect`, `connect_configured` |
| `OpenConversation` | the second lock: `self._session` read anew |
| `ContractUnresolved`, `SendHistorical`, `HistoricalReturns`, `QuoteReturns`, `ScanReturns` | the conversation, one action per wait |
| `Close` | `close()` from outside |
| `SocketDrops`, `Tick` | the gateway, and time |

`open` holds the session objects connected and not shut down, `live` those for which
`is_live()` is true. The two differ: a disconnect code makes a session not live while its
socket is up, and then it may still answer. `requestTimes` is the code's ledger, `sent` the
history of all requests. `reconnect_using_result` needs no action of its own: the code calls
`close()`, which drops `_connection`, before every probe, so that branch of
`ensure_connected` is never taken. `session.connect` opens the socket and exchanges the API
versions with the gateway, under the provider's lock and without a timeout: a thread that is
at `handshake` leaves it by `HandshakeEnds`, or never does.

`RateBudget` is the abstract promise: a request is granted only while fewer than `Capacity`
requests lie in the rolling window. `LiveProvider` implements it with
`Capacity = MaxRequests + Cardinality(Threads) - 1` (property `PacesRequests`).

### `ScreenerSession` and `MCScreenerSession`

`states` maps symbols to *objects*, `info` gives the fields of each object, because a pass
holds an object and not a symbol. A pass is numbered by the collection it made: the number
stands for the collection and its `snapshot_at`, which the code always assigns together, and
`evaluation` is the number of the collection that was evaluated. One rule outcome stands for
the outcomes of all rules, `DISCOVERED` for the labels that a scan and Finviz give.

`DiscoveryEmpty` and `DiscoveryFinds` are the locked end of `refresh_discovery`: scan and
fetch run unlocked, so what they bring is any two sets of symbols, and `Trimmed` leaves the
scores open and keeps the cap. The code asks for rows of Finviz before it drops the unusable
ones, so `DiscoveryFinds` is also taken with nothing usable found, and empties the scanned
part of the screen. `AddManual` and `Clear` are the handlers. A pass is `LookUp`,
`Collect`, then one of `CommitFailed`, `CommitUnevaluated`, `CommitEvaluated` and
`CommitUnrecorded`. `CommitEvaluated` includes `_record_transitions` and `_record_history`;
in `CommitUnrecorded` the latter raises, because the row it renders for the history point is
asked of Finviz: all that was written before stays, the fresh mark included, and the point is
missing. `refresh_all` is a sequence of passes
of a worker over symbols of its choosing.

`leaves`, `began` and the field `since` are history: how often a symbol left the screen, and
how often it had when a pass looked it up. `asked` holds the symbols the user added and has
not cleared.

`MCScreenerSession` adds the symmetry of objects and workers and the view `Reachable`. The
view leaves out the fields of an object that nothing refers to: no action reads them, since
`NewState` overwrites them when the object is used again. Both are used in runs of safety
properties only.

### `RefreshLoop`

`start_auto_refresh` is one action per write, inside `lock`: `Enter` (is the thread alive?),
then `LeaveRunning`, or `ClearEvent`, `SwitchOn`, `Spawn`. `stop_auto_refresh` is `SwitchOff`,
`SetEvent`, `Collectors`, without the lock. A loop thread goes through `Top` (the `while`
condition), `Discover` if a scan is due, `Refresh`, `Wait`. The bootstrap (`Boot`) refreshes
`WarmCycles` times at most, then starts. Handlers call start, stop and refresh at any time,
also while the bootstrap warms, because the server is up before it. Whether a scan is due,
and what a cycle raises, is left open. The bootstrap's own discovery comes before the initial
state; it touches none of these variables.

### `RefreshSchedule`

The warm cycles of `_bootstrap_live_data` and then one cycle of `_loop` after the other, with
`refresh_all` inside. The initial state is the beginning of the first warm cycle; `WarmsAgain`
begins the next without a pause, so that all of them charge the same part of the window, and
`LoopStarts` hands over. A cycle of the loop is `Wait` (the pause; time moves by one cycle),
`Scan` or `NoScan`, `Rank` (the ranking of `squeeze_priority.py` and the
slice of `compute_symbols_per_cycle`), then one of five outcomes per candidate of the slice:
`Refused` by the budget, `Unanswered`, `Unevaluable`, `Refreshed`, or `HistoryRaises`, which
ends the slice. `RankRaises` ends a cycle before it begins. `UserAsks` puts a user's refresh,
of the usual slice or of everything, between two cycles.

A score is what the candidate's rendered row is worth (any of its `Worths` each time it is
rendered), a discovery bonus while it is not evaluated (one of its `Bonuses`: a quarter of its
own discovery score, which is 0 for one added by hand), and the terms for being stale and for
age; `AgeTerm` keeps the cap that the code puts on age. `others` records the cycles in which a
user or the bootstrap refreshed. Time is counted in cycles, the budget per cycle of the window (`spent`);
`Charges` adds it up, cycle by cycle back from this one. An age is counted up to `Oldest`,
from where it adds the cap (`OldestIsOldEnough` is the theorem that this loses nothing).
`trouble` is history: something other than the budget failed in this cycle. The code's comment
computes the sweep for a cadence of 30 s, while the default cadence is 15 s; `AgePerCycle`
stands for either. `MCRefreshSchedule` gives three candidates their worths and bonuses: one
found by the broker's scan, one also by Finviz, one added by hand.

### `FinvizCache`

The client of `finviz_live.py`. Requests are numbered as they are sent, and every row, list
and time is told by the request that brought it. `copies` and `listAt` are the list
(`_cache`), `rowAt` the lookup by symbol, `conflicts` the symbols with more than one row,
`cachedAt` the time, `stamped` the single-symbol stamps. A bulk fetch is `BulkSends`, then
`BulkFails` or `BulkAnswers`, and the writes of an answer in the order of the code; a single
fetch is `SymbolCached` or `SymbolSends` and what follows. `ReplaceKey` is `set_api_key` as
the recovery after a rejected key calls it. The readers take no lock: `LooksUp`, then
`FindsRow` or `Misses`, which goes on to a single fetch and looks again (`MissesAgain`, or
`FindsRow`). What they do with the row is part of them: `LabelsRow` is the caller's later read
of `cached_at`, which dates the row it holds (`session_state.py:1301`, then `1303`). `held` is
the row a reader holds, `heldAt`, which is history, the time of the cache when it took it.

### `CausalEvaluator`, `CausalState` and `MCCausalState`

`CausalEvaluator` holds the pure part as operators: the fuel proxies of `fuel.py`, the
cascade of `evaluator.py` that turns evidence into one of eight states, and the hysteresis of
`hysteresis.py`. Scores are whole tenths, as the code rounds them. `POST_SQUEEZE` has a rank
and is never produced; a candidate of the live screen carries no rules to the evaluation, so
it is never `VULNERABLE` (both are theorems).

`CausalState` is one candidate whose row several threads render: `Render` reads the state,
`Judge` its time and the hysteresis, `Call` the snapshot's time, and
`_record_causal_transition` is one action per read or write (`Same` or `Differs`, then
`Initial` or `Append`, `Trim`, `Write`, `Stamp`). Times are ages that stop at `Cooldown`. The
time a state is recorded with is that of the snapshot, as in the code, and not that of the
change. `MCCausalState` chooses four rows that make hysteresis act in every way it can.

### `IbkrSession` and `MCIbkrSession`

One gateway session below `LiveProvider`: the requesting thread (`Register` the event and the
tables, `Send`, `Woken` or `TimeOut`, `Cancel` for what streams, `Collect`), the reader thread
(`TakeItem`, `TakeEnd`, and `error()` in the four steps its locks and events make:
`TakeError`, `Wake`, `RecordInSlot`, `WakeStream`), and the gateway. The gateway may send an
error that the code takes for the end of the request and go on sending, as it does when it
falls back to delayed data. `Replace` is what `ensure_connected` does with a session that is
not live. An item is the number of the request the gateway sent it for, so that a table shows
whose items it holds. `MCIbkrSession` adds a view without the tables of requests that have
returned: they are written and never read. A request on a socket that is down is refused by
the client library itself, which reports error 504 at once.

### Proof modules

Each module of a component has its theorems in a module of its own (`LiveProvider_proofs`,
`ScreenerSession_proofs`, `RefreshLoop_proofs`, `RefreshSchedule_proofs`,
`FinvizCache_proofs`, `IbkrSession_proofs`, `CausalEvaluator_proofs`, `CausalState_proofs`):
see section 5.

## 3. What is model-checked

| Run | Instance | Shows |
|---|---|---|
| `provider` | 2 threads, 2 session objects, 2 requests per window of 1 tick, clock to 2, 2 sockets per probe | types, `PruneLosesNothing`, `OvershootBounded`, `SingleConversation`, `NoSocketLeak`, `RefusedOnlyWhenFull`, `LockReleased`, refinement of `RateBudget` |
| `provider_exceeded` | the same | `NeverExceeded` is violated (finding 1) |
| `screener` | 1 symbol, 2 workers, 3 objects, 2 outcomes, history of 2, 4 passes, 1 departure | types, `NothingSurvivesLeaving`, `FreshIsConsistent`, `TransitionsChain`, `HistoryRetained`, `RetainsUsable` |
| `discovery` | 3 symbols, cap 2, no workers, 2 departures per symbol | `ScreenBounded`, `ScanFlagAgrees`, `ManualLeavesByClear` |
| `manual_kept` | 2 symbols, cap 1 | `ManualAlwaysKept` is violated (finding 2) |
| `refresh_loop` | 2 handlers, the bootstrap with 2 warm cycles, 5 calls | types, `OneLoop`, `OffMeansStopping`, `LoopNeverDies`, `StopEndsLoop`, `KeepsCycling` |
| `reported_on` | 1 handler, 2 calls | `OnMeansRunning` is violated (finding 3) |
| `refresh_schedule` | 3 candidates, slices of 1 to 2, 2 warm cycles, 4 requests in a window of 2 cycles, worths from 125 to 160 | types, `SweptWhenHealthy`, `RefusedOnlyBesideOthers` |
| `round_robin` | the same with 2 requests and one worth | `RoundRobin` is violated (finding 4) |
| `finviz_cache` | 2 threads, 2 symbols, 3 requests, 1 change of key | types, `RowsOfCurrentKey`, `LabelNewerOnlyIfOvertaken`, `LookupsAgree`, `LastGoodKept` |
| `causal_state` | 2 threads, 4 rows, cooldown of 1, history of 1 | types, `TrailBounded`, `EvidenceShown` |
| `ibkr_session` | 2 requests of any kind, 2 items each, 1 error, 2 messages under way | types, `CompleteMeansAll`, `OwnItemsOnly`, `NeverLeftStreaming`, `AnswerWakes`, `RequestsEnd` |

**Bounds, and why they are enough.** `provider`: two threads are enough for the race on the
last slot and for a close between two regions, two objects for a replaced session beside a
probed one, and a window of one tick within a clock of two lets requests leave the window
while others stay. `screener`: with one departure the symbol can leave and come back as
another object while a late pass is under way; two workers overlap on one object or on
two, and four passes with a limit of two make the transitions be cut meanwhile. Three objects
are never all taken but by the one on the screen and two held by workers. One symbol is
enough because symbols meet only in discovery (the `discovery` run), and every property of the
run is proved for any number of them. `discovery`: three symbols and a cap of
two are the smallest screen that is trimmed and holds a manual symbol beside the scanned
ones. `refresh_loop`: five calls are two full starts and stops of the handlers around the
bootstrap's start; `MaxThreads` is never the limit there. `refresh_schedule`: three candidates
and slices of one or two leave somebody out of every cycle; four requests in two cycles are
just what the largest slices use, so that a user's refresh takes them from the loop. Two
warm cycles, the second of which begins without a pause, take the whole window at once. The
worths lie at most 35 apart, and with the 80 of a stale candidate that is less than age can
make up for (120): that is `InReach`, the condition in `SweptWhenHealthy` itself, together
with a turn of the others that keeps them fresh by age. It is not what the live screen
guarantees. The class term alone spans 250 in steps of 25, and pressure, ignition and the
Finviz term add to it. Rows more than 40 apart are out of reach of each other, and of the
lower one nothing is claimed: with worths of 125 and 250, for instance, TLC finds the lower
one left behind for good. Nor is anything claimed of a candidate before its first pass, which
has no age: one that was added by hand has no bonus either, and in this very run there are
behaviours in which it never gets its turn though nothing fails. `finviz_cache`: three requests are a fetch out
with the old key, one with the new, and a single-symbol fetch between. `causal_state`: one
tick of cooldown tells held from not held, and a history of one makes every second record trim.
`ibkr_session`: two requests let the late messages of a timed-out one meet the next, two items
tell a part from the whole, and one error falls anywhere between them.

The bounds `MaxClock`, `MaxAttempts`, `MaxPass`, `MaxLeaves`, `MaxCalls`, `MaxThreads`,
`MaxRequests` (of `FinvizCache` and `IbkrSession`), `MaxKeys`, `MaxItems`, `MaxErrors`,
`MaxWire` and one user's refresh per cycle appear as guards and are named as bounds where they
are declared. The runs of `RefreshLoop`, `FinvizCache` and `IbkrSession` do without the
deadlock check: with the calls or the requests used up, nothing is left to do. In the other
modules something can always happen (a call, a scan, the next cycle).

**Fairness, and why the code justifies it.** `LiveProvider`: weak fairness of each thread's
steps *while it holds the lock over a wait* with a timeout (`wait_ready`,
`CONTRACT_TIMEOUT_S`, `HISTORICAL_TIMEOUT_S`, `QUOTE_TIMEOUT_S`, `SCANNER_TIMEOUT_S`), and a
probe tries finitely many sockets. `session.connect` has none, so nothing is assumed of
`HandshakeEnds`, and `LockReleased` says that the lock comes back again and again *or* some
thread stays in a handshake for good. Nothing is assumed of threads that wait for the lock.
`RefreshLoop`: weak fairness of each loop thread, of each caller once it has entered a call,
and of the stop: their waits are timeouts too, but for that handshake, which is taken to end
here, and `start` holds the lock over no wait. No handler has to call anything.
`RefreshSchedule`: weak fairness of the cycles of the bootstrap and of the loop, whose pause
and whose calls time out, the handshake again taken to end; no user has to ask. `CausalState`: time passes, and each
rendering thread ends what it began, and begins again, since the page polls and the loop ranks
every candidate in every cycle. `EvidenceShown` assumes besides, in its own statement, that
renderings come to stop overlapping; without that it fails. `IbkrSession`: weak fairness of
the requesting thread, each of whose waits has a timeout, and none of the reader or the
gateway. `ScreenerSession` and `FinvizCache` state safety only.

## 4. Findings

1. **The budget can be exceeded.** `collect_symbol` checks the budget in one locked region
   and charges it in another. Two threads that both see the last slot both send. The comment
   over the constants says "It is never quietly exceeded." By how much is bounded:
   at most one request per further thread (`OvershootBounded`), and not at all with one
   thread (`SingleCallerKeepsBudget`).
2. **Manual symbols are not always kept.** A scan that finds a manual symbol overwrites its
   label; the next scan that does not find it drops it. The docstring says "manual symbols
   are always kept". What does hold is `ManualLeavesByClear`: while it carries the manual
   label it stays.
3. **On may mean off.** Off and on again within one cycle finds the old thread alive, leaves
   the stop event set, and the thread ends: `auto_refresh` is true and nothing refreshes.
   The same comes of a stop that lands inside a start. The other direction is sound:
   `OffMeansStopping`.
4. **The refresh is not round-robin.** Candidates whose refresh keeps failing stay stale and
   keep ageing, so that the ranking puts them first in every cycle; with as many of them as a
   cycle takes, the others never have a turn. `session_state.py` and `docs/architecture.md`
   say round-robin. What does hold is `SweptWhenHealthy`, which is less: once nothing fails but
   for want of budget, a candidate that has had its first pass is fresh again and again,
   provided that no row is worth more than age can make up for.

Besides these, the comment over the default cadences (`session_state.py:40`) says that both
stay inside provider pacing. With 3 symbols in each of the 40 cycles of 15 s that a window has,
the loop asks for 120 requests where 60 are granted, and while the market is open the provider
refuses the rest; the next comment reckons with a cadence of 30 s.

The docstring of `session_state.py` (lines 10-11) says that a symbol which
leaves the scan is kept; the code drops it with its history, and a test of the repository
expects that, so it is the docstring that is out of date. `PROJECT.json` notes, as hazards
without a property, what reading the code for `IbkrSession` brought up: bars that came before
a timeout are taken for the whole window (`provider_session.py:486`), and the error code shown
to the user is always 0 because a tuple is unpacked in another order than it was packed
(`provider_session.py:465`, `502`).

## 5. What is proved

For all values of the constants allowed by the modules' assumptions (any finite number of
threads and symbols, any sets of sessions, objects and callers, any bounds), by TLAPS:

**`LiveProvider_proofs`.** `IInv` is `TypeOK` with `LockInv` (the lock's owner is exactly the
thread in a probe, its handshake included, or in a conversation, over the installed session), `SocketInv` (every open
socket is the session's or the candidate's, and only a prober has a candidate) and
`WindowInv`. The last is the one that has to be found: the bound on the window is not
inductive, because a thread past its check may still send. `WindowInv` counts those threads
(`Owing`) with the requests in the window. A check that succeeds re-establishes it from
scratch, as it saw fewer than `MaxRequests` and at most all threads owe; a charge moves one
from the owing to the window; time only lets requests leave. From it follow `TypeCorrect`,
`PruneIsLossless`, `WindowBounded`, `SingleCallerKeepsBudget`, `ConversationsExclude`,
`SocketsAccounted`, `RefusalsJustified` and the refinement `ImplementsRateBudget`.

**`ScreenerSession_proofs`.** `IInv` is `TypeOK` with `RecordsOK` (each object's record is
coherent and its transitions chain up to its outcome), `Numbered` (no pass number from the
future), `Tracking` (distinct symbols have distinct objects; an object that a worker holds and
that is on the screen has been there, under its symbol, since the lookup) and `NothingSurvivesLeaving`.
`Tracking` is what makes the last one inductive: a commit reaches the screen only through an
object that never left it. Theorems: `TypeCorrect`, `CurrentIsCoherent`, `StoriesChain`,
`LeavingIsFinal`, `ScreenStaysBounded`, and the step properties `UsableIsRetained`,
`HistoryIsRetained`, `ManualOnlyCleared`. `CurrentIsCoherent` is about the collection and the
evaluation of what is shown as current, and holds over every way in which a pass ends; it
says nothing of the history, which a pass that raised while recording leaves one point
short. `ScanFlagsAgree` rests on what a commit may write: it
keeps the profile and the flag that discovery gave the object, so that only a scan changes
them, and a scan changes those of all discovered symbols in one region.

**`RefreshLoop_proofs`.** The invariant ties each place inside `start` to the lock, says that
a caller past the check of `Enter` found no loop alive and none can appear while it holds the
lock, and that while the switch is off a loop, or one about to be spawned, has the event
set or a stop that is about to set it.
Theorems: `LoopTypes`, `AtMostOneLoop`, `OffIsOff`, `LoopOnlyStopped`.

**`RefreshSchedule_proofs`.** That a cycle of the loop is refused only beside users' refreshes
or the bootstrap's warm cycles is a claim about sums: the adaptive slice takes its share of what is left, in every cycle of the window,
and the cycles before it count too. `LeavesEnough` is the invariant: as far back as no
user and no bootstrap refreshed, what the last k cycles were charged, what this one may still take, and a plain slice
for each cycle that will share the window with them, stay within the budget. The
condition `Fits` (the plain slices of a window fit into the budget) is in the property
itself: the comment over `SYMBOLS_PER_CYCLE` relies on it (3 symbols in each of the 20 cycles
of a 30 s cadence are the 60 requests of the window). Nothing in the code enforces it, and with
the default cadence of 15 s it fails while the market is open (3 in each of 40 cycles): then
the loop runs out of budget by itself, and the property claims nothing. The totals of
`Charges` after one more request (`OneMoreCharge`) and after a new cycle (`CycleBegins`) are
shown by induction. The library's induction theorems cannot
be instantiated here, so induction is stated of sets of numbers (`LeastElement`, from
well-foundedness, and `Upwards`), which also shows that the recursive function is what it looks
like (`ChargesDefined`). Theorems: `ScheduleTypes`, `AdaptiveSliceIsSafe`,
`OldestIsOldEnough`.

Of the ranking it is shown that it orders the candidates totally (`RankingIsTotal`) and
therefore has a slice of any length to give (`SlicesExist`), so that no cycle is stuck there.
Three theorems say where `SweptWhenHealthy`, which only TLC checks, gets its force and where it
ends: who has waited long enough comes before everybody just refreshed whose row is worth
less than the cap on age more (`AgeMakesUpForWorth`); a row that is worth more than age and
staleness can add (120 and 80, where the class alone spans 250) stays ahead of a candidate for
good (`NoAgeMakesUpForMore`); and a candidate added by hand, which has no age before its first
pass and no discovery score, comes after every row that is worth as much and has aged
(`UntriedComesLast`).

**`FinvizCache_proofs`.** The owner of the lock is the one thread inside (`LockInv`), so the
request it waits on is the last one sent (`Numbers`): an answer is never older than what it
replaces, and it was sent with the present key. `Progress` says at each place inside how much
of an answer is in place; outside, the list, the lookup and the conflicts agree. What is shown
about readers without the lock needs this of every intermediate state: the rows are replaced
before the time that labels them moves on, never after, so that at each moment the time is
behind every row (`TimeBehindRows`) and a reader takes a row that is dated safely (`Dated`).
The label it gives the row is of a later moment, and may be newer than the row:
`LabelIsSafe` says that this takes a fetch which ends between the two reads, and that the row
is then no longer the cached one. Theorems: `CacheTypes`, `OnlyCurrentKey`,
`LabelIsSafe`, `StructuresAgree`, and the step property `LastGoodIsKept`.

**`IbkrSession_proofs`.** What the requesting thread finds depends on messages that the
reader thread has still to take, so the invariant has to speak of the wire. `Arrivals` says
that there is a function giving, for each message on the wire, how many items the request's
table will hold once that message is taken; that it is whole where the request's end comes;
and that it arrives at what the gateway has sent. Each step changes the function in one way
(`OneMore` when a message is sent, `OneLess` when one is taken, `FirstFew` when a dropped
socket cuts the wire). `Waking` says that once the gateway has ended the request, its event is
set, or a message that sets it is on the wire or in the reader's hands between two steps of
`error()`. `Recorded` (an error is in its table before it wakes anybody) is the order of
writes in `error()` on which a complete result depends; `Streaming` ties the gateway's streams
to the request under way. `Fresh` and `Numbered` say that ids are not reused: no late
message of an earlier request touches a later one's tables. The invariant of thirteen parts
was checked by TLC on 1.4 million states before it was proved. Theorems: `SessionTypes`,
`CompleteIsWhole`, `ItemsAreOwn`, `StreamsCancelled`, `NoLostWakeUp`.

**`CausalEvaluator_proofs`.** Facts about the pure operators, for every row whose fields have
the stated types: the cascade assigns one of the states it knows (`CascadeAssigns`), stronger
evidence never lowers a state (`StrongerNeverLower`), rows without rules are never
`VULNERABLE` (`NoRulesNeverVulnerable`), and hysteresis shows the state before or the state
proposed, a lower one only with cause (`HeldKeepsOrLowersForCause`).

**`CausalState_proofs`.** `TypeCorrect`, from what `Held` returns, and `TrailStaysBounded`. The
bound counts each thread's claim on the trail: a thread about to trim has one, and so has each
thread that met others at the very first record, which nothing trims. The invariant says how
the number of those threads and the length of the trail add up while no state is recorded yet.

**Only model-checked:** the liveness properties `LockReleased`, `StopEndsLoop`, `KeepsCycling`,
`SweptWhenHealthy`, `EvidenceShown` and `RequestsEnd`, whose proofs need fairness and thus
ENABLED, which is beyond the prover. Every invariant and every action property that a passing
run checks is also a theorem, and so is the refinement of `RateBudget`. The properties of the
other four runs are violated by the code (section 4).

## 6. What is not modelled

Contents of bars, quotes and rows, scores, texts and statuses are abstracted everywhere. Not
modelled as components: static tables (discovery profiles), read-only projections (frozen
research, demo data), append-only logs and exports, the browser interface, the one-shot
export command, configuration and credentials, the deployment copy. The pure computations of
`src/squeeze_core` and the methodologies appear as an arbitrary choice of outcome.

Parts of modelled components that are left out: the provider's call statuses; the ranking that
discovery and the display use; the market-hours cadence; mechanism labels, confidences and
explanations of the causal state; the news of Finviz, and the other providers' clients; the
steps inside the gateway handshake, `reconnect` (only the export command uses it), the current time and the
scanner parameters. The evidence collectors and the HTTP rate table are not modelled yet.

A property the code does not have and no document promises is not stated: that the newer of
two overlapping passes wins, that switching on again restarts the collectors, that a downgrade
is always held for the cooldown, or that a quote no longer changes once it is handed over.

## 7. Plan

Done: `LiveProvider`, `ScreenerSession`, `RefreshLoop`, `RefreshSchedule`, `FinvizCache`,
`CausalEvaluator`, `CausalState`, `IbkrSession`. Next, most important first:

1. `Collectors`: the scheduler's start and stop against `RefreshLoop`'s switch, its rate
   window, the evidence store's duplicates and expiry.
2. That `LiveProvider`'s conversation is what `IbkrSession` implements, and a composition of
   `ScreenerSession` with it: refused collections become stale candidates, never lost ones.
3. The HTTP rate table; the provider bundle over `FinvizCache`.
4. From `src/squeeze_core`: the tri-state rule logic and the replay order, as operators with
   theorems about them.
