# A formal model of the API gateway trade-off simulator

TLA+ modules, TLC configurations and TLAPS proofs for the rate-limiting
gateway (`src/gateway`, Go with Redis and PostgreSQL) and for its five
dashboards (`src/frontend`, TypeScript and React): the simulation runtime, the
policy sync, and what a page makes of the gateway's answers. The modules
are translated from the code; the documents are used only for what they
promise, which some runs compare with what the code does.

1. [Inventory](#1-inventory)
2. [Modules](#2-modules)
3. [Runs, bounds and what they show](#3-runs-bounds-and-what-they-show)
4. [Fairness](#4-fairness)
5. [Proofs](#5-proofs)
6. [Where code and documents disagree](#6-where-code-and-documents-disagree)
7. [Not modelled](#7-not-modelled)
8. [Order of the work](#8-order-of-the-work)

To repeat the checks, in this directory:

    tlc -config MCTokenBucket.cfg MCTokenBucket
    tlapm TokenBucket_proofs.tla

## 1. Inventory

### Gateway

| Component | Source | State | Operations |
|---|---|---|---|
| Token bucket | `limiter/token_bucket.go`, script in `runtime/redis_store.go` | hash `tokens`, `last_refill_ms` with a TTL, per policy and client | `Allow` |
| Leaky bucket | `limiter/leaky_bucket.go`, script | hash `water_level`, `last_leak_ms` with a TTL | `Allow` |
| Fixed window | `limiter/fixed_window.go` | one counter per aligned window, TTL set by a second call | `Allow` |
| Sliding log | `limiter/sliding_log.go`, script | sorted set of request tokens by time, TTL | `Allow` |
| Sliding window counter | `limiter/sliding_window_counter.go`, script | one counter per window, TTL, two of them read | `Allow` |
| Policy service | `policy/service.go` | rows of `rate_limit_policies`, the single row of `active_policy` | `Create`, `Update`, `Activate`, `Active`, `List`, `GetByID` |
| Request path | `simulate/service.go`, `httpapi/proxy_handlers.go` | none of its own | `Evaluate`: read active row, read policy row, limiter, then (proxy) forward |
| Runtime reset | `redis_store.go: ScanDelete` | the keys of a policy | SCAN and DEL, batch by batch |
| Schema | `db/migrate.go` | tables and indexes | `EnsureSchema` at start |
| Start and stop | `cmd/gateway/main.go` | | listen, shut down |

A request reads the gateway's clock once (`Evaluate`), and only then goes to
Redis: two PostgreSQL reads lie before the limiter, and several requests are
on their way at once. So scripts run in Redis in an order that is not the order
of their timestamps. The Redis client repeats calls whose reply is lost.
Every SQL statement is its own transaction; a management handler reads, then
writes, and other handlers run in between. `Activate` also walks the whole
keyspace of Redis between its read and its write, while requests create keys.

*Correct* means: no algorithm grants more than its parameters allow, however
calls are delayed, reordered, repeated or lost; deleting idle state by TTL
gives nothing away; the remaining budget and the wait that a client is told
are true; a request is judged under a policy that really was active, with
params that belong to its algorithm; a reset leaves no key from before it; and
every management request ends.

### Dashboards

| Component | Source | State | Operations |
|---|---|---|---|
| Simulation runtime | `hooks/simulationRuntime.ts`, `policySyncRuntime.ts`, five `use<Algorithm>Simulation.ts` | `statusRef`, `policySyncStatus`, `stopRequested`, `pauseRequested`, `inFlight` | start, pause, resume, stop, reload, unmount, the dispatch loop |
| Policy sync | `api/common.ts: syncDashboardPolicy` | none of its own | find, create or update, and activate the policy of a dashboard |
| API mapping | five `api/*Api.ts`, `api/common.ts` | none | from an answer of the gateway to an event with its issues; from a policy row to a snapshot and back |
| Events, KPIs, series | five hooks, `kpiBase.ts`, `types/*.ts` | event list with a cap | append, reset, derive |
| Components and pages | `components/`, `pages/`, `App.tsx` | which page is mounted | cards, chart, timeline, log, diagnostics, contract summary |

JavaScript runs one callback at a time: the interleavings are those of the
code between two `await`s. The hook reads refs before an `await` and acts on
them after it; its loops share one object of flags.

*Correct* means: the request rate and the number of unanswered requests stay
within the profile; the flags the loop reads agree with the state the buttons
act on; a session ends at its deadline, also when it is paused; nothing is sent
once the page is left; Start leaves form, page and gateway with the same
policy and takes over nobody else's; a session does not begin on a policy from
before its own write; every answer becomes one event, a denial is not an error
and an error not a denial; and what a page derives from its events, the marks on
its charts and the budget on its cards, is true of the gateway.

### What is hard

- clocks read before the call that uses them: late scripts, late windows, expiry;
- calls that are repeated after they have run, or fail half way (INCR without
  EXPIRE; keys deleted and the activation failing);
- rows read in one statement and used in another;
- a keyspace scan against concurrent writers;
- rounding, three times over: in the script, in Redis's conversion of a script's
  number, and in the gateway's division;
- callbacks that find the state of a session that has been replaced;
- a sync of seven calls with other pages and clients between any two of them,
  that goes on when its page is left;
- answers that overtake each other, come after a timeout or a reset of the view,
  or were given under another algorithm, in a list whose order is all that the
  charts go by.

`PROJECT.json` lists each of these, and the smaller ones, at its line with the
properties that would catch it going wrong.

## 2. Modules

    TokenBucket  <--implements--  LeakyBucket
    FixedWindow      SlidingLog      SlidingWindowCounter
    PolicyService  <--EXTENDS, implements--  Gateway
    PolicyService  <--EXTENDS, implements--  DashboardSync
    Dashboard
    JsonValues <- GatewayAnswers <- ApiCommon <- five *Page <- Pages <- EventLog

The five limiter modules are about one runtime key (for the windowed ones, all
counters of one policy and client). Keys of different clients or policies
never meet in the code, so one is enough. `Gateway` composes requests, handlers
and the reset, and lets a limiter give either answer: what it decides, and why,
is the matter of the limiter's module. `MC*.tla` hold the model values and the
small sets for TLC; `*_proofs.tla` hold the theorems of the module they are
named after, and `Policies_proofs.tla` those of `PolicyService`, `DashboardSync` and
`Gateway`, which share the rows.

### Clock and calls (all limiters)

`now` is the gateway's clock in scaled milliseconds, `SecondMs` ticks to a
second. `ReadClock` is `Evaluate` reading the clock; `Execute` is the script
running and its reply arriving; `ExecuteLost` is the script running, its reply
being lost and the client sending the call again (`MaxRetries`, as go-redis
does on network errors); `Fail` is a call that ends in an error. `Tick` stops
at `MaxDelay` after the oldest stamp: `MaxDelay` is the one assumption about
timing. `DelayAssumption` demands `MaxDelay =< SecondMs`, for one second is
what the code's TTLs have to spare. `ScanDelete` is a reset as the limiter sees it, at any moment.

### TokenBucket

| Model | Code |
|---|---|
| `tokens`, `last_refill_ms`, `expireAt` | the hash and its TTL |
| `Elapsed`, `Refilled`, `LevelAt`, `Admits`, `Script` | `tokenBucketScript` (clamped elapsed time, refill, missing hash, comparison, HSET and EXPIRE) |
| `RetryAfter` | `math.ceil` in the script |
| `Roundings` | what the script's doubles may be off by |
| `RemainingBudget` | Redis's truncation of a script's number, then `Allow`'s division |
| `ttlSec` | `Allow`'s TTL: time to fill, rounded up, one more, at least 2 |

Levels are whole numbers of units, `Unit` of them to a token and `Rate` per
tick, so that they may be fractions of a token. The script computes them in
doubles, which no scale makes exact: a bucket that was emptied 950 ms ago at one
token a second holds 0.95, lacks 0.050000000000000044, and the wait comes out as
51 ms although the request is granted after 50. So a refill and the quotient of a
wait are each off by any of `Roundings`, at most `Noise` units either way. Two facts
of floating point are kept: rounding is monotone, so a refill never lowers a
level, and nothing is rounded where no time has passed (taking whole tokens from
a level that has them is exact). Levels in `LeakyBucket` are treated alike.

`base`, `granted` and `regress` are history: an observer may start counting at any
moment (`Observe`).

### LeakyBucket

The same clock and callers with `water_level` and `leakyBucketScript`. It ends
with the refinement `ImplementsTokenBucket`: free space is the other's tokens.
TokenBucket is in this sense the abstract specification of both.

### FixedWindow

INCR and EXPIRE are two actions (`Incr`, `Expire`) with `pc = "counted"` between
them. `IncrLost` repeats an INCR; `Fail` also stands for a gateway that stops
between the two. `expireAt = NoTtl` is a key without TTL. The remaining count
and the wait in the answer, functions of the count and the clock, are left out.

### SlidingLog

The sorted set is a set of `[ts, token]`. `Kept` is ZREMRANGEBYSCORE,
`Admits` is ZCARD against the limit, `Oldest` is ZRANGE 0 0. A repeated call
carries the same token: ZADD then adds nothing.

### SlidingWindowCounter

The script increments the counter of the request's window and reads the one
before it; `Estimate` is the weighted sum in multiples of `windowMS`, so that
the division by the window is exact and `Remaining` is the code's `math.Floor`.

### PolicyService

`Create` is one INSERT. `Update` is `UpdateRead` (read, merge, validate) and
`UpdateWrite` (one UPDATE of all columns, version + 1). `Activate` is
`ActivateRead`, the reset (`ResetDone`, `ResetFail`) and `Upsert`. Each statement
may fail. Of a params map the model keeps one number per family (window
algorithms, bucket algorithms) in half units: enough to tell an absent or
refused field (0), a fraction that is truncated to 0, and a whole number apart.

### Gateway

`Arrive`, `ReadActive`, `ReadPolicy`, `Judge`/`JudgeFail` and `Forward` are
`Evaluate` and the proxy handler. `keys` are the runtime keys that exist, one
for each policy and algorithm. `Scan` and `Delete` are the batches of `ScanDelete`:
SCAN covers any part of what is left of the keyspace, as Redis promises no
more than that a key which exists throughout is returned. `Expire` deletes a
key at any moment.

### Dashboard

An action is the code from one `await` to the next. `Start` is the click up to
the first request of the sync; `Synced` is what follows its success, and
begins a loop; `Pass` is one iteration of `runDispatchLoop` that dispatches;
`Leave` and `Return` are its end, waiting for the requests in flight and
resetting the flags. `Reload`/`Loaded` are `reloadPolicy` and its answer.
`inFlight` is the runtime's set, cleared by every start; `outstanding` are the
requests that really are unanswered. The model is translated from
`useFixedWindowSimulation.ts`; the other four hooks have the same control flow
and differ in what they chart. A click sees `policySyncStatus` as last
rendered: React renders before the next click, and the only effect of an older
value would be that a click is ignored.

### DashboardSync

`syncDashboardPolicy` of several pages against `PolicyService`. A *visit* is
one page from mount to unmount; pages in other tabs are visits too, and since a
sync makes one call after the other, its PUT or POST in progress is the
management handler that bears the visit's name.

| Action | Code |
|---|---|
| `Start` | `start` up to the first `await` of `syncDashboardPolicy` |
| `FindActive`, `FindPolicy` | GET `/active`: the two statements of `Active`, then `mapPolicySnapshot` and the test of `enabled` |
| `List` | GET the policies, `find` by the dashboard's name |
| `CreateOwn` | POST a policy; the name is unique, and a second one is 409 |
| `PutRead`, `PutWrite`, `Reply` | PUT: `Update`'s read, its write, and the answer that the page maps |
| `PostRead`, `PostReset`, `PostUpsert` | POST activate: `Activate`'s three parts |
| `ReadLatest`, `Finish` | GET `/active` once more; the first look at `mountedRef` |
| `CallFails` | any call fails, or succeeds and its answer is lost |
| `Enter`, `Leave`, `SessionEnds` | `navigate`, the unmount effect, the end of the session |
| `OtherStep` | other clients create, update, enable, disable, activate |

Other clients never change the algorithm of a policy: no client in the
repository does, and `NeverTakenOver` is about the pages. `alone` is history: the
visits whose sync no other actor and no fault has disturbed. The reload, which
only reads, is in `Dashboard` (its effect on the status) and `EventLog` (what
it puts into the form).

### GatewayAnswers, ApiCommon, the five pages

Operators without state. `JsonValues` has numbers in hundredths and one `null` for
everything that a decoder refuses. `GatewayAnswers` is the other end of the
wire: `BuildLimiter` gives the JSON that a limiter answers with, and what it leaves
in Redis, from what Redis holds of the client: the counters of the windows, the
members of a log, or the level of a bucket and the time it was written. A
bucket keeps its fraction there and answers with a whole number, as Redis does
with the numbers of a script. `CreateRow`, `UpdateRow`, `ActivateRow` and `ActiveRow`
are the policy endpoints, a call at a time, with their validation and
truncation. `ApiCommon` has what the pages share: `api/common.ts`, `kpiBase.ts` and
the code that is repeated in the five files under one name (`StateOf`,
`DecisionOf`, `SimulateResult`, `PolicySnapshot`, the event list, the timeline,
the log, the diagnostics). Each `*Page` module has one page's own: its
`mapAlgorithmState`, `mapDecision`, `mapPolicySnapshot`, `sync...PolicyConfig`,
`clampConfig`, `deriveKpi`, its charts, and what the page shows
(`...Dashboard`). `Pages` gives the five one set of names.

An issue is its code; message and severity follow from it. Rates of totals,
the observed rate (which depends on when a page is rendered) and the scale of
an axis are left out. Operators with operator parameters
(`syncDashboardPolicy`, whose arguments are functions in the code too) have no
entry in the map; they are translated from the same lines as their callers.

### EventLog

One mounted page with its requests in flight. `Dispatch` sends, `Judge` is the
gateway judging a request at its own time, `GatewayError` and `Broken` are its
failures and those of the way, `Deliver` and `Timeout` are the two ends of
`postSimulateRequest`; each of the last two appends one event unless the page is left.
`Activate` is another client that activates a policy, with a reset of its keys;
`resetView` and `SyncFailed` are the page's own. The request goes on after a
timeout, and is judged all the same. `store` is Redis, the keys of each client;
they do not expire here (the limiters' modules show that expiry changes no answer).
`arrived` and `judged` are history: the ids of what has come since the last
reset, and who was judged when, by which algorithm and how.

## 3. Runs, bounds and what they show

| Run | States | Shows |
|---|---|---|
| `token_bucket` | 2.4 M | `SustainedRate`: grants of any observed interval are bounded by a full bucket, the refill (with one rounding error for each tick), and the time that late scripts move `last_refill_ms` back; `ExpiryHarmless`; `RemainingExact`; `RetryWithinOne`: the announced wait is right to a tick, however the denial and the next script are rounded |
| `leaky_bucket` | 430 k | `ImplementsTokenBucket`, `SustainedLeak`, `RemainingWithinOne` |
| `fixed_window` | 1.2 M | `WindowLimit` although INCR is late, repeated or lost; `TtlOwned`: who is to blame for a counter without TTL |
| `sliding_log` | 433 k | `NothingForgotten`, `LimitInAnyWindow`, `RemainingHonest`, `RetryOneShort` |
| `sliding_window_counter` | 1.1 M | `WindowLimit` (one below the limit), `CountersKept`, `RemainingWithinOne` |
| `policy_sync` | 1.0 M | `NeverTakenOver`; `LoneSyncSucceeds`: a sync that nobody disturbs ends on the page's own policy, whatever it finds; `ReadsOwnWrite` |
| `event_log` | 674 k | `EventsAccounted`, `IssuesExplained`, `ViewsAgree`, `StartAppliesForm`, `MarkersSound`, `BudgetHonest` |
| `gateway` | 174 k | `PairsFit`, `VersionCountsWrites`, `ResetComplete`, `JudgedByActive`, `JudgedOnFittingParams`, `ManagementEnds` |
| `dashboard` | 737 k | `FlagsMatchStatus`, `OneLoop`, `ConcurrencyKept`, `RateKept`, `SilentWhenLeft`, `SessionEnds` |
| `gateway_enabled`, `dashboard_stop`, `sync_left` | counterexample | disagreements of section 6 |

Bounds:

- *Limiters*: two callers, because every hazard here is one script overtaking
  or repeating another; three only where a third is what it takes
  (`token_bucket_late`). `MaxDelay` is as long as a second in most runs, the
  worst that `DelayAssumption` admits. `MaxTime` lets a bucket fill and its TTL
  pass while a late call is on its way, and covers three windows of the fixed window and
  four of the sliding window counter (a little over two windows of the sliding
  log). In the token bucket a tick refills half a token (`Rate = 2`, `Unit = 4`), so that levels
  are fractional and every rounding shows; in the leaky bucket the rounding errors
  alone make them so. `Noise = 1` is half of what a tick refills, the most that
  `RetryIsWithinOne` admits and far more than doubles are off. `MaxCount` (counters) is one above
  the limit, or at it where a request counts itself; `MaxPerTick` (sliding log)
  bounds the requests of one instant.
- *Gateway*: two handlers, which suffices for a read and a write of one with a
  write of the other in between; one policy with two algorithms of different
  families, so that an update of the algorithm must also clear the other
  family's params; one request, as requests only meet in `keys`;
  `MaxVersion = 3` allows two updates after creation. Proofs remove all of these.
- *Dashboard*: two loops (a third start meets the same flags), four slots for
  two loops with concurrency 2, a session of 2 ticks with clock 5: a second
  session may follow a first one. `rps = 2` with `concurrency = 2` lets tokens
  gather to twice the rate while all slots are taken. `Synced` starts no session
  that could not end within `MaxTime`. Deadlock is not checked: once the
  page is left, or at the last tick, nothing is left to do.

- *Policy sync*: two visits, of two pages or twice of one, and one other client
  with one request: each hazard is one write between two calls of a sync. Three
  policies: one for each page and one of another name. One form, for two forms
  of one page differ only in the number that is written, and 0.5 as the number
  another client may send, which is stored as 0. `MaxVersion = 3`.
- *Event log*: three requests, two at a time, and a cap of two events, so that
  answers overtake each other and the list overflows; one client or two in turn;
  windows of a second and a clock of half seconds up to 1.5 s, so that two
  requests may fall into one window, a boundary, or a refill between them; two
  requests fit, the third is denied; one fault. `StartAppliesForm` is a property
  of an operator: it is evaluated in the initial states, for all typed forms of
  `AnyForm` (nothing, negative, a half, two and a half) and all gateways of
  `SomeGateways` (no row, one, two; enabled or not; of the page's algorithm or
  another; stored numbers of 0; active or not). `StartsApplyForm` proves it for
  all others.

Symmetry of callers, policies, visits and pages is used in runs without
liveness. Deadlock is checked in every run but those of the dashboard, the sync and
the event log, which all may come to an end.

Each property has a mutant in `PROJECT.json`: a small fault in a translated
definition (a missing clamp, rounding the other way, a spare second left out, a
flag not reset) under which the run fails.

## 4. Fairness

- *Limiters*: none; all their properties are safety properties.
- *Gateway*: weak fairness for the steps of each request and each handler once
  they have begun. Go schedules every goroutine, and every SQL statement and
  Redis call ends, at the latest with an error. Nothing is assumed about
  arrivals, expiry or which batch SCAN returns; `ManagementEnds` holds because
  each SCAN call covers some of the remaining keyspace, even when requests
  create keys as fast as they are deleted.
- *DashboardSync, EventLog*: none; a sync or an answer may never come.
- *Dashboard*: weak fairness for the clock, for a loop that is over
  (`sleep` is a timer) and for answers (`postSimulateRequest` aborts after its
  timeout). None for buttons, nor for the policy sync: `requestJson` has no
  timeout, and a sync may stay "syncing" for ever.

## 5. Proofs

All theorems hold for every value of the constants that the named assumptions
of each module admit. Each is proved from an inductive invariant: initial
states satisfy it, each action preserves it, it implies the property.

| Module | Theorems | Invariant, and why the property alone is not inductive |
|---|---|---|
| `TokenBucket_proofs` | `TypeCorrect`, `RateSustained`, `HarmlessExpiry`, `RemainingIsExact`, `RetryIsWithinOne` | adds that stamps are recent (`StampsRecent`), that the observed interval began at least `MaxDelay` ago and the stored stamp is of the past (`Past`), that nothing is granted before the interval's first script (`FirstGrant`), that a stored hash outlives its refill and a missing one is a full bucket (`ExpiryBound`), and that the last answer was computed from the stored level (`LastDecision`): without them a late script could find more tokens than the bound allows |
| `LeakyBucket_proofs` | `TypeCorrect`, `Implements`, `LeakSustained`, `RemainingBudgetWithinOne` | initial states and steps map to those of `TokenBucket`; the bound on the leak is then `RateSustained` through the instance. That a truncated level overstates what fits by one request at most is a lemma about the two divisions (`HeadroomWithinOne`) |
| `FixedWindow_proofs` | `TypeCorrect`, `LimitHolds`, `TtlIsOwned` | a counter in use has no TTL or one that outlives every late caller of its window; grants never exceed the counter |
| `SlidingLog_proofs` | `TypeCorrect`, `NothingIsForgotten`, `LimitHolds`, `RemainingIsHonest`, `RetryIsOneShort` | every admitted request of the last window is in the log and the key outlives it by a second (`AdmittedKept`); the log never exceeds the limit (`LogBounded`). No assumption on delays is needed: the interval of `LimitInAnyWindow` shrinks by `MaxDelay` |
| `SlidingWindowCounter_proofs` | `TypeCorrect`, `LimitHolds`, `CountersAreKept`, `RemainingIsWithinOne` | a counter outlives the window after its own by a second, so it holds all attempts when it is read |
| `Policies_proofs`, for `PolicyService` | `ParamsFit`, `WritesAreCounted`, `TargetsAreThere` | what an update is about to write is already canonical; rows are never deleted |
| `Policies_proofs`, for `DashboardSync` | `PagesRunPolicyService`, `PoliciesNotTakenOver`, `SessionsHaveOwnWrite`, `LoneSyncsSucceed` | `SyncInv`: an update in progress keeps the algorithm of its row (`WritersKeep`), and what a sync has settled on is a policy of its page's algorithm whose version has reached what the sync wrote (`VisitInv`): what the page found in one call is still so in the next, whoever wrote in between. For `LoneSyncsSucceed` also `LonesInv`: while nobody disturbs a sync, what each of its calls has found and written is still what the tables hold |
| `Policies_proofs`, for `Gateway` | `RunsPolicyService`, `TypeCorrect`, `JudgedUnderActive`, `JudgedOnOwnParams`, `ResetsComplete` | what a request has read of the active row was active since it began; keys from before a reset lie ahead of its scan |
| `EventLog_proofs` | `Invariant`, `EventsAreAccounted`, `IssuesAreExplained`, `MarkersAreSound`, `BudgetIsHonest`, `ViewsDoAgree`, `StartsApplyForm` | `IInv`, and `Issued` for the views, both described below |
| `Dashboard_proofs` | `TypeCorrect`, `FlagsAgree`, `OneLoopOnly`, `ConcurrencyIsKept`, `RateIsKept`, `SilentOnceLeft` | what a loop has sent and may still send fits in the time it has looked at (`BudgetKept`); leaving the page stops all loops (`StoppedWhenLeft`); while no reload has hidden a sync there is one start at a time (`OneStart`) and its loop knows of every unanswered request (`AllCounted`) |

`RunsPolicyService` is a refinement: every step of the gateway is a step of the
policy service or leaves its variables alone, so what is proved of the rows
needs no argument about requests or scans. `PagesRunPolicyService` is the same for the
pages: `ParamsFit`, `WritesAreCounted` and `TargetsAreThere` hold whatever they do.

`EventLog_proofs` is about all five pages and all five algorithms at once, for
every form, every stored param, every length of the list and every number of
requests. Its argument has five layers.

1. *Limiters* (`Limiters`, from one lemma for each of the five): what an answer
   says is left is what the next request at the same instant meets, exactly or
   one too high; and the figure a chart marks (the count of a log, the level of a
   bucket) does not fall from one request of a client to the next while the clock
   stands. Rounding is part of it: a level that is cut off for the answer is
   compared with whole costs (`Floors`), which is where the leaky bucket's promise
   of one too many comes from.
2. *Encoders and decoders* (`JudgedShown`, `FailureShown`): whatever page reads
   whatever limiter's answer, the event is a decision that says what was
   judged; its issues are empty exactly when the algorithm is the page's own, and
   then the state is there with the same figures. All other results become errors.
3. *The invariant* `IInv`: types; whole answers are the judgements of their calls
   (`History`); a request without an answer was not judged (`Unjudged`); what has
   arrived belongs to settled calls, each once (`Arrivals`); the list is its
   newest part (`ListInv`); every event is one of the two kinds of the second
   layer (`Shown`); and of the first layer, what is still true between two
   requests: the last word to a client is kept (`Promises`), Redis holds at
   least the last figure (`Levels`), and figures of one instant do not fall (`NoFall`).
   None of `EventsAccounted`, `IssuesExplained`, `MarkersSound` and `BudgetHonest` is
   inductive, as an event speaks of a judgement that lies any number of steps
   back, and the promise is about the next one.
4. *Views* (`ViewsAgree`). An event that counts itself as one without baseline
   state must have none, and the reverse: `Issued`, inductive only together with
   `IInv`. The rest is counting over lists of any length: `Kept` enumerates the
   indices it keeps in ascending order (`KeptOnes`, `KeptLength`), so each
   total, series, marker and diagnosis is the size of one of the sets of indices
   of decisions, grants and decisions with a state. That they all fit is then a
   fact about finite sets. The boundary lines of the fixed window's chart are
   the ascending enumeration of `WindowStarts`.
5. *Starts* (`StartAppliesForm`), for every typed form and every table of policies.
   `clampConfig` works field by field and once is enough (`ClampedOnce`). What it
   leaves passes the gateway's validation and is stored as sent (`FormSendable`),
   the gateway's own truncation included; what is stored, the page reads
   back as the same numbers (`PageRereads`); and a form that takes back its own
   numbers is as it was (`ApplyingOwn`). A sync settles on a row of the page's
   algorithm or on a new one, unless a row that the page cannot read has the name
   (`Targets`), and leaves all others alone (`Syncs`).

Assumptions. `DelayAssumption` (a call reaches Redis within a second of reading
the clock) carries every statement about expiry, the sliding log's apart. `RetryIsWithinOne` also
assumes a policy whose request fits in its bucket (`Cost =< Capacity`) and rounding
errors of at most half of what a tick refills (`2 * Noise =< Rate`). Doubles
keep far below that: levels are off by a few parts in 2^53, which counts against
`refill_rate_per_sec` only where the rate is some 10^12 times smaller than the
capacity. `CounterAssumption`,
`WindowAssumption`, `BucketAssumption`, `LeakyAssumption`,
`LogAssumption`, `DashboardAssumption`, `CapAssumption` and `PolicyAssumption` only type the
constants; `VisitAssumption` also says that what a page sends is valid, which is
what `clampConfig` is for (`StartAppliesForm`). In `EventLog`, `ParamsAssumption` says
that stored params are positive, and whole but for the rates: a policy with a
stored 0 is refused by every limiter, and what that makes of a request is
`GatewayError`. `FormsAssumption` is what `clampConfig` leaves of a form,
`ClockAssumption` that time goes forward, `NullAssumption` and `PolicyNullAssumption` that
`null` is no value of another kind. `GatewaysAssumption` is what the tables of
`db/migrate.go` enforce: ids and names of policies are unique, the active policy is one
of the rows, and the id of a new row is of none yet. `NamesAssumption` says that a
dashboard's name is a name, `RawFormsAssumption` that a typed form has all its numbers,
or `null` for what is no number. All are evaluated in the runs.

Only model-checked: `ManagementEnds` and `SessionEnds`, for liveness under
fairness and ENABLED are outside of what the prover supports. So is induction over
data, and RECURSIVE operators: no module declares one, and lists are
filtered by `Kept` instead of `SelectSeq`, whose definition is recursive. Every
other property of a passing run is stated by a theorem.

## 6. Where code and documents disagree

Each has a counterexample: 4 to 6 are runs of `PROJECT.json`; for 1 to 3 and 7, run the
configuration named there, in which one invariant is violated.

1. *Late scripts refill twice* (`tlc -config MCTokenBucketLate.cfg MCTokenBucket`). HSET stores the caller's
   stamp even when it is older than the stored one, and the next script refills
   the same time again. `docs/REQUIREMENTS_BACKEND_INCREMENTAL.md:155`
   promises a rate "constrained by refill rate". `SustainedRate` states, and
   `RateSustained` proves, the bound that does hold.
2. *Counters without TTL* (`tlc -config MCFixedWindowTtl.cfg MCFixedWindow`). A failure between INCR and
   EXPIRE leaves one for good; `docs/IMPLEMENTATION_BLUEPRINT.md:141` gives every
   counter a TTL. `TtlOwned` shows that there is no other way to get one.
3. *The wait of the sliding log is a millisecond short*
   (`tlc -config MCSlidingLogRetry.cfg MCSlidingLog`).
   An entry that is exactly a window old still counts. `RetryOneShort` shows
   that it is never more than that.
4. *A disabled policy can become active* (`gateway_enabled`), when it is
   disabled between the check and the upsert.
5. *Stop may leave a loop running* (`dashboard_stop`). A reload's answer hides a
   sync in progress; a second start then shares the flags of the first.
   `OneLoop` shows that this is the only way to two loops.
6. *A page that is left while it syncs disturbs the next one* (`sync_left`).
   `syncDashboardPolicy` makes its calls to the end, and `mountedRef` is looked at
   only after them: the policy of the page that was left becomes active under
   the session of the page that is open, with one tab and no other client.
   `docs/M4_TOKEN_BUCKET_EXECUTION_PLAN.md:224` calls the tabs "independent".
7. *The wait of a bucket may be a millisecond short*
   (`tlc -config MCTokenBucketRetry.cfg MCTokenBucket`).
   `docs/M4_TOKEN_BUCKET_EXECUTION_PLAN.md:59` has it computed "until enough tokens
   are available" (`DocRetryEnough`). With capacity 1, ten tokens a second and a request 8 ms after the
   bucket was emptied, the level is 0.08 and the wait 92 ms; 92 ms later
   the script has 0.08 + 0.9199999999999999, which is below 1, and denies again. More
   often the wait is a millisecond longer than it need be. `RetryWithinOne` states,
   and `RetryIsWithinOne` proves, that it is never further off than that.

Seen while reading, without a run of their own: a policy whose
`tokens_per_request` exceeds `capacity` is accepted and grants nothing; the
leaky bucket's remaining count is computed from a truncated level, where
`gateway/PHASE_M5_LEAKY_BUCKET_NOTES.md:54` takes the floor of the difference
(`RemainingWithinOne` bounds what that makes); `toPositiveInt` accepts 0.5 and
stores 0, where `docs/IMPLEMENTATION_BLUEPRINT.md:198` asks for "int > 0"; a row
under a dashboard's name that the dashboard cannot map blocks its Start with 409
until somebody repairs it (`Blocked`); a Start overwrites any enabled active policy
of its algorithm, whatever its name; a mark on a chart means a refill, a leak or
an expiry only between neighbours of one client in order (`MarkersSound`); the
sliding window counter and the leaky bucket may promise one request too many
(`BudgetHonest`); and "Active policy target does not exist." is answered only when it does exist, with
another algorithm (`TargetsAreThere`).

## 7. Not modelled

- HTTP routing, CORS, error texts, configuration, the copying of headers and
  bodies by the proxy: stateless.
- Schema migration: statements that are conditional one by one; whether two
  gateways may run one at the same time is a matter of PostgreSQL's locks on its
  catalogue, which the repository does not show.
- `main`'s shutdown: which requests are drained is a matter of `net/http`. What a
  request leaves that dies half way is in the limiters' modules (`Fail`) and
  in `PolicyService` (a handler that fails after its read).
- Markup, inputs, tooltips and the drawing of charts; the rates and ratios on the
  cards; the observed rate.
- The scripts under `gateway/scripts`, the tests, `infra`: they drive the
  system from outside.
- Names of policies but for the one a dashboard looks for; descriptions.
- More than one gateway, except that callers of the limiters may as well be in
  different processes with synchronised clocks.
- `Dashboard` is translated from one hook; the buttons and the flags of the other
  four do the same and are not modelled again. They differ in the config that goes
  to the loop: the hooks of the token and the leaky bucket pass the form as it was
  before the sync (`resolvedConfig`), the others the one after it
  (`effectiveConfig`). Taking over the synced policy changes the policy's own
  numbers only; the rate, the concurrency, the duration and the rotation of
  clients, all that the loop reads, are the same in both. `EventLog` has all five.
- Doubles, other than in the two buckets' modules. `GatewayAnswers` computes levels
  exactly, as `EventLog` only compares two requests of one instant, between which a
  bucket does no arithmetic on the clock; the sum of a leaky bucket's level and
  `water_per_request`, which may need one bit more than the level has, is taken as exact
  in both. So are the quotient in `ttlSec`, against a TTL that has a second
  to spare, and the weight of the sliding window counter's previous window.
- Numbers of 2^63 or more. `toPositiveInt` (`policy/service.go:320`) and the limiters'
  `readPositiveInt` convert a double to an int, and Go leaves the result of an overflow
  to the platform. `NormalizedParams` in `GatewayAnswers` is the floor: `JudgedOnFittingParams`
  and `StartAppliesForm` say nothing of such numbers.
- A token bucket in which no request fits (`tokens_per_request > capacity`).

## 8. Order of the work

1. `TokenBucket`, `LeakyBucket` and their refinement, with proofs.
2. `FixedWindow`, `SlidingWindowCounter` and `SlidingLog`, with proofs.
3. `PolicyService` and `Gateway`, with proofs and the refinement between them.
4. `Dashboard`, one hook, with proofs.
5. `DashboardSync`, with the refinement to `PolicyService` and proofs.
6. `GatewayAnswers`, `ApiCommon`, the five pages and `EventLog`.
7. Proofs of `LoneSyncSucceeds` and of four invariants of `EventLog`.
8. Proofs of the other two, `ViewsAgree` and `StartAppliesForm`.

What could follow: a composition of `Dashboard` with `DashboardSync`, to see the
policy change under a loop that goes on; a second page in `EventLog`.
