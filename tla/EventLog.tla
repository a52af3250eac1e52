------------------------------- MODULE EventLog -------------------------------
(***************************************************************************)
(* One mounted dashboard, the requests it has in flight, the gateway that  *)
(* judges them, and the events, figures and charts it makes of the         *)
(* answers.  Requests are judged in one order and answered in another;     *)
(* another client of the gateway may activate another policy; an answer    *)
(* may be an error, be broken, or come after the page has stopped waiting. *)
(*                                                                         *)
(* The dispatch loop that decides when to send is in Dashboard.            *)
(***************************************************************************)
EXTENDS Pages

CONSTANTS
    Forms,           \* forms a simulation may run with
    Params,          \* algorithm -> the params of its policy in the gateway
    Names,           \* names of policies
    Gateways,        \* page -> gateways that a simulation may find at its start
    RawForms,        \* forms as they may be typed
    TickLength,      \* by how much the clock advances, in hundredths of a second
    MaxTime,         \* bound on the clock
    MaxCalls,        \* bound on requests (and failed syncs)
    MaxConcurrency,  \* requests in flight at once
    MaxFaults        \* bound on errors, timeouts, resets and other interruptions

\* The results of a call: what a limiter made of it, and all else.
JudgedAnswers(algorithm) ==
    [kind : {"http"}, ok : BOOLEAN, status : {200, 429}, body : Body(algorithm)]
Failures ==
    [kind : {"non_json", "network_error", "none"}]
    \cup [kind : {"http"}, ok : {FALSE}, status : {500}, body : [detail : {"error"}]]

Whole(v) == v = Floor(v)

\* A form that clampConfig has been over; clients are numbers.
ASSUME FormsAssumption == \A form \in Forms :
    /\ form.singleClientId \in Int
    /\ form.rotatingPoolSize \in Nat /\ form.rotatingPoolSize >= 2 * One

\* The gateway stores whole numbers, but for the rates, and a limiter that finds
\* one that is not positive answers with an error.
ASSUME ParamsAssumption == \A a \in PageNames :
    /\ \A f \in Required(a) \cup Optional(a) : Params[a][f] \in Positive
    /\ \A f \in (Required(a) \cup Optional(a)) \ Rates : Whole(Params[a][f])

ASSUME ClockAssumption == TickLength \in Positive

\* null is no number, no name and no record.
ASSUME NullAssumption ==
    /\ null \notin Int \cup BOOLEAN \cup PageNames
    /\ null \notin Failures \cup PageStates \cup Decisions
    /\ \A a \in PageNames :
        null \notin AlgorithmState(a) \cup Body(a) \cup JudgedAnswers(a)

\* What the table of policies stores, and what a page reads of a row.
PolicyParams ==
    [limit : Int, window_size_sec : Int]
    \cup [capacity : Int, refill_rate_per_sec : Int, tokens_per_request : Int]
    \cup [capacity : Int, leak_rate_per_sec : Int, water_per_request : Int]
PolicyRows ==
    [id : Int, name : Names, algorithm : PageNames, params_json : PolicyParams,
     enabled : BOOLEAN, version : Int]
PolicyActives == [id : Int, algorithm : PageNames]
PolicyUpdates == [algorithm : PageNames, params_json : PolicyParams, enabled : BOOLEAN]
PolicyNumbers ==
    [limit : Number, windowSizeSec : Number]
    \cup [capacity : Number, refillRatePerSec : Number, tokensPerRequest : Number]
    \cup [capacity : Number, leakRatePerSec : Number, waterPerRequest : Number]
PolicySnapshots ==
    [id : Int, name : Names, enabled : BOOLEAN, version : Int, numbers : PolicyNumbers]

ASSUME NamesAssumption == \A p \in PageNames : DashboardName(p) \in Names

\* Ids and names are unique, the id that a new row gets is of none yet, and the
\* active policy is one of the rows.
ASSUME GatewaysAssumption == \A p \in PageNames : \A gw \in Gateways[p] :
    /\ DOMAIN gw = {"rows", "active"} /\ gw.rows \subseteq PolicyRows
    /\ \A row, other \in gw.rows : row.id = other.id \/ row.name = other.name => row = other
    /\ \A row \in gw.rows : row.id # Cardinality(gw.rows) + 1
    /\ Cardinality(gw.rows) \in Int
    /\ gw.active # null => \E row \in gw.rows : row.id = gw.active.id

\* A typed form has every number, or null for one that is none.
FormNumbers == {"limit", "windowSizeSec", "capacity", "refillRatePerSec", "tokensPerRequest",
                "leakRatePerSec", "waterPerRequest", "rps", "rotatingPoolSize"}
ASSUME RawFormsAssumption == \A raw \in RawForms : \A f \in FormNumbers :
    f \in DOMAIN raw /\ raw[f] \in Number

ASSUME PolicyNullAssumption ==
    null \notin PolicyParams \cup PolicyRows \cup PolicyActives \cup PolicyUpdates
                \cup PolicySnapshots

VARIABLES
    page,              \* the dashboard that is mounted
    config,            \* the form it was started with
    mounted,           \* mountedRef.current
    dispatchSequence,  \* runtimeRef.current.dispatchSequence
    calls,             \* requests in the order in which they were sent
    events,            \* the page's list of events
    active,            \* the gateway's active algorithm, and how often it changed
    store,             \* Redis: client -> its keys, of the active policy
    judged,            \* history: requests in the order in which they were judged
    now,
    faults,            \* errors, timeouts, resets and other interruptions so far
    arrived            \* history: ids of what has come since the last reset

vars == <<page, config, mounted, dispatchSequence, calls, events, active, store, judged, now,
          faults, arrived>>

-----------------------------------------------------------------------------
Ids == DOMAIN calls
Open == {n \in Ids : calls[n].outcome = "open"}

\* The gateway's id for a call, and the page's own for an error it makes up.
RequestId(n) == 2 * n
ErrorId(n) == 2 * n + 1
CallOf(id) == id \div 2

Init ==
    /\ page \in PageNames
    /\ config \in Forms
    /\ mounted = TRUE
    /\ dispatchSequence = 0
    /\ calls = <<>>
    /\ events = <<>>
    /\ active = [algorithm |-> page, epoch |-> 0]
    /\ store = [clientId \in {} |-> NoKeys]
    /\ judged = <<>>
    /\ now = 0
    /\ faults = 0
    /\ arrived = <<>>

Fault == faults < MaxFaults /\ faults' = faults + 1

\* dispatchRequest: choose the client and send.
Dispatch ==
    LET resolved == resolveSimulationClientId(config, dispatchSequence) IN
    /\ mounted
    /\ Len(calls) < MaxCalls
    /\ Cardinality(Open) < MaxConcurrency
    /\ calls' = Append(calls, [clientId |-> resolved.clientId, outcome |-> "open", answer |-> null])
    /\ dispatchSequence' = resolved.dispatchSequence
    /\ UNCHANGED <<page, config, mounted, events, active, store, judged, now, faults, arrived>>

Keys(clientId) == IF clientId \in DOMAIN store THEN store[clientId] ELSE NoKeys

\* What the gateway would make of a request of a client, and of its keys.
Judgement(clientId, token) ==
    BuildLimiter(active.algorithm, Params[active.algorithm], Keys(clientId), now, token)

\* The gateway judges a request, whether or not the page still waits for it.
Judge(n) ==
    LET clientId == calls[n].clientId
        judgement == Judgement(clientId, RequestId(n))
        decision == judgement.decision
    IN
    /\ calls[n].answer = null
    /\ store' = [c \in DOMAIN store \cup {clientId} |->
                    IF c = clientId THEN judgement.keys ELSE store[c]]
    /\ judged' = Append(judged,
           [call |-> n, clientId |-> clientId, algorithm |-> active.algorithm,
            epoch |-> active.epoch, at |-> now, allowed |-> decision.allowed])
    /\ calls' = [calls EXCEPT ![n].answer =
           [kind |-> "http", ok |-> decision.allowed,
            status |-> IF decision.allowed THEN 200 ELSE 429,
            body |-> Response(decision, active.algorithm, RequestId(n), now)]]
    /\ UNCHANGED <<page, config, mounted, dispatchSequence, events, active, now, faults, arrived>>

\* No active policy, or a failure of the gateway or of its store.
GatewayError(n) ==
    /\ calls[n].answer = null
    /\ Fault
    /\ calls' = [calls EXCEPT ![n].answer =
           [kind |-> "http", ok |-> FALSE, status |-> 500, body |-> [detail |-> "error"]]]
    /\ UNCHANGED <<page, config, mounted, dispatchSequence, events, active, store, judged,
                   now, arrived>>

\* The connection fails, before the request is judged or after, or something
\* in between answers with what is not JSON.
Broken(n) ==
    /\ n \in Open
    /\ Fault
    /\ \E kind \in {"non_json", "network_error"} :
           calls' = [calls EXCEPT ![n].answer = [kind |-> kind]]
    /\ UNCHANGED <<page, config, mounted, dispatchSequence, events, active, store, judged,
                   now, arrived>>

\* The page has the result of a call: an event, if it is still mounted.
Settle(n, call, outcome) ==
    LET event == simulateRequest(page, call, calls[n].clientId, ErrorId(n), now) IN
    /\ calls' = [calls EXCEPT ![n].outcome = outcome]
    /\ events' = IF mounted THEN appendEvent(page, events, event) ELSE events
    /\ arrived' = IF mounted THEN Append(arrived, event.id) ELSE arrived

Deliver(n) ==
    /\ n \in Open
    /\ calls[n].answer # null
    /\ Settle(n, calls[n].answer, "answered")
    /\ UNCHANGED <<page, config, mounted, dispatchSequence, active, store, judged, now, faults>>

\* The page stops waiting: the request goes on, or its answer is on its way.
Timeout(n) ==
    /\ n \in Open
    /\ Fault
    /\ Settle(n, [kind |-> "timeout"], "timed out")
    /\ UNCHANGED <<page, config, mounted, dispatchSequence, active, store, judged, now>>

\* A sync that fails puts an error among the events.
SyncFailed ==
    LET n == Len(calls) + 1 IN
    /\ mounted
    /\ Open = {}
    /\ n <= MaxCalls
    /\ Fault
    /\ calls' = Append(calls, [clientId |-> null, outcome |-> "sync failed",
                                answer |-> [kind |-> "none"]])
    /\ events' = appendSyntheticError(page, events, ErrorId(n), now)
    /\ arrived' = Append(arrived, ErrorId(n))
    /\ UNCHANGED <<page, config, mounted, dispatchSequence, active, store, judged, now>>

\* The list is emptied; requests in flight still come into it.
resetView ==
    /\ mounted
    /\ Fault
    /\ events' = <<>>
    /\ arrived' = <<>>
    /\ UNCHANGED <<page, config, mounted, dispatchSequence, calls, active, store, judged, now>>

\* The page is left, with requests in flight.
Leave ==
    /\ mounted
    /\ Fault
    /\ mounted' = FALSE
    /\ UNCHANGED <<page, config, dispatchSequence, calls, events, active, store, judged,
                   now, arrived>>

\* Another client activates a policy and has its keys deleted.
Activate ==
    /\ Fault
    /\ \E algorithm \in PageNames :
           active' = [algorithm |-> algorithm, epoch |-> active.epoch + 1]
    /\ store' = [clientId \in {} |-> NoKeys]
    /\ UNCHANGED <<page, config, mounted, dispatchSequence, calls, events, judged, now, arrived>>

Tick ==
    /\ now < MaxTime
    /\ now' = now + TickLength
    /\ UNCHANGED <<page, config, mounted, dispatchSequence, calls, events, active, store, judged,
                   faults, arrived>>

Next ==
    \/ Dispatch
    \/ \E n \in Ids :
        \/ Judge(n) \/ GatewayError(n) \/ Broken(n)
        \/ Deliver(n) \/ Timeout(n)
    \/ SyncFailed \/ resetView \/ Leave \/ Activate \/ Tick

Spec == Init /\ [][Next]_vars

-----------------------------------------------------------------------------
(***************************************************************************)
(* Properties.                                                             *)
(***************************************************************************)

Judgements(n) == {j \in DOMAIN judged : judged[j].call = n}
JudgementOf(event) == CHOOSE j \in Judgements(CallOf(event.id)) : TRUE
View(rejectedOnly) == Dashboard(page, events, config, rejectedOnly)

\* Nothing is lost, repeated or out of place on the way into the list: it holds
\* the newest of what has come since the last reset, in the order in which it
\* came, and nothing of a request that is still in flight.
EventsAccounted ==
    LET dropped == Len(arrived) - Len(events) IN
    /\ Len(events) = IF Len(arrived) < UI_EVENT_CAP THEN Len(arrived) ELSE UI_EVENT_CAP
    /\ \A i \in DOMAIN events :
        /\ events[i].id = arrived[dropped + i]
        /\ CallOf(events[i].id) \notin Open
        /\ \A k \in DOMAIN events : events[k].id = events[i].id => k = i

\* The gateway's encoders and the pages' decoders agree: a request is shown as a
\* decision exactly when the gateway judged it and its answer came whole, a
\* denial too; it says what was judged; and it comes without a warning exactly
\* when the page's own algorithm judged it.  All else is shown as an error.
IssuesExplained ==
    \A i \in DOMAIN events :
        LET n == CallOf(events[i].id) IN
        /\ IsDecision(events[i]) <=> /\ calls[n].outcome = "answered"
                                    /\ calls[n].answer.kind = "http"
                                    /\ Judgements(n) # {}
        /\ IF IsDecision(events[i])
           THEN LET j == judged[JudgementOf(events[i])] IN
                /\ events[i].decision.allowed = j.allowed
                /\ events[i].decision.clientId = j.clientId
                /\ events[i].issues = <<>> <=> j.algorithm = page
           ELSE events[i].issues = <<"request_error">>

Increasing(s) == \A i, k \in DOMAIN s : i < k => s[i] < s[k]

\* What a page shows, and its log of denials, count the same decisions.
Agree(v, rejections, stateless) ==
    /\ Len(v.timeline.allowSeries) = v.kpi.totals.allowed
    /\ Len(v.timeline.rejectSeries) = v.kpi.totals.rejected
    /\ Len(v.chart.series) + stateless = v.kpi.totals.total
    /\ Len(v.log) = Len(rejections) + v.kpi.totals.allowed
    /\ Len(v.diagnostics) <= 8
    /\ v.kpi.totals.lastRetryAfterMs # null => v.kpi.totals.rejected > 0
    /\ page = "fixed_window" =>
         /\ Increasing(v.chart.boundaryLines)
         /\ ToSet(v.chart.boundaryLines) = FW!WindowStarts(events)
    /\ page # "fixed_window" => v.contract.missingBaselineState = stateless

\* The views of one page, each computed from the events on its own, agree: the
\* cards, the timeline, the chart, the contract summary, the diagnostics and
\* the log count the same decisions.
ViewsAgree ==
    Agree(View(FALSE), View(TRUE).log, Len(Decided(events)) - Len(WithState(events)))

\* The params of a page's policy, as its form has them.
FormParams(form) ==
    CASE page \in Windowed -> [limit |-> form.limit, window_size_sec |-> form.windowSizeSec]
      [] page = "token_bucket" ->
             [capacity |-> form.capacity, refill_rate_per_sec |-> form.refillRatePerSec,
              tokens_per_request |-> form.tokensPerRequest]
      [] page = "leaky_bucket" ->
             [capacity |-> form.capacity, leak_rate_per_sec |-> form.leakRatePerSec,
              water_per_request |-> form.waterPerRequest]

\* A row that takes the dashboard's name and that it does not take for its own.
Blocked(gw) ==
    \E row \in gw.rows :
        row.name = DashboardName(page) /\ ~ isRecord(mapPolicySnapshot(page, row))

\* A start s from a gateway and a typed form leaves one set of numbers.
Applied(gw, raw, s) ==
    LET target == ActiveRow(s.gw) IN
    /\ s.ok \/ (Blocked(gw) /\ s.gw.active = gw.active)
    /\ s.ok => /\ target.enabled /\ target.algorithm = page
               /\ target.params_json = FormParams(s.config)
               /\ s.config = clampConfig(page, raw)
               /\ reloadActivePolicy(page, s.gw, raw).config = s.config
               /\ \A row \in gw.rows : row.id # target.id => row \in s.gw.rows
    /\ \A row \in gw.rows : RowOf(s.gw, row.id).algorithm = row.algorithm

\* Whatever is typed and whatever policies there are, a start that nobody
\* disturbs ends with an enabled, active policy of the page's algorithm, and
\* the gateway, the form and a reload have the same numbers: what the gateway
\* validates and truncates is what the form has clamped.  It fails only if the
\* dashboard's name is taken by a row it cannot read, and then the active
\* policy is as it was.  No other row changes, and none its algorithm.
StartAppliesForm ==
    calls = <<>> /\ now = 0 /\ faults = 0 => \A gw \in Gateways[page], raw \in RawForms :
        Applied(gw, raw, start(page, gw, raw, null))

\* A chart marks a refill, a leak or an expiry only where there was one: of two
\* neighbours of one client that the page's own algorithm judged, in the order
\* in which they came and with no reset between them, the second was judged
\* later.  Of two clients, of an answer that overtook another or of another
\* algorithm, the mark may mean nothing.
MarkersSound ==
    LET points == WithState(events) IN
    \A i \in Markers(page, View(FALSE)) :
        LET p == JudgementOf(points[i - 1])
            c == JudgementOf(points[i])
        IN (/\ judged[p].clientId = judged[c].clientId
            /\ judged[p].epoch = judged[c].epoch
            /\ judged[p].algorithm = page
            /\ p < c) => judged[c].at > judged[p].at

\* When the last answer to come is also the last the gateway gave to that
\* client, the cards promise what the gateway would do at that instant: there
\* is something left exactly when one more request would be allowed.  The
\* sliding window counter and the leaky bucket may promise one too many.
BudgetHonest ==
    LET decisions == Decided(events)
        last == JudgementOf(Last(decisions))
        left == Budget(page, View(FALSE))
        isCurrent ==
            /\ judged[last].at = now
            /\ judged[last].epoch = active.epoch
            /\ active.algorithm = page
            /\ \A j \in last + 1 .. Len(judged) : judged[j].clientId # judged[last].clientId
        isAllowed == Judgement(judged[last].clientId, RequestId(Len(calls) + 1)).decision.allowed
    IN decisions # <<>> => (isCurrent =>
           /\ isAllowed => left > 0
           /\ left > 0 /\ page \notin {"sliding_window_counter", "leaky_bucket"} => isAllowed)
=============================================================================
