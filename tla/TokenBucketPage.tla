-------------------------- MODULE TokenBucketPage ---------------------------
(***************************************************************************)
(* The token bucket dashboard: what it makes of the gateway's answers, and *)
(* the policy it keeps there.                                              *)
(***************************************************************************)
EXTENDS ApiCommon

DASHBOARD_POLICY_NAME == "token-bucket-dashboard"

AlgorithmStates ==
    [count : Number, windowStartMs : Number, windowSizeSec : Number,
     stateSchemaVersion : Number, tokens : Number, capacity : Number,
     refillRatePerSec : Number, tokensPerRequest : Number, lastRefillMs : Number]

\* The numbers of a state, and those that it must have.
Decoded(raw) ==
    [count |-> toNumberOrNull(Field(raw, "count")),
     windowStartMs |-> toNumberOrNull(Field(raw, "window_start_ms")),
     windowSizeSec |-> toNumberOrNull(Field(raw, "window_size_sec")),
     stateSchemaVersion |-> toNumberOrNull(Field(raw, "state_schema_version")),
     tokens |-> toNumberOrNull(Field(raw, "tokens")),
     capacity |-> toPositiveIntOrNull(Field(raw, "capacity")),
     refillRatePerSec |-> toPositiveFloatOrNull(Field(raw, "refill_rate_per_sec")),
     tokensPerRequest |-> toPositiveIntOrNull(Field(raw, "tokens_per_request")),
     lastRefillMs |-> toNumberOrNull(Field(raw, "last_refill_ms"))]
Baseline ==
    {"count", "windowStartMs", "windowSizeSec", "tokens", "capacity",
     "refillRatePerSec", "tokensPerRequest", "lastRefillMs"}

mapAlgorithmState(raw) == StateOf(raw, Decoded(raw), Baseline, SchemaWarning(raw))

mapDecision(raw, fallbackClientId) ==
    DecisionOf(raw, fallbackClientId, mapAlgorithmState(Field(raw, "algorithm_state")),
               AlgorithmWarning(raw, "token_bucket") \o RetryWarning(raw))

createSyntheticErrorResult(id, now) == SyntheticError(id, now)

simulateTokenBucketRequest(call, clientId, id, now) ==
    SimulateResult(call, mapDecision(Field(call, "body"), clientId),
                   createSyntheticErrorResult(id, now))

mapPolicySnapshot(raw) ==
    PolicySnapshot(raw, "token_bucket",
        [capacity |-> toPositiveIntOrNull(Field(raw.params_json, "capacity")),
         refillRatePerSec |-> toPositiveFloatOrNull(Field(raw.params_json, "refill_rate_per_sec")),
         tokensPerRequest |->
             OrElse(toPositiveIntOrNull(Field(raw.params_json, "tokens_per_request")), One)],
        {"capacity", "refillRatePerSec"})

listPolicies(gw) == Snapshots(gw.rows, mapPolicySnapshot)

getActivePolicy(gw) == ActiveSnapshot(gw, mapPolicySnapshot)

createPolicy(gw, name, config) ==
    Parsed(createPolicyRaw(gw, name, "token_bucket",
               [capacity |-> config.capacity, refill_rate_per_sec |-> config.refillRatePerSec,
                tokens_per_request |-> config.tokensPerRequest]),
           mapPolicySnapshot)

updatePolicy(gw, id, config) ==
    Parsed(updatePolicyRaw(gw, id, "token_bucket",
               [capacity |-> config.capacity, refill_rate_per_sec |-> config.refillRatePerSec,
                tokens_per_request |-> config.tokensPerRequest]),
           mapPolicySnapshot)

syncTokenBucketPolicyConfig(gw, config) ==
    syncDashboardPolicy(gw, DASHBOARD_POLICY_NAME, config, getActivePolicy,
                        listPolicies, updatePolicy, createPolicy)

-----------------------------------------------------------------------------
clampConfig(config) ==
    [config EXCEPT
        !.capacity = Floor(safeNumber(@, One)),
        !.refillRatePerSec = safeNumber(@, 1),
        !.tokensPerRequest = Floor(safeNumber(@, One)),
        !.rps = Floor(safeNumber(@, One)),
        !.rotatingPoolSize = Floor(safeNumber(@, 2 * One))]

\* The form takes the numbers of the gateway's policy.
applyPolicy(config, policy) ==
    clampConfig([config EXCEPT !.capacity = policy.numbers.capacity,
                               !.refillRatePerSec = policy.numbers.refillRatePerSec,
                               !.tokensPerRequest = policy.numbers.tokensPerRequest])

reloadActivePolicy(gw, config) ==
    LET backendPolicy == getActivePolicy(gw) IN
    [activePolicy |-> backendPolicy,
     config |-> IF isRecord(backendPolicy) THEN applyPolicy(config, backendPolicy) ELSE config]

\* Start takes the form to the gateway; a sync that fails starts nothing.
start(gw, config, activePolicy) ==
    LET resolvedConfig == clampConfig(config)
        synced == syncTokenBucketPolicyConfig(gw, resolvedConfig)
    IN [gw |-> synced.gw, ok |-> isRecord(synced.policy),
        activePolicy |-> OrElse(synced.policy, activePolicy),
        config |-> IF isRecord(synced.policy) THEN applyPolicy(resolvedConfig, synced.policy)
                   ELSE resolvedConfig]

INITIAL_KPI(config) ==
    [totals |-> NoTotals, currentTokens |-> null, currentCapacity |-> config.capacity,
     currentRefillRatePerSec |-> config.refillRatePerSec,
     currentTokensPerRequest |-> config.tokensPerRequest, currentRequestBudget |-> null]

\* What the answer says, or else what follows from its level.
deriveKpi(events, config) ==
    LET stats == deriveBaseKpiStats(events)
        state == stats.state
        fallbackBudget ==
            IF isRecord(state)
            THEN AtLeast(0, Quotient(state.tokens, state.tokensPerRequest)) ELSE null
    IN [totals |-> Totals(stats),
        currentTokens |-> Field(state, "tokens"),
        currentCapacity |-> OrElse(Field(state, "capacity"), config.capacity),
        currentRefillRatePerSec |->
            OrElse(Field(state, "refillRatePerSec"), config.refillRatePerSec),
        currentTokensPerRequest |->
            OrElse(Field(state, "tokensPerRequest"), config.tokensPerRequest),
        currentRequestBudget |-> OrElse(Field(stats.latestDecision, "remaining"), fallbackBudget)]

kpi(events, config) ==
    IF events = <<>> THEN INITIAL_KPI(config) ELSE deriveKpi(events, config)

appendEvent(events, event) == Capped(Append(events, event))

appendSyntheticError(events, id, now) == appendEvent(events, SyntheticError(id, now))

-----------------------------------------------------------------------------
Rose(previous, current) == current.tokens > previous.tokens

\* A level higher than that of the point before is taken for a refill.
TokensOverTimeChart(events) ==
    LET points == WithState(events) IN
    [series |-> Series(points, LAMBDA d : d.algorithmState.tokens),
     capacitySeries |-> Series(points, LAMBDA d : d.algorithmState.capacity),
     rejectPoints |-> Series(Denied(points),
                             LAMBDA d : d.algorithmState.tokens),
     refillPoints |-> Shifts(points, Rose)]

OutcomeTimeline(events) ==
    Timeline(events, {"tokens", "capacity", "refillRatePerSec", "tokensPerRequest"})

RequestLogTable(events, rejectedOnly) ==
    LogTable(events, rejectedOnly, {"tokens", "capacity", "refillRatePerSec", "tokensPerRequest"})

diagnostics(events) == Diagnostics(events, 8)

contractSummary(events) == ContractSummary(events)

TokenBucketDashboard(events, config, rejectedOnly) ==
    [kpi |-> kpi(events, config),
     chart |-> TokensOverTimeChart(events),
     timeline |-> OutcomeTimeline(events),
     log |-> RequestLogTable(events, rejectedOnly),
     diagnostics |-> diagnostics(events),
     contract |-> contractSummary(events)]
=============================================================================
