--------------------------- MODULE SlidingLogPage ---------------------------
(***************************************************************************)
(* The sliding log dashboard: what it makes of the gateway's answers, and  *)
(* the policy it keeps there.                                              *)
(***************************************************************************)
EXTENDS ApiCommon

DASHBOARD_POLICY_NAME == "sliding-log-dashboard"

AlgorithmStates ==
    [count : Number, windowStartMs : Number, windowSizeSec : Number,
     stateSchemaVersion : Number, oldestInWindowMs : Number]

\* The numbers of a state, and those that it must have.
Decoded(raw) ==
    [count |-> toNumberOrNull(Field(raw, "count")),
     windowStartMs |-> toNumberOrNull(Field(raw, "window_start_ms")),
     windowSizeSec |-> toNumberOrNull(Field(raw, "window_size_sec")),
     stateSchemaVersion |-> toNumberOrNull(Field(raw, "state_schema_version")),
     oldestInWindowMs |-> toNumberOrNull(Field(raw, "oldest_in_window_ms"))]
Baseline ==
    {"count", "windowStartMs", "windowSizeSec"}

mapAlgorithmState(raw) == StateOf(raw, Decoded(raw), Baseline, SchemaWarning(raw))

mapDecision(raw, fallbackClientId) ==
    DecisionOf(raw, fallbackClientId, mapAlgorithmState(Field(raw, "algorithm_state")),
               AlgorithmWarning(raw, "sliding_log") \o RetryWarning(raw))

createSyntheticErrorResult(id, now) == SyntheticError(id, now)

simulateSlidingLogRequest(call, clientId, id, now) ==
    SimulateResult(call, mapDecision(Field(call, "body"), clientId),
                   createSyntheticErrorResult(id, now))

mapPolicySnapshot(raw) ==
    PolicySnapshot(raw, "sliding_log",
        [limit |-> toPositiveIntOrNull(Field(raw.params_json, "limit")),
         windowSizeSec |-> toPositiveIntOrNull(Field(raw.params_json, "window_size_sec"))],
        {"limit", "windowSizeSec"})

listPolicies(gw) == Snapshots(gw.rows, mapPolicySnapshot)

getActivePolicy(gw) == ActiveSnapshot(gw, mapPolicySnapshot)

createPolicy(gw, name, config) ==
    Parsed(createPolicyRaw(gw, name, "sliding_log",
               [limit |-> config.limit, window_size_sec |-> config.windowSizeSec]),
           mapPolicySnapshot)

updatePolicy(gw, id, config) ==
    Parsed(updatePolicyRaw(gw, id, "sliding_log",
               [limit |-> config.limit, window_size_sec |-> config.windowSizeSec]),
           mapPolicySnapshot)

syncSlidingLogPolicyConfig(gw, config) ==
    syncDashboardPolicy(gw, DASHBOARD_POLICY_NAME, config, getActivePolicy,
                        listPolicies, updatePolicy, createPolicy)

-----------------------------------------------------------------------------
clampConfig(config) ==
    [config EXCEPT
        !.limit = Floor(safeNumber(@, One)),
        !.windowSizeSec = Floor(safeNumber(@, One)),
        !.rps = Floor(safeNumber(@, One)),
        !.rotatingPoolSize = Floor(safeNumber(@, 2 * One))]

\* The form takes the numbers of the gateway's policy.
applyPolicy(config, policy) ==
    clampConfig([config EXCEPT !.limit = policy.numbers.limit,
                               !.windowSizeSec = policy.numbers.windowSizeSec])

reloadActivePolicy(gw, config) ==
    LET backendPolicy == getActivePolicy(gw) IN
    [activePolicy |-> backendPolicy,
     config |-> IF isRecord(backendPolicy) THEN applyPolicy(config, backendPolicy) ELSE config]

\* Start takes the form to the gateway; a sync that fails starts nothing.
start(gw, config, activePolicy) ==
    LET resolvedConfig == clampConfig(config)
        synced == syncSlidingLogPolicyConfig(gw, resolvedConfig)
    IN [gw |-> synced.gw, ok |-> isRecord(synced.policy),
        activePolicy |-> OrElse(synced.policy, activePolicy),
        config |-> IF isRecord(synced.policy) THEN applyPolicy(resolvedConfig, synced.policy)
                   ELSE resolvedConfig]

INITIAL_KPI(config) ==
    [totals |-> NoTotals, currentCount |-> null, currentLimit |-> config.limit,
     currentRemaining |-> null, currentWindowStartMs |-> null, currentWindowEndMs |-> null]

\* The limit is that of the form, not that of the answer.
deriveKpi(events, config) ==
    LET stats == deriveBaseKpiStats(events)
        state == stats.state
    IN [totals |-> Totals(stats),
        currentCount |-> Field(state, "count"),
        currentLimit |-> config.limit,
        currentRemaining |-> Field(stats.latestDecision, "remaining"),
        currentWindowStartMs |-> Field(state, "windowStartMs"),
        currentWindowEndMs |-> IF isRecord(state) THEN state.windowStartMs + state.windowSizeSec
                               ELSE null]

kpi(events, config) ==
    IF events = <<>> THEN INITIAL_KPI(config) ELSE deriveKpi(events, config)

appendEvent(events, event) == Capped(Append(events, event))

appendSyntheticError(events, id, now) == appendEvent(events, SyntheticError(id, now))

-----------------------------------------------------------------------------
\* Mutant of Fell: a level count is marked too.
FellOrStayed(previous, current) == current.count <= previous.count

\* A count lower than that of the point before is taken for an expiry.
Fell(previous, current) == current.count < previous.count

WindowOccupancyChart(events, config) ==
    LET points == WithState(events) IN
    [series |-> Series(points, LAMBDA d : d.algorithmState.count),
     limitSeries |-> Series(points, LAMBDA d : config.limit),
     rejectPoints |-> Series(Denied(points),
                             LAMBDA d : d.algorithmState.count),
     expiryPoints |-> Shifts(points, Fell)]

OutcomeTimeline(events) ==
    Timeline(events, {"count", "windowStartMs"})

RequestLogTable(events, rejectedOnly) ==
    LogTable(events, rejectedOnly, {"count"})

diagnostics(events) == Diagnostics(events, 8)

contractSummary(events) == ContractSummary(events)

SlidingLogDashboard(events, config, rejectedOnly) ==
    [kpi |-> kpi(events, config),
     chart |-> WindowOccupancyChart(events, config),
     timeline |-> OutcomeTimeline(events),
     log |-> RequestLogTable(events, rejectedOnly),
     diagnostics |-> diagnostics(events),
     contract |-> contractSummary(events)]
=============================================================================
