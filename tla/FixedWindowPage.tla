-------------------------- MODULE FixedWindowPage ---------------------------
(***************************************************************************)
(* The fixed window dashboard: what it makes of the gateway's answers, and *)
(* the policy it keeps there.                                              *)
(***************************************************************************)
EXTENDS ApiCommon

DASHBOARD_POLICY_NAME == "fixed-window-dashboard"

AlgorithmStates ==
    [count : Number, windowStartMs : Number, windowSizeSec : Number]

\* The numbers of a state, and those that it must have.
Decoded(raw) ==
    [count |-> toNumberOrNull(Field(raw, "count")),
     windowStartMs |-> toNumberOrNull(Field(raw, "window_start_ms")),
     windowSizeSec |-> toNumberOrNull(Field(raw, "window_size_sec"))]
Baseline ==
    {"count", "windowStartMs", "windowSizeSec"}

\* The schema version is not looked at.
mapAlgorithmState(raw) == StateOf(raw, Decoded(raw), Baseline, <<>>)

mapDecision(raw, fallbackClientId) ==
    DecisionOf(raw, fallbackClientId, mapAlgorithmState(Field(raw, "algorithm_state")),
               AlgorithmWarning(raw, "fixed_window"))

createSyntheticErrorResult(id, now) == SyntheticError(id, now)

simulateFixedWindowRequest(call, clientId, id, now) ==
    SimulateResult(call, mapDecision(Field(call, "body"), clientId),
                   createSyntheticErrorResult(id, now))

mapPolicySnapshot(raw) ==
    PolicySnapshot(raw, "fixed_window",
        [limit |-> toPositiveIntOrNull(Field(raw.params_json, "limit")),
         windowSizeSec |-> toPositiveIntOrNull(Field(raw.params_json, "window_size_sec"))],
        {"limit", "windowSizeSec"})

listPolicies(gw) == Snapshots(gw.rows, mapPolicySnapshot)

getActivePolicy(gw) == ActiveSnapshot(gw, mapPolicySnapshot)

createPolicy(gw, name, config) ==
    Parsed(createPolicyRaw(gw, name, "fixed_window",
               [limit |-> config.limit, window_size_sec |-> config.windowSizeSec]),
           mapPolicySnapshot)

updatePolicy(gw, id, config) ==
    Parsed(updatePolicyRaw(gw, id, "fixed_window",
               [limit |-> config.limit, window_size_sec |-> config.windowSizeSec]),
           mapPolicySnapshot)

syncFixedWindowPolicyConfig(gw, config) ==
    syncDashboardPolicy(gw, DASHBOARD_POLICY_NAME, config, getActivePolicy,
                        listPolicies, updatePolicy, createPolicy)

-----------------------------------------------------------------------------
clampConfig(config) ==
    [config EXCEPT
        !.limit = Floor(safeNumber(@, One)),
        !.windowSizeSec = Floor(safeNumber(@, One)),
        !.rps = Floor(safeNumber(@, One)),
        !.rotatingPoolSize = Floor(safeNumber(@, 2 * One))]

\* The form takes the numbers of the gateway's policy.
applyPolicy(config, policy) ==
    clampConfig([config EXCEPT !.limit = policy.numbers.limit,
                               !.windowSizeSec = policy.numbers.windowSizeSec])

reloadActivePolicy(gw, config) ==
    LET backendPolicy == getActivePolicy(gw) IN
    [activePolicy |-> backendPolicy,
     config |-> IF isRecord(backendPolicy) THEN applyPolicy(config, backendPolicy) ELSE config]

\* Start takes the form to the gateway; a sync that fails starts nothing.
start(gw, config, activePolicy) ==
    LET resolvedConfig == clampConfig(config)
        synced == syncFixedWindowPolicyConfig(gw, resolvedConfig)
    IN [gw |-> synced.gw, ok |-> isRecord(synced.policy),
        activePolicy |-> OrElse(synced.policy, activePolicy),
        config |-> IF isRecord(synced.policy) THEN applyPolicy(resolvedConfig, synced.policy)
                   ELSE resolvedConfig]

INITIAL_KPI(config) ==
    [totals |-> NoTotals, currentCount |-> null, currentLimit |-> config.limit,
     currentRemaining |-> null, currentWindowStartMs |-> null, currentWindowEndMs |-> null]

\* The limit is that of the form, not that of the answer.
deriveKpi(events, config) ==
    LET stats == deriveBaseKpiStats(events)
        state == stats.state
    IN [totals |-> Totals(stats),
        currentCount |-> Field(state, "count"),
        currentLimit |-> config.limit,
        currentRemaining |-> Field(stats.latestDecision, "remaining"),
        currentWindowStartMs |-> Field(state, "windowStartMs"),
        currentWindowEndMs |-> IF isRecord(state) THEN state.windowStartMs + state.windowSizeSec
                               ELSE null]

kpi(events, config) ==
    IF events = <<>> THEN INITIAL_KPI(config) ELSE deriveKpi(events, config)

WindowStarts(events) == {e.decision.algorithmState.windowStartMs : e \in ToSet(WithState(events))}

\* One boundary for each window seen, by its first answer, in order of time.
deriveBoundaries(events) ==
    LET states == [i \in 1 .. Len(WithState(events)) |->
                      WithState(events)[i].decision.algorithmState]
        First(begin) == CHOOSE i \in DOMAIN states :
            /\ states[i].windowStartMs = begin
            /\ \A j \in 1 .. i - 1 : states[j].windowStartMs # begin
        starts == Ascending(WindowStarts(events))
    IN [k \in DOMAIN starts |->
           [windowStartMs |-> starts[k],
            windowEndMs |-> starts[k] + states[First(starts[k])].windowSizeSec]]

appendEvent(events, event) == Capped(Append(events, event))

appendSyntheticError(events, id, now) == appendEvent(events, SyntheticError(id, now))

-----------------------------------------------------------------------------
WindowOccupancyChart(events, config) ==
    LET points == WithState(events) IN
    [series |-> Series(points, LAMBDA d : d.algorithmState.count),
     limitSeries |-> Series(points, LAMBDA d : config.limit),
     rejectPoints |-> Series(Denied(points),
                             LAMBDA d : d.algorithmState.count),
     boundaryLines |-> [k \in DOMAIN deriveBoundaries(events) |->
                           deriveBoundaries(events)[k].windowStartMs]]

OutcomeTimeline(events) ==
    Timeline(events, {"count"})

RequestLogTable(events, rejectedOnly) ==
    LogTable(events, rejectedOnly, {"count"})

diagnostics(events) == Diagnostics(events, 8)

FixedWindowDashboard(events, config, rejectedOnly) ==
    [kpi |-> kpi(events, config),
     chart |-> WindowOccupancyChart(events, config),
     timeline |-> OutcomeTimeline(events),
     log |-> RequestLogTable(events, rejectedOnly),
     diagnostics |-> diagnostics(events)]
=============================================================================
