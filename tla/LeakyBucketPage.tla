-------------------------- MODULE LeakyBucketPage ---------------------------
(***************************************************************************)
(* The leaky bucket dashboard: what it makes of the gateway's answers, and *)
(* the policy it keeps there.                                              *)
(***************************************************************************)
EXTENDS ApiCommon

DASHBOARD_POLICY_NAME == "leaky-bucket-dashboard"

AlgorithmStates ==
    [count : Number, windowStartMs : Number, windowSizeSec : Number,
     stateSchemaVersion : Number, waterLevel : Number, capacity : Number,
     leakRatePerSec : Number, waterPerRequest : Number, lastLeakMs : Number]

\* The numbers of a state, and those that it must have.
Decoded(raw) ==
    [count |-> toNumberOrNull(Field(raw, "count")),
     windowStartMs |-> toNumberOrNull(Field(raw, "window_start_ms")),
     windowSizeSec |-> toNumberOrNull(Field(raw, "window_size_sec")),
     stateSchemaVersion |-> toNumberOrNull(Field(raw, "state_schema_version")),
     waterLevel |-> toNumberOrNull(Field(raw, "water_level")),
     capacity |-> toPositiveIntOrNull(Field(raw, "capacity")),
     leakRatePerSec |-> toPositiveFloatOrNull(Field(raw, "leak_rate_per_sec")),
     waterPerRequest |-> toPositiveIntOrNull(Field(raw, "water_per_request")),
     lastLeakMs |-> toNumberOrNull(Field(raw, "last_leak_ms"))]
Baseline ==
    {"count", "windowStartMs", "windowSizeSec", "waterLevel", "capacity",
     "leakRatePerSec", "waterPerRequest", "lastLeakMs"}

mapAlgorithmState(raw) == StateOf(raw, Decoded(raw), Baseline, SchemaWarning(raw))

mapDecision(raw, fallbackClientId) ==
    DecisionOf(raw, fallbackClientId, mapAlgorithmState(Field(raw, "algorithm_state")),
               AlgorithmWarning(raw, "leaky_bucket") \o RetryWarning(raw))

createSyntheticErrorResult(id, now) == SyntheticError(id, now)

simulateLeakyBucketRequest(call, clientId, id, now) ==
    SimulateResult(call, mapDecision(Field(call, "body"), clientId),
                   createSyntheticErrorResult(id, now))

mapPolicySnapshot(raw) ==
    PolicySnapshot(raw, "leaky_bucket",
        [capacity |-> toPositiveIntOrNull(Field(raw.params_json, "capacity")),
         leakRatePerSec |-> toPositiveFloatOrNull(Field(raw.params_json, "leak_rate_per_sec")),
         waterPerRequest |->
             OrElse(toPositiveIntOrNull(Field(raw.params_json, "water_per_request")), One)],
        {"capacity", "leakRatePerSec"})

listPolicies(gw) == Snapshots(gw.rows, mapPolicySnapshot)

getActivePolicy(gw) == ActiveSnapshot(gw, mapPolicySnapshot)

createPolicy(gw, name, config) ==
    Parsed(createPolicyRaw(gw, name, "leaky_bucket",
               [capacity |-> config.capacity, leak_rate_per_sec |-> config.leakRatePerSec,
                water_per_request |-> config.waterPerRequest]),
           mapPolicySnapshot)

updatePolicy(gw, id, config) ==
    Parsed(updatePolicyRaw(gw, id, "leaky_bucket",
               [capacity |-> config.capacity, leak_rate_per_sec |-> config.leakRatePerSec,
                water_per_request |-> config.waterPerRequest]),
           mapPolicySnapshot)

syncLeakyBucketPolicyConfig(gw, config) ==
    syncDashboardPolicy(gw, DASHBOARD_POLICY_NAME, config, getActivePolicy,
                        listPolicies, updatePolicy, createPolicy)

-----------------------------------------------------------------------------
clampConfig(config) ==
    [config EXCEPT
        !.capacity = Floor(safeNumber(@, One)),
        !.leakRatePerSec = safeNumber(@, 1),
        !.waterPerRequest = Floor(safeNumber(@, One)),
        !.rps = Floor(safeNumber(@, One)),
        !.rotatingPoolSize = Floor(safeNumber(@, 2 * One))]

\* The form takes the numbers of the gateway's policy.
applyPolicy(config, policy) ==
    clampConfig([config EXCEPT !.capacity = policy.numbers.capacity,
                               !.leakRatePerSec = policy.numbers.leakRatePerSec,
                               !.waterPerRequest = policy.numbers.waterPerRequest])

reloadActivePolicy(gw, config) ==
    LET backendPolicy == getActivePolicy(gw) IN
    [activePolicy |-> backendPolicy,
     config |-> IF isRecord(backendPolicy) THEN applyPolicy(config, backendPolicy) ELSE config]

\* Start takes the form to the gateway; a sync that fails starts nothing.
start(gw, config, activePolicy) ==
    LET resolvedConfig == clampConfig(config)
        synced == syncLeakyBucketPolicyConfig(gw, resolvedConfig)
    IN [gw |-> synced.gw, ok |-> isRecord(synced.policy),
        activePolicy |-> OrElse(synced.policy, activePolicy),
        config |-> IF isRecord(synced.policy) THEN applyPolicy(resolvedConfig, synced.policy)
                   ELSE resolvedConfig]

INITIAL_KPI(config) ==
    [totals |-> NoTotals, currentWaterLevel |-> null, currentCapacity |-> config.capacity,
     currentLeakRatePerSec |-> config.leakRatePerSec,
     currentWaterPerRequest |-> config.waterPerRequest, currentHeadroom |-> null]

\* What the answer says, or else what follows from its level.
deriveKpi(events, config) ==
    LET stats == deriveBaseKpiStats(events)
        state == stats.state
        fallbackHeadroom ==
            IF isRecord(state)
            THEN AtLeast(0, Quotient(state.capacity - state.waterLevel, state.waterPerRequest))
            ELSE null
    IN [totals |-> Totals(stats),
        currentWaterLevel |-> Field(state, "waterLevel"),
        currentCapacity |-> OrElse(Field(state, "capacity"), config.capacity),
        currentLeakRatePerSec |-> OrElse(Field(state, "leakRatePerSec"), config.leakRatePerSec),
        currentWaterPerRequest |-> OrElse(Field(state, "waterPerRequest"), config.waterPerRequest),
        currentHeadroom |-> OrElse(Field(stats.latestDecision, "remaining"), fallbackHeadroom)]

kpi(events, config) ==
    IF events = <<>> THEN INITIAL_KPI(config) ELSE deriveKpi(events, config)

appendEvent(events, event) == Capped(Append(events, event))

appendSyntheticError(events, id, now) == appendEvent(events, SyntheticError(id, now))

-----------------------------------------------------------------------------
Fell(previous, current) == current.waterLevel < previous.waterLevel

\* A level lower than that of the point before is taken for a leak.
WaterLevelChart(events) ==
    LET points == WithState(events) IN
    [series |-> Series(points, LAMBDA d : d.algorithmState.waterLevel),
     capacitySeries |-> Series(points, LAMBDA d : d.algorithmState.capacity),
     rejectPoints |-> Series(Denied(points),
                             LAMBDA d : d.algorithmState.waterLevel),
     leakShiftPoints |-> Shifts(points, Fell)]

OutcomeTimeline(events) ==
    Timeline(events, {"waterLevel", "capacity", "leakRatePerSec", "waterPerRequest"})

RequestLogTable(events, rejectedOnly) ==
    LogTable(events, rejectedOnly, {"waterLevel", "capacity", "leakRatePerSec", "waterPerRequest"})

diagnostics(events) == Diagnostics(events, 8)

contractSummary(events) == ContractSummary(events)

LeakyBucketDashboard(events, config, rejectedOnly) ==
    [kpi |-> kpi(events, config),
     chart |-> WaterLevelChart(events),
     timeline |-> OutcomeTimeline(events),
     log |-> RequestLogTable(events, rejectedOnly),
     diagnostics |-> diagnostics(events),
     contract |-> contractSummary(events)]
=============================================================================
