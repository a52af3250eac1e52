-------------------------------- MODULE Pages --------------------------------
(***************************************************************************)
(* The five dashboards under one set of names: App.tsx mounts one of them, *)
(* by the route, and each is named here by its algorithm.                  *)
(***************************************************************************)
EXTENDS ApiCommon

FW == INSTANCE FixedWindowPage
SL == INSTANCE SlidingLogPage
SWC == INSTANCE SlidingWindowCounterPage
TB == INSTANCE TokenBucketPage
LB == INSTANCE LeakyBucketPage

PageNames == {"fixed_window", "sliding_log", "sliding_window_counter",
              "token_bucket", "leaky_bucket"}

\* The states and the decisions that the pages make of answers.
PageStates ==
    FW!AlgorithmStates \cup SL!AlgorithmStates \cup SWC!AlgorithmStates
    \cup TB!AlgorithmStates \cup LB!AlgorithmStates

Decisions ==
    [requestId : Int, ts : Int, allowed : BOOLEAN, algorithm : PageNames,
     retryAfterMs : Number, remaining : Number, clientId : Int,
     algorithmState : {null} \cup PageStates]

simulateRequest(page, call, clientId, id, now) ==
    CASE page = "fixed_window" -> FW!simulateFixedWindowRequest(call, clientId, id, now)
      [] page = "sliding_log" -> SL!simulateSlidingLogRequest(call, clientId, id, now)
      [] page = "sliding_window_counter" ->
             SWC!simulateSlidingWindowCounterRequest(call, clientId, id, now)
      [] page = "token_bucket" -> TB!simulateTokenBucketRequest(call, clientId, id, now)
      [] page = "leaky_bucket" -> LB!simulateLeakyBucketRequest(call, clientId, id, now)

appendEvent(page, events, event) ==
    CASE page = "fixed_window" -> FW!appendEvent(events, event)
      [] page = "sliding_log" -> SL!appendEvent(events, event)
      [] page = "sliding_window_counter" -> SWC!appendEvent(events, event)
      [] page = "token_bucket" -> TB!appendEvent(events, event)
      [] page = "leaky_bucket" -> LB!appendEvent(events, event)

appendSyntheticError(page, events, id, now) ==
    CASE page = "fixed_window" -> FW!appendSyntheticError(events, id, now)
      [] page = "sliding_log" -> SL!appendSyntheticError(events, id, now)
      [] page = "sliding_window_counter" -> SWC!appendSyntheticError(events, id, now)
      [] page = "token_bucket" -> TB!appendSyntheticError(events, id, now)
      [] page = "leaky_bucket" -> LB!appendSyntheticError(events, id, now)

\* What the page shows.
Dashboard(page, events, config, rejectedOnly) ==
    CASE page = "fixed_window" -> FW!FixedWindowDashboard(events, config, rejectedOnly)
      [] page = "sliding_log" -> SL!SlidingLogDashboard(events, config, rejectedOnly)
      [] page = "sliding_window_counter" ->
             SWC!SlidingWindowCounterDashboard(events, config, rejectedOnly)
      [] page = "token_bucket" -> TB!TokenBucketDashboard(events, config, rejectedOnly)
      [] page = "leaky_bucket" -> LB!LeakyBucketDashboard(events, config, rejectedOnly)

\* What a view says can still be sent.
Budget(page, view) ==
    CASE page = "token_bucket" -> view.kpi.currentRequestBudget
      [] page = "leaky_bucket" -> view.kpi.currentHeadroom
      [] OTHER -> view.kpi.currentRemaining

\* The points that a chart marks as an expiry, a refill or a leak.
Markers(page, view) ==
    CASE page = "sliding_log" -> view.chart.expiryPoints
      [] page = "token_bucket" -> view.chart.refillPoints
      [] page = "leaky_bucket" -> view.chart.leakShiftPoints
      [] OTHER -> {}

clampConfig(page, config) ==
    CASE page = "fixed_window" -> FW!clampConfig(config)
      [] page = "sliding_log" -> SL!clampConfig(config)
      [] page = "sliding_window_counter" -> SWC!clampConfig(config)
      [] page = "token_bucket" -> TB!clampConfig(config)
      [] page = "leaky_bucket" -> LB!clampConfig(config)

mapPolicySnapshot(page, raw) ==
    CASE page = "fixed_window" -> FW!mapPolicySnapshot(raw)
      [] page = "sliding_log" -> SL!mapPolicySnapshot(raw)
      [] page = "sliding_window_counter" -> SWC!mapPolicySnapshot(raw)
      [] page = "token_bucket" -> TB!mapPolicySnapshot(raw)
      [] page = "leaky_bucket" -> LB!mapPolicySnapshot(raw)

start(page, gw, config, activePolicy) ==
    CASE page = "fixed_window" -> FW!start(gw, config, activePolicy)
      [] page = "sliding_log" -> SL!start(gw, config, activePolicy)
      [] page = "sliding_window_counter" -> SWC!start(gw, config, activePolicy)
      [] page = "token_bucket" -> TB!start(gw, config, activePolicy)
      [] page = "leaky_bucket" -> LB!start(gw, config, activePolicy)

reloadActivePolicy(page, gw, config) ==
    CASE page = "fixed_window" -> FW!reloadActivePolicy(gw, config)
      [] page = "sliding_log" -> SL!reloadActivePolicy(gw, config)
      [] page = "sliding_window_counter" -> SWC!reloadActivePolicy(gw, config)
      [] page = "token_bucket" -> TB!reloadActivePolicy(gw, config)
      [] page = "leaky_bucket" -> LB!reloadActivePolicy(gw, config)

DashboardName(page) ==
    CASE page = "fixed_window" -> FW!DASHBOARD_POLICY_NAME
      [] page = "sliding_log" -> SL!DASHBOARD_POLICY_NAME
      [] page = "sliding_window_counter" -> SWC!DASHBOARD_POLICY_NAME
      [] page = "token_bucket" -> TB!DASHBOARD_POLICY_NAME
      [] page = "leaky_bucket" -> LB!DASHBOARD_POLICY_NAME
=============================================================================
