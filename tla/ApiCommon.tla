------------------------------ MODULE ApiCommon ------------------------------
(***************************************************************************)
(* What the five dashboards share on their side of the network: decoding   *)
(* the gateway's JSON, keeping the list of events, and deriving numbers    *)
(* and chart series from it.                                               *)
(* An issue is its code: the message and the severity follow from it.      *)
(***************************************************************************)
EXTENDS GatewayAnswers

CONSTANT UI_EVENT_CAP  \* events that a dashboard keeps

ASSUME CapAssumption == UI_EVENT_CAP \in Nat \ {0}

Present(record, fields) == \A f \in fields : record[f] # null

toNumberOrNull(value) == IF value \in Int THEN value ELSE null

\* A positive fraction below one becomes zero.
toPositiveIntOrNull(value) ==
    IF toNumberOrNull(value) = null THEN null
    ELSE IF value <= 0 THEN null ELSE Floor(value)

toPositiveFloatOrNull(value) ==
    IF toNumberOrNull(value) = null THEN null
    ELSE IF value <= 0 THEN null ELSE value

-----------------------------------------------------------------------------
(***************************************************************************)
(* Answers of the simulate endpoint.                                       *)
(***************************************************************************)

\* A state with every required field, or the reason why there is none; a
\* missing schema version is only a warning.
StateOf(raw, state, required, warnings) ==
    IF ~ isRecord(raw) THEN [state |-> null, issues |-> <<"missing_algorithm_state">>]
    ELSE IF ~ Present(state, required)
    THEN [state |-> null, issues |-> <<"partial_algorithm_state">>]
    ELSE [state |-> state, issues |-> warnings]

SchemaWarning(raw) ==
    IF toNumberOrNull(Field(raw, "state_schema_version")) = null
    THEN <<"missing_state_schema_version">> ELSE <<>>

AlgorithmWarning(raw, algorithm) ==
    IF Field(raw, "algorithm") # algorithm THEN <<"unexpected_algorithm">> ELSE <<>>

RetryWarning(raw) ==
    LET retry == toNumberOrNull(Field(raw, "retry_after_ms")) IN
    IF raw.allowed /\ retry # null /\ OrElse(retry, 0) > 0
    THEN <<"unexpected_retry_after_on_allow">> ELSE <<>>

\* The decision that an answer carries, whatever its algorithm, or none when
\* a required field is missing.
DecisionOf(raw, fallbackClientId, mapped, warnings) ==
    IF \E f \in {"request_id", "ts", "policy_id", "latency_ms", "allowed"} :
           Field(raw, f) = null
    THEN [decision |-> null, issues |-> <<"invalid_response">>]
    ELSE [decision |->
              [requestId |-> raw.request_id, ts |-> raw.ts, allowed |-> raw.allowed,
               algorithm |-> OrElse(Field(raw, "algorithm"), "unknown"),
               retryAfterMs |-> toNumberOrNull(Field(raw, "retry_after_ms")),
               remaining |-> toNumberOrNull(Field(raw, "remaining")),
               clientId |-> OrElse(Field(raw, "client_id"), fallbackClientId),
               algorithmState |-> mapped.state],
          issues |-> mapped.issues \o warnings]

SyntheticError(id, now) ==
    [id |-> id, ts |-> now, kind |-> "synthetic_error", decision |-> null,
     issues |-> <<"request_error">>]

\* Mutant of SimulateResult: every status but 200 is an error.
StrictSimulateResult(call, mapped, error) ==
    IF \/ call.kind # "http"
       \/ ~ call.ok
       \/ mapped.decision = null
    THEN error
    ELSE [id |-> mapped.decision.requestId, ts |-> mapped.decision.ts,
          kind |-> "decision", decision |-> mapped.decision, issues |-> mapped.issues]

\* A denial (429) is a decision; any other failure is a synthetic error.
SimulateResult(call, mapped, error) ==
    IF \/ call.kind # "http"
       \/ ~ call.ok /\ call.status # 429
       \/ mapped.decision = null
    THEN error
    ELSE [id |-> mapped.decision.requestId, ts |-> mapped.decision.ts,
          kind |-> "decision", decision |-> mapped.decision, issues |-> mapped.issues]

-----------------------------------------------------------------------------
(***************************************************************************)
(* Policies.  A call that throws has the value null.                       *)
(***************************************************************************)

PolicySnapshot(raw, algorithm, numbers, required) ==
    IF \/ raw.algorithm # algorithm
       \/ ~ isRecord(raw.params_json)
       \/ ~ Present(numbers, required)
    THEN null
    ELSE [id |-> raw.id, name |-> raw.name, enabled |-> raw.enabled,
          version |-> raw.version, numbers |-> numbers]

Snapshots(rows, mapPolicySnapshot(_)) ==
    {mapPolicySnapshot(raw) : raw \in rows} \ {null}

\* A request sets enabled unless it says otherwise, and no page does.
createPolicyRaw(gw, name, algorithm, paramsJson) ==
    CreateRow(gw, [name |-> name, algorithm |-> algorithm, params_json |-> paramsJson,
                   enabled |-> TRUE])

\* Mutant of updatePolicyRaw: enabled is left out of the request.
updateWithoutEnabled(gw, id, algorithm, paramsJson) ==
    UpdateRow(gw, id, [algorithm |-> algorithm, params_json |-> paramsJson])

updatePolicyRaw(gw, id, algorithm, paramsJson) ==
    UpdateRow(gw, id, [algorithm |-> algorithm, params_json |-> paramsJson, enabled |-> TRUE])

\* The snapshot of the policy that a create or an update answers with.
Parsed(answer, mapPolicySnapshot(_)) ==
    [gw |-> answer.gw,
     policy |-> IF isRecord(answer.body) THEN mapPolicySnapshot(answer.body) ELSE null]

\* GET /api/policies/active: not found is no policy.
ActiveSnapshot(gw, mapPolicySnapshot(_)) ==
    LET raw == ActiveRow(gw) IN IF isRecord(raw) THEN mapPolicySnapshot(raw) ELSE null

\* The active policy when it is the dashboard's own and enabled, else the one
\* of its name, else a new one, is given the config and activated; and the
\* active policy is read once more.  Names are unique.
syncDashboardPolicy(gw, dashboardPolicyName, config, getActivePolicy(_),
                    listPolicies(_), updatePolicy(_, _, _), createPolicy(_, _, _)) ==
    LET active == getActivePolicy(gw)
        managed == {p \in listPolicies(gw) : p.name = dashboardPolicyName}
        target ==
            IF active # null /\ Field(active, "enabled") = TRUE
            THEN updatePolicy(gw, active.id, config)
            ELSE IF managed # {}
                 THEN updatePolicy(gw, (CHOOSE p \in managed : TRUE).id, config)
                 ELSE createPolicy(gw, dashboardPolicyName, config)
        activated == ActivateRow(target.gw, target.policy.id)
    IN IF target.policy = null \/ activated.body = null
       THEN [gw |-> target.gw, policy |-> null]
       ELSE [gw |-> activated.gw, policy |-> getActivePolicy(activated.gw)]

-----------------------------------------------------------------------------
(***************************************************************************)
(* The form.                                                               *)
(***************************************************************************)

safeNumber(value, least) == IF value = null THEN least ELSE AtLeast(least, value)

\* The client of the next request, and the sequence number after it.
resolveSimulationClientId(config, dispatchSequence) ==
    IF config.clientIdMode = "single"
    THEN [clientId |-> config.singleClientId, dispatchSequence |-> dispatchSequence]
    ELSE [clientId |-> dispatchSequence % (config.rotatingPoolSize \div One),
          dispatchSequence |-> dispatchSequence + 1]

-----------------------------------------------------------------------------
(***************************************************************************)
(* Events, and what is derived from them.                                  *)
(***************************************************************************)

\* Mutant of Capped: the oldest events are kept.
CappedOldest(events) ==
    IF Len(events) <= UI_EVENT_CAP THEN events ELSE SubSeq(events, 1, UI_EVENT_CAP)

\* The newest events.
Capped(events) ==
    IF Len(events) <= UI_EVENT_CAP THEN events
    ELSE SubSeq(events, Len(events) - UI_EVENT_CAP + 1, Len(events))

\* The numbers of a finite set, in order, and the elements of a sequence at the
\* indexes of a set.
Ascending(S) ==
    [k \in 1 .. Cardinality(S) |-> CHOOSE x \in S : Cardinality({y \in S : y <= x}) = k]
Kept(seq, indexes) ==
    LET at == Ascending(indexes) IN [k \in 1 .. Cardinality(indexes) |-> seq[at[k]]]

IsDecision(event) == event.kind = "decision"
Decided(events) == Kept(events, {i \in DOMAIN events : IsDecision(events[i])})

WithState(events) ==
    Kept(events, {i \in DOMAIN events :
        IsDecision(events[i]) /\ events[i].decision.algorithmState # null})

Denied(events) == Kept(events, {i \in DOMAIN events : ~ events[i].decision.allowed})

\* Mutant of LatestOf: the search starts at the wrong end.
EarliestOf(events) == IF events = <<>> THEN null ELSE Head(events).decision

LatestOf(events) == IF events = <<>> THEN null ELSE Last(events).decision

\* Totals over the decisions kept, and the latest of them: the order is that
\* in which the answers came.
deriveBaseKpiStats(events) ==
    LET decisionEvents == Decided(events)
        allowed == {i \in DOMAIN decisionEvents : decisionEvents[i].decision.allowed}
        timed == Kept(decisionEvents, {i \in DOMAIN decisionEvents :
                    /\ ~ decisionEvents[i].decision.allowed
                    /\ decisionEvents[i].decision.retryAfterMs # null})
        latest == LatestOf(decisionEvents)
    IN [total |-> Len(decisionEvents), allowed |-> Cardinality(allowed),
        rejected |-> Len(decisionEvents) - Cardinality(allowed),
        latestDecision |-> latest,
        lastRetryAfterMs |-> Field(LatestOf(timed), "retryAfterMs"),
        state |-> Field(latest, "algorithmState")]

Totals(stats) ==
    [total |-> stats.total, allowed |-> stats.allowed, rejected |-> stats.rejected,
     lastRetryAfterMs |-> stats.lastRetryAfterMs]

NoTotals == [total |-> 0, allowed |-> 0, rejected |-> 0, lastRetryAfterMs |-> null]

\* A series has one point for each event.
Series(events, Y(_)) ==
    [i \in 1 .. Len(events) |-> [at |-> events[i].ts, y |-> Y(events[i].decision)]]

\* The points at which a figure moved from that of the point before.
Shifts(events, Moved(_, _)) ==
    {i \in 2 .. Len(events) :
        Moved(events[i - 1].decision.algorithmState, events[i].decision.algorithmState)}

Figures(state, fields) == [f \in fields |-> Field(state, f)]

\* Denials and allowed requests on two rows of one axis.
Timeline(events, fields) ==
    LET Point(d) == [remaining |-> d.remaining, retryAfterMs |-> d.retryAfterMs,
                     figures |-> Figures(d.algorithmState, fields)]
        Row(isAllowed) ==
            Series(Kept(events, {i \in DOMAIN events :
                       IsDecision(events[i]) /\ events[i].decision.allowed = isAllowed}),
                   Point)
    IN [allowSeries |-> Row(TRUE), rejectSeries |-> Row(FALSE)]

LogRow(event, fields) ==
    IF ~ IsDecision(event) THEN [id |-> event.id, result |-> "ERROR"]
    ELSE [id |-> event.id,
          result |-> IF event.decision.allowed THEN "ALLOW" ELSE "REJECT",
          clientId |-> event.decision.clientId, remaining |-> event.decision.remaining,
          retryAfterMs |-> event.decision.retryAfterMs,
          figures |-> Figures(event.decision.algorithmState, fields)]

\* Mutant of IsLogged: an error is no rejection.
IsLoggedDecision(event, rejectedOnly) ==
    ~ rejectedOnly \/ (IsDecision(event) /\ ~ event.decision.allowed)

\* The log shows errors among the rejections.
IsLogged(event, rejectedOnly) ==
    \/ ~ rejectedOnly
    \/ event.kind = "synthetic_error"
    \/ IsDecision(event) /\ ~ event.decision.allowed

LogTable(events, rejectedOnly, fields) ==
    LET logged == Kept(events, {i \in DOMAIN events : IsLogged(events[i], rejectedOnly)})
    IN [i \in DOMAIN logged |-> LogRow(logged[i], fields)]

\* Where there are issues, and whether one is not before another.
IssuePlaces(events) == UNION {{<<i, k>> : k \in DOMAIN events[i].issues} : i \in DOMAIN events}
IssueAt(events, p) == events[p[1]].issues[p[2]]
NotBefore(p, q) == p[1] > q[1] \/ (p[1] = q[1] /\ p[2] >= q[2])

\* The newest issues, latest first.
Diagnostics(events, shown) ==
    LET places == IssuePlaces(events)
        Latest(n) == CHOOSE q \in places : Cardinality({p \in places : NotBefore(p, q)}) = n
    IN [n \in 1 .. AtMost(shown, Cardinality(places)) |-> IssueAt(events, Latest(n))]

IssueCount(events, codes) ==
    Cardinality({p \in IssuePlaces(events) : IssueAt(events, p) \in codes})

ContractSummary(events) ==
    [missingBaselineState |->
         IssueCount(events, {"missing_algorithm_state", "partial_algorithm_state"}),
     missingSchemaVersion |-> IssueCount(events, {"missing_state_schema_version"}),
     retryAfterOnAllow |-> IssueCount(events, {"unexpected_retry_after_on_allow"})]
=============================================================================
