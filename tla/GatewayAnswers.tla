---------------------------- MODULE GatewayAnswers ----------------------------
(***************************************************************************)
(* The gateway as the dashboards see it: the JSON that each limiter        *)
(* answers with, and the policy endpoints, one call at a time.             *)
(*                                                                         *)
(* A limiter works on what Redis holds of one client since its keys were   *)
(* last deleted: the windows' counters, the members of a log with their    *)
(* scores, or the level of a bucket and the time at which it was written.  *)
(* Key expiry, clocks that disagree and lost replies are in the modules of *)
(* the limiters.  Times are in hundredths of a second.                     *)
(***************************************************************************)
EXTENDS JsonValues, Sequences, SequencesExt

NoKeys == [counts |-> [start \in {} |-> 0], log |-> {}, level |-> null, at |-> null]

\* GET of a counter, and all of them after an INCR of one.
Counter(counts, start) == IF start \in DOMAIN counts THEN counts[start] ELSE 0
Incremented(counts, start) ==
    [s \in DOMAIN counts \cup {start} |-> Counter(counts, s) + IF s = start THEN 1 ELSE 0]

\* Only a denial says when to come back, and it leaves nothing.
Answer(isAllowed, left, wait, state) ==
    [allowed |-> isAllowed, remaining |-> IF isAllowed THEN AtLeast(0, left) ELSE 0,
     retry_after_ms |-> IF isAllowed THEN null ELSE AtLeast(1, wait),
     algorithm_state |-> state]

fixed_window(params, keys, now) ==
    LET size == params.window_size_sec
        start == now - (now % size)
        counts == Incremented(keys.counts, start)
        count == One * counts[start]
    IN [keys |-> [keys EXCEPT !.counts = counts],
        decision |->
            Answer(count <= params.limit, params.limit - count, start + size - now,
                   [count |-> count, window_start_ms |-> start, window_size_sec |-> size,
                    state_schema_version |-> 1])]

\* A member is a time and a token that no other request has.
sliding_log(params, keys, now, token) ==
    LET size == params.window_size_sec
        recent == {m \in keys.log : m.at >= now - size}
        isAllowed == One * Cardinality(recent) < params.limit
        log == IF isAllowed THEN recent \cup {[at |-> now, token |-> token]} ELSE recent
        count == One * Cardinality(log)
        oldest == CHOOSE m \in recent : \A other \in recent : m.at <= other.at
    IN [keys |-> [keys EXCEPT !.log = log],
        decision |->
            Answer(isAllowed, params.limit - count,
                   IF recent = {} THEN 1 ELSE oldest.at + size - now,
                   [count |-> count, window_start_ms |-> now - size,
                    window_size_sec |-> size, state_schema_version |-> 1])]

sliding_window_counter(params, keys, now) ==
    LET size == params.window_size_sec
        start == now - (now % size)
        counts == Incremented(keys.counts, start)
        current == One * counts[start]
        previous == One * Counter(keys.counts, start - size)
        weight == Ratio(start + size - now, size)
        estimated == current + (previous * weight) \div One
    IN [keys |-> [keys EXCEPT !.counts = counts],
        decision |->
            Answer(estimated < params.limit, Floor(params.limit - estimated),
                   start + size - now,
                   [count |-> estimated, window_start_ms |-> start, window_size_sec |-> size,
                    state_schema_version |-> 1, current_window_count |-> current,
                    previous_window_count |-> previous, previous_window_weight |-> weight,
                    estimated_count |-> estimated])]

\* By how much a level has moved since it was written.
Drift(keys, rate, now) == (rate * (now - OrElse(keys.at, now))) \div One

\* The bucket of a client without keys is full.  What a script answers comes
\* as a whole number, what it writes keeps its fraction.
token_bucket(params, keys, now) ==
    LET capacity == params.capacity
        rate == params.refill_rate_per_sec
        cost == params.tokens_per_request
        full == AtMost(capacity, OrElse(keys.level, capacity) + Drift(keys, rate, now))
        isAllowed == full >= cost
        tokens == IF isAllowed THEN full - cost ELSE full
        told == Floor(tokens)
        budget == Quotient(told, cost)
    IN [keys |-> [keys EXCEPT !.level = tokens, !.at = now],
        decision |->
            Answer(isAllowed, budget, RatioUp(cost - full, rate),
                   [count |-> budget, window_start_ms |-> now, window_size_sec |-> 0,
                    state_schema_version |-> 1, tokens |-> told, capacity |-> capacity,
                    refill_rate_per_sec |-> rate, tokens_per_request |-> cost,
                    last_refill_ms |-> now])]

\* The bucket of a client without keys is empty.
leaky_bucket(params, keys, now) ==
    LET capacity == params.capacity
        rate == params.leak_rate_per_sec
        cost == params.water_per_request
        water == AtLeast(0, OrElse(keys.level, 0) - Drift(keys, rate, now))
        isAllowed == water + cost <= capacity
        level == IF isAllowed THEN water + cost ELSE water
        told == Floor(level)
        left == Quotient(AtLeast(0, capacity - told), cost)
    IN [keys |-> [keys EXCEPT !.level = level, !.at = now],
        decision |->
            Answer(isAllowed, left, RatioUp(water + cost - capacity, rate),
                   [count |-> left, window_start_ms |-> now, window_size_sec |-> 0,
                    state_schema_version |-> 1, water_level |-> told, capacity |-> capacity,
                    leak_rate_per_sec |-> rate, water_per_request |-> cost,
                    last_leak_ms |-> now])]

\* The state that a limiter answers with.
Positive == Nat \ {0}
AlgorithmState(algorithm) ==
    CASE algorithm \in {"fixed_window", "sliding_log"} ->
             [count : Int, window_start_ms : Int, window_size_sec : Int,
              state_schema_version : {1}]
      [] algorithm = "sliding_window_counter" ->
             [count : Int, window_start_ms : Int, window_size_sec : Int,
              state_schema_version : {1}, current_window_count : Int,
              previous_window_count : Int, previous_window_weight : Int,
              estimated_count : Int]
      [] algorithm = "token_bucket" ->
             [count : Int, window_start_ms : Int, window_size_sec : Int,
              state_schema_version : {1}, tokens : Int, capacity : Positive,
              refill_rate_per_sec : Positive, tokens_per_request : Positive,
              last_refill_ms : Int]
      [] algorithm = "leaky_bucket" ->
             [count : Int, window_start_ms : Int, window_size_sec : Int,
              state_schema_version : {1}, water_level : Int, capacity : Positive,
              leak_rate_per_sec : Positive, water_per_request : Positive,
              last_leak_ms : Int]

\* What a limiter answers, and the keys it leaves.
BuildLimiter(algorithm, params, keys, now, token) ==
    CASE algorithm = "fixed_window" -> fixed_window(params, keys, now)
      [] algorithm = "sliding_log" -> sliding_log(params, keys, now, token)
      [] algorithm = "sliding_window_counter" -> sliding_window_counter(params, keys, now)
      [] algorithm = "token_bucket" -> token_bucket(params, keys, now)
      [] algorithm = "leaky_bucket" -> leaky_bucket(params, keys, now)

Body(algorithm) ==
    [request_id : Int, ts : Int, policy_id : {1}, algorithm : {algorithm}, allowed : BOOLEAN,
     retry_after_ms : Number, latency_ms : {0}, remaining : Int,
     algorithm_state : AlgorithmState(algorithm)]

\* The body of an answer: that of the limiter, and the request's own fields.
Response(decision, algorithm, requestId, now) ==
    [request_id |-> requestId, ts |-> now, policy_id |-> 1, algorithm |-> algorithm,
     allowed |-> decision.allowed, retry_after_ms |-> decision.retry_after_ms,
     latency_ms |-> 0, remaining |-> decision.remaining,
     algorithm_state |-> decision.algorithm_state]

-----------------------------------------------------------------------------
(***************************************************************************)
(* The policy endpoints: gw holds the rows and the active row, null when   *)
(* there is none.  An answer is the gateway after the call and the body,   *)
(* null when the call fails.                                               *)
(***************************************************************************)

Windowed == {"fixed_window", "sliding_log", "sliding_window_counter"}

Required(algorithm) ==
    CASE algorithm \in Windowed -> {"window_size_sec", "limit"}
      [] algorithm = "token_bucket" -> {"capacity", "refill_rate_per_sec"}
      [] algorithm = "leaky_bucket" -> {"capacity", "leak_rate_per_sec"}

\* The field that is 1 when a request leaves it out.
Optional(algorithm) ==
    CASE algorithm \in Windowed -> {}
      [] algorithm = "token_bucket" -> {"tokens_per_request"}
      [] algorithm = "leaky_bucket" -> {"water_per_request"}

Rates == {"refill_rate_per_sec", "leak_rate_per_sec"}

ValidParams(algorithm, params) ==
    LET IsPositive(f) == f \in DOMAIN params /\ OrElse(params[f], 0) > 0
    IN /\ \A f \in Required(algorithm) : IsPositive(f)
       /\ \A f \in Optional(algorithm) : f \in DOMAIN params => IsPositive(f)

\* Whole numbers are truncated, rates are kept.
NormalizedParams(algorithm, params) ==
    [f \in Required(algorithm) \cup Optional(algorithm) |->
        IF f \notin DOMAIN params THEN One
        ELSE IF f \in Rates THEN params[f] ELSE Floor(params[f])]

RowOf(gw, id) == CHOOSE row \in gw.rows : row.id = id
Known(gw, id) == \E row \in gw.rows : row.id = id
Failed(gw) == [gw |-> gw, body |-> null]

CreateRow(gw, body) ==
    LET row == [id |-> Cardinality(gw.rows) + 1, name |-> body.name,
                algorithm |-> body.algorithm,
                params_json |-> NormalizedParams(body.algorithm, body.params_json),
                enabled |-> body.enabled, version |-> 1]
    IN IF \/ ~ ValidParams(body.algorithm, body.params_json)
          \/ \E other \in gw.rows : other.name = body.name
       THEN Failed(gw)
       ELSE [gw |-> [gw EXCEPT !.rows = @ \cup {row}], body |-> row]

\* A request that leaves enabled out keeps what the row has; the dashboards
\* always send the algorithm and the params, and never a name.
UpdateRow(gw, id, body) ==
    LET current == RowOf(gw, id)
        row == [current EXCEPT
                   !.algorithm = body.algorithm,
                   !.params_json = NormalizedParams(body.algorithm, body.params_json),
                   !.enabled = OrElse(Field(body, "enabled"), @),
                   !.version = @ + 1]
    IN IF ~ Known(gw, id) THEN Failed(gw)
       ELSE IF ~ ValidParams(body.algorithm, body.params_json) THEN Failed(gw)
       ELSE [gw |-> [gw EXCEPT !.rows = (@ \ {current}) \cup {row}], body |-> row]

ActivateRow(gw, id) ==
    IF ~ Known(gw, id) THEN Failed(gw)
    ELSE IF ~ RowOf(gw, id).enabled THEN Failed(gw)
    ELSE [gw |-> [gw EXCEPT !.active = [id |-> id, algorithm |-> RowOf(gw, id).algorithm]],
          body |-> RowOf(gw, id)]

\* The active row names a policy and the algorithm it had when it was
\* activated: a policy that has changed it since is not found.
ActiveRow(gw) ==
    IF gw.active = null THEN null
    ELSE IF RowOf(gw, gw.active.id).algorithm # gw.active.algorithm THEN null
    ELSE RowOf(gw, gw.active.id)
=============================================================================
