------------------------------ MODULE MCEventLog ------------------------------
(***************************************************************************)
(* Three requests of one client or of two, windows of one second and       *)
(* buckets of two requests that move by one request a second, and a clock  *)
(* of half seconds.                                                        *)
(***************************************************************************)
EXTENDS EventLog

Form(mode) ==
    [limit |-> 200, windowSizeSec |-> 100, capacity |-> 200,
     refillRatePerSec |-> 100, leakRatePerSec |-> 100,
     tokensPerRequest |-> 100, waterPerRequest |-> 100, rps |-> 100,
     clientIdMode |-> mode, singleClientId |-> 0, rotatingPoolSize |-> 200]

OneOrTwoClients == {Form("single"), Form("rotating")}

SomeParams == [a \in PageNames |->
    CASE a \in Windowed -> [limit |-> 200, window_size_sec |-> 100]
      [] a = "token_bucket" -> [capacity |-> 200, refill_rate_per_sec |-> 100,
                                tokens_per_request |-> 100]
      [] a = "leaky_bucket" -> [capacity |-> 200, leak_rate_per_sec |-> 100,
                                water_per_request |-> 100]]

SomeNames == {DashboardName(p) : p \in PageNames} \cup {"other"}

\* Typed numbers: none, negative, a half, two and a half.
Typed == {null, -100, 50, 250}

AnyForm == {[Form("single") EXCEPT
    !.limit = a, !.windowSizeSec = b, !.capacity = a, !.refillRatePerSec = b,
    !.leakRatePerSec = b, !.tokensPerRequest = b, !.waterPerRequest = b] : a, b \in Typed}

\* What the gateway stores of valid params, of the smallest fractions too.
StoredParams(algorithm) ==
    CASE algorithm \in Windowed -> [limit : {0, 300}, window_size_sec : {100}]
      [] algorithm = "token_bucket" ->
             [capacity : {0, 300}, refill_rate_per_sec : {50}, tokens_per_request : {0, 100}]
      [] algorithm = "leaky_bucket" ->
             [capacity : {0, 300}, leak_rate_per_sec : {50}, water_per_request : {0, 100}]

SomeRows(p, id, names) ==
    UNION {[id : {id}, name : names, algorithm : {a}, params_json : StoredParams(a),
            enabled : BOOLEAN, version : {1}] : a \in {p, "fixed_window", "token_bucket"}}

\* A row under the dashboard's name or none, one under another, and either of
\* them active, none, or one whose algorithm has changed since.
SomeGateways == [p \in PageNames |->
    {[rows |-> {r}, active |-> null] :
        r \in SomeRows(p, 1, {DashboardName(p), "other"})} \cup
    {[rows |-> {r, s}, active |-> [id |-> i, algorithm |-> a]] :
        r \in SomeRows(p, 1, {DashboardName(p)}), s \in SomeRows(p, 2, {"other"}),
        i \in {1, 2}, a \in {p, "fixed_window"}} \cup
    {[rows |-> {}, active |-> null]}]
=============================================================================
