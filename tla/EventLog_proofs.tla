---------------------------- MODULE EventLog_proofs ----------------------------
EXTENDS EventLog, FiniteSetTheorems, SequenceTheorems, WellFoundedInduction, TLAPS

LEMMA NullIsNothing ==
    /\ null \notin Int /\ null # TRUE /\ null # FALSE
    /\ \A p \in PageNames : p # null
    /\ \A a \in PageNames :
        /\ \A s \in AlgorithmState(a) : s # null
        /\ \A b \in Body(a) : b # null
        /\ \A r \in JudgedAnswers(a) : r # null
    /\ \A r \in Failures : r # null
    /\ \A d \in PageStates \cup Decisions : d # null
BY NullAssumption

Codes == {"missing_algorithm_state", "partial_algorithm_state", "missing_state_schema_version",
          "unexpected_algorithm", "unexpected_retry_after_on_allow"}

LEMMA Singleton == ASSUME NEW S, NEW s \in S PROVE <<s>> \in Seq(S) /\ <<s>> # <<>>
OBVIOUS

LEMMA CodeLists ==
    /\ <<>> \in Seq(Codes)
    /\ \A c \in Codes : <<c>> \in Seq(Codes) /\ <<c>> # <<>>
    /\ {"missing_algorithm_state", "partial_algorithm_state", "missing_state_schema_version",
          "unexpected_algorithm", "unexpected_retry_after_on_allow"} \subseteq Codes
BY Singleton DEF Codes

BodyFields == {"request_id", "ts", "policy_id", "algorithm", "allowed", "retry_after_ms",
               "latency_ms", "remaining", "algorithm_state"}

\* The fields of an answer's body.
LEMMA BodyOf ==
    ASSUME NEW a \in PageNames, NEW raw \in Body(a)
    PROVE  /\ raw # null /\ DOMAIN raw = BodyFields
           /\ raw.request_id \in Int /\ raw.ts \in Int /\ raw.remaining \in Int
           /\ raw.allowed \in BOOLEAN /\ raw.retry_after_ms \in Number /\ raw.algorithm = a
           /\ raw.algorithm_state \in AlgorithmState(a)
           /\ \A f \in {"request_id", "ts", "policy_id", "latency_ms", "allowed", "algorithm"} :
                raw[f] # null
<1>1. /\ raw.request_id \in Int /\ raw.ts \in Int /\ raw.policy_id \in Int
      /\ raw.latency_ms \in Int /\ raw.allowed \in BOOLEAN /\ raw.algorithm = a
    BY DEF Body
<1>2. /\ raw.request_id # null /\ raw.ts # null /\ raw.policy_id # null
      /\ raw.latency_ms # null /\ raw.allowed # null /\ raw.algorithm # null
    BY <1>1, NullIsNothing
<1>3. raw # null
    BY NullIsNothing
<1>4. DOMAIN raw = BodyFields
    BY DEF Body, BodyFields
<1> QED BY <1>1, <1>2, <1>3, <1>4 DEF Body

\* A decision says what an answer says.
Says(decision, raw, clientId) ==
    /\ decision \in Decisions
    /\ decision.requestId = raw.request_id /\ decision.ts = raw.ts
    /\ decision.allowed = raw.allowed /\ decision.remaining = raw.remaining
    /\ decision.clientId = clientId

-----------------------------------------------------------------------------
(***************************************************************************)
(* What the FixedWindow page makes of a state and of an answer.            *)
(***************************************************************************)
LEMMA FixedWindowStates ==
    ASSUME NEW raw
    PROVE  LET mapped == FW!mapAlgorithmState(raw) IN
           /\ FW!Decoded(raw) \in FW!AlgorithmStates
           /\ mapped.state \in FW!AlgorithmStates \cup {null}
           /\ mapped.issues \in Seq(Codes)
<1>1. \A v : FW!toNumberOrNull(v) \in Number
    BY DEF FW!toNumberOrNull, Number
<1>2. FW!Decoded(raw) \in FW!AlgorithmStates
    BY <1>1 DEF FW!Decoded, FW!AlgorithmStates, FW!Number, Number
<1>3. <<>> \in Seq(Codes)
    BY CodeLists
<1> QED BY <1>2, <1>3, CodeLists DEF FW!mapAlgorithmState, FW!StateOf

LEMMA FixedWindowOwnState ==
    ASSUME NEW raw \in AlgorithmState("fixed_window")
    PROVE  LET mapped == FW!mapAlgorithmState(raw) IN
           /\ mapped.state # null /\ mapped.state.count = raw.count
           /\ mapped.issues = <<>>
<1> DEFINE Numbers == {"count", "window_start_ms", "window_size_sec"}
<1>1. /\ DOMAIN raw = {"count", "window_start_ms", "window_size_sec",
                       "state_schema_version"}
      /\ \A f \in Numbers : raw[f] \in Int
    BY DEF AlgorithmState
<1>2. raw # null /\ null \notin Int
    BY NullIsNothing DEF PageNames
<1>3. \A f \in Numbers : FW!toNumberOrNull(FW!Field(raw, f)) = raw[f]
    BY <1>1, <1>2 DEF FW!toNumberOrNull, FW!Field, FW!isRecord
<1>6. \A f \in FW!Baseline : FW!Decoded(raw)[f] # null
    BY <1>1, <1>2, <1>3 DEF FW!Decoded, FW!Baseline
<1>7. FW!Decoded(raw).count = raw.count
    BY <1>3 DEF FW!Decoded
<1>8. FW!Decoded(raw) # null
    BY FixedWindowStates, NullIsNothing DEF PageStates
<1> QED BY <1>2, <1>6, <1>7, <1>8
        DEF FW!mapAlgorithmState, FW!StateOf, FW!isRecord, FW!Present

LEMMA FixedWindowDecision ==
    ASSUME NEW a \in PageNames, NEW raw \in Body(a), raw.allowed => raw.retry_after_ms = null,
           NEW clientId \in Int
    PROVE  LET mapped == FW!mapDecision(raw, clientId) IN
           /\ Says(mapped.decision, raw, clientId)
           /\ mapped.issues \in Seq(Codes)
           /\ mapped.issues = <<>> <=> a = "fixed_window"
           /\ a = "fixed_window" =>
                  /\ mapped.decision.algorithmState # null
                  /\ mapped.decision.algorithmState.count = raw.algorithm_state.count
<1> DEFINE state == FW!mapAlgorithmState(raw.algorithm_state)
           warnings == FW!AlgorithmWarning(raw, "fixed_window")
           decision == [requestId |-> raw.request_id, ts |-> raw.ts, allowed |-> raw.allowed,
                        algorithm |-> a, retryAfterMs |-> raw.retry_after_ms,
                        remaining |-> raw.remaining, clientId |-> clientId,
                        algorithmState |-> state.state]
<1>1. /\ \A f \in BodyFields : FW!Field(raw, f) = raw[f]
      /\ FW!Field(raw, "client_id") = null
    BY BodyOf DEF FW!Field, FW!isRecord, BodyFields
<1>2. /\ FW!toNumberOrNull(raw.retry_after_ms) = raw.retry_after_ms
      /\ FW!toNumberOrNull(raw.remaining) = raw.remaining
    BY BodyOf DEF FW!toNumberOrNull, Number
<1>3. \A f \in {"request_id", "ts", "policy_id", "latency_ms", "allowed", "algorithm"} :
        raw[f] # null
    BY BodyOf
<1>4. /\ state.state \in PageStates \cup {null}
      /\ state.issues \in Seq(Codes)
      /\ raw.algorithm = a /\ raw.algorithm_state \in AlgorithmState(a)
    BY FixedWindowStates, BodyOf DEF PageStates
<1>5. /\ warnings \in Seq(Codes)
      /\ warnings = <<>> <=> a = "fixed_window"
    BY <1>1, <1>4, CodeLists DEF FW!AlgorithmWarning, BodyFields
<1>6. decision \in Decisions
    BY <1>4, BodyOf DEF Decisions, Number
<1> HIDE DEF state, warnings
<1>7. FW!mapDecision(raw, clientId)
        = [decision |-> decision, issues |-> state.issues \o warnings]
    BY <1>1, <1>2, <1>3, <1>4
        DEF FW!mapDecision, FW!DecisionOf, FW!OrElse, BodyFields, state, warnings
<1>8. /\ state.issues \o warnings = <<>> <=> state.issues = <<>> /\ warnings = <<>>
      /\ state.issues \o warnings \in Seq(Codes)
    BY <1>4, <1>5, ConcatEqualIffEmpty, ConcatProperties
<1>9. CASE a = "fixed_window"
    <2>1. state.state # null /\ state.issues = <<>>
          /\ state.state.count = raw.algorithm_state.count
        BY <1>4, <1>9, FixedWindowOwnState DEF state
    <2> QED BY <1>5, <1>6, <1>7, <1>8, <1>9, <2>1 DEF Says
<1>10. CASE a # "fixed_window"
    BY <1>5, <1>6, <1>7, <1>8, <1>10 DEF Says
<1> QED BY <1>9, <1>10

-----------------------------------------------------------------------------
(***************************************************************************)
(* What the SlidingLog page makes of a state and of an answer.             *)
(***************************************************************************)
LEMMA SlidingLogStates ==
    ASSUME NEW raw
    PROVE  LET mapped == SL!mapAlgorithmState(raw) IN
           /\ SL!Decoded(raw) \in SL!AlgorithmStates
           /\ mapped.state \in SL!AlgorithmStates \cup {null}
           /\ mapped.issues \in Seq(Codes)
<1>1. \A v : SL!toNumberOrNull(v) \in Number
    BY DEF SL!toNumberOrNull, Number
<1>2. SL!Decoded(raw) \in SL!AlgorithmStates
    BY <1>1 DEF SL!Decoded, SL!AlgorithmStates, SL!Number, Number
<1>3. SL!SchemaWarning(raw) \in Seq(Codes)
    BY CodeLists DEF SL!SchemaWarning
<1> QED BY <1>2, <1>3, CodeLists DEF SL!mapAlgorithmState, SL!StateOf

LEMMA SlidingLogOwnState ==
    ASSUME NEW raw \in AlgorithmState("sliding_log")
    PROVE  LET mapped == SL!mapAlgorithmState(raw) IN
           /\ mapped.state # null /\ mapped.state.count = raw.count
           /\ mapped.issues = <<>>
<1> DEFINE Numbers == {"count", "window_start_ms", "window_size_sec",
                        "state_schema_version"}
<1>1. /\ DOMAIN raw = {"count", "window_start_ms", "window_size_sec",
                       "state_schema_version"}
      /\ \A f \in Numbers : raw[f] \in Int
    BY DEF AlgorithmState
<1>2. raw # null /\ null \notin Int
    BY NullIsNothing DEF PageNames
<1>3. \A f \in Numbers : SL!toNumberOrNull(SL!Field(raw, f)) = raw[f]
    BY <1>1, <1>2 DEF SL!toNumberOrNull, SL!Field, SL!isRecord
<1>5. SL!SchemaWarning(raw) = <<>>
    BY <1>1, <1>2, <1>3 DEF SL!SchemaWarning
<1>6. \A f \in SL!Baseline : SL!Decoded(raw)[f] # null
    BY <1>1, <1>2, <1>3 DEF SL!Decoded, SL!Baseline
<1>7. SL!Decoded(raw).count = raw.count
    BY <1>3 DEF SL!Decoded
<1>8. SL!Decoded(raw) # null
    BY SlidingLogStates, NullIsNothing DEF PageStates
<1> QED BY <1>2, <1>5, <1>6, <1>7, <1>8
        DEF SL!mapAlgorithmState, SL!StateOf, SL!isRecord, SL!Present

LEMMA SlidingLogDecision ==
    ASSUME NEW a \in PageNames, NEW raw \in Body(a), raw.allowed => raw.retry_after_ms = null,
           NEW clientId \in Int
    PROVE  LET mapped == SL!mapDecision(raw, clientId) IN
           /\ Says(mapped.decision, raw, clientId)
           /\ mapped.issues \in Seq(Codes)
           /\ mapped.issues = <<>> <=> a = "sliding_log"
           /\ a = "sliding_log" =>
                  /\ mapped.decision.algorithmState # null
                  /\ mapped.decision.algorithmState.count = raw.algorithm_state.count
<1> DEFINE state == SL!mapAlgorithmState(raw.algorithm_state)
           warnings == SL!AlgorithmWarning(raw, "sliding_log") \o SL!RetryWarning(raw)
           decision == [requestId |-> raw.request_id, ts |-> raw.ts, allowed |-> raw.allowed,
                        algorithm |-> a, retryAfterMs |-> raw.retry_after_ms,
                        remaining |-> raw.remaining, clientId |-> clientId,
                        algorithmState |-> state.state]
<1>1. /\ \A f \in BodyFields : SL!Field(raw, f) = raw[f]
      /\ SL!Field(raw, "client_id") = null
    BY BodyOf DEF SL!Field, SL!isRecord, BodyFields
<1>2. /\ SL!toNumberOrNull(raw.retry_after_ms) = raw.retry_after_ms
      /\ SL!toNumberOrNull(raw.remaining) = raw.remaining
    BY BodyOf DEF SL!toNumberOrNull, Number
<1>3. \A f \in {"request_id", "ts", "policy_id", "latency_ms", "allowed", "algorithm"} :
        raw[f] # null
    BY BodyOf
<1>4. /\ state.state \in PageStates \cup {null}
      /\ state.issues \in Seq(Codes)
      /\ raw.algorithm = a /\ raw.algorithm_state \in AlgorithmState(a)
    BY SlidingLogStates, BodyOf DEF PageStates
<1>5. /\ warnings \in Seq(Codes)
      /\ warnings = <<>> <=> a = "sliding_log"
    <2>1. SL!RetryWarning(raw) = <<>>
        BY <1>1, <1>2 DEF SL!RetryWarning, BodyFields
    <2>2. /\ SL!AlgorithmWarning(raw, "sliding_log") \in Seq(Codes)
          /\ SL!AlgorithmWarning(raw, "sliding_log") = <<>> <=> a = "sliding_log"
        BY <1>1, <1>4, CodeLists DEF SL!AlgorithmWarning, BodyFields
    <2>3. SL!AlgorithmWarning(raw, "sliding_log") \o <<>>
            = SL!AlgorithmWarning(raw, "sliding_log")
        BY <2>2, ConcatEmptySeq
    <2> QED BY <2>1, <2>2, <2>3
<1>6. decision \in Decisions
    BY <1>4, BodyOf DEF Decisions, Number
<1> HIDE DEF state, warnings
<1>7. SL!mapDecision(raw, clientId)
        = [decision |-> decision, issues |-> state.issues \o warnings]
    BY <1>1, <1>2, <1>3, <1>4
        DEF SL!mapDecision, SL!DecisionOf, SL!OrElse, BodyFields, state, warnings
<1>8. /\ state.issues \o warnings = <<>> <=> state.issues = <<>> /\ warnings = <<>>
      /\ state.issues \o warnings \in Seq(Codes)
    BY <1>4, <1>5, ConcatEqualIffEmpty, ConcatProperties
<1>9. CASE a = "sliding_log"
    <2>1. state.state # null /\ state.issues = <<>>
          /\ state.state.count = raw.algorithm_state.count
        BY <1>4, <1>9, SlidingLogOwnState DEF state
    <2> QED BY <1>5, <1>6, <1>7, <1>8, <1>9, <2>1 DEF Says
<1>10. CASE a # "sliding_log"
    BY <1>5, <1>6, <1>7, <1>8, <1>10 DEF Says
<1> QED BY <1>9, <1>10

-----------------------------------------------------------------------------
(***************************************************************************)
(* What the SlidingWindowCounter page makes of a state and of an answer.   *)
(***************************************************************************)
LEMMA SlidingWindowCounterStates ==
    ASSUME NEW raw
    PROVE  LET mapped == SWC!mapAlgorithmState(raw) IN
           /\ SWC!Decoded(raw) \in SWC!AlgorithmStates
           /\ mapped.state \in SWC!AlgorithmStates \cup {null}
           /\ mapped.issues \in Seq(Codes)
<1>1. \A v : SWC!toNumberOrNull(v) \in Number
    BY DEF SWC!toNumberOrNull, Number
<1>2. SWC!Decoded(raw) \in SWC!AlgorithmStates
    BY <1>1 DEF SWC!Decoded, SWC!AlgorithmStates, SWC!Number, Number
<1>3. SWC!SchemaWarning(raw) \in Seq(Codes)
    BY CodeLists DEF SWC!SchemaWarning
<1> QED BY <1>2, <1>3, CodeLists DEF SWC!mapAlgorithmState, SWC!StateOf

LEMMA SlidingWindowCounterOwnState ==
    ASSUME NEW raw \in AlgorithmState("sliding_window_counter")
    PROVE  LET mapped == SWC!mapAlgorithmState(raw) IN
           /\ mapped.state # null /\ mapped.state.count = raw.count
           /\ mapped.issues = <<>>
<1> DEFINE Numbers == {"count", "window_start_ms", "window_size_sec",
                        "current_window_count", "previous_window_count",
                        "previous_window_weight", "estimated_count", "state_schema_version"}
<1>1. /\ DOMAIN raw = {"count", "window_start_ms", "window_size_sec",
                       "state_schema_version", "current_window_count",
                       "previous_window_count", "previous_window_weight", "estimated_count"}
      /\ \A f \in Numbers : raw[f] \in Int
    BY DEF AlgorithmState
<1>2. raw # null /\ null \notin Int
    BY NullIsNothing DEF PageNames
<1>3. \A f \in Numbers : SWC!toNumberOrNull(SWC!Field(raw, f)) = raw[f]
    BY <1>1, <1>2 DEF SWC!toNumberOrNull, SWC!Field, SWC!isRecord
<1>5. SWC!SchemaWarning(raw) = <<>>
    BY <1>1, <1>2, <1>3 DEF SWC!SchemaWarning
<1>6. \A f \in SWC!Baseline : SWC!Decoded(raw)[f] # null
    BY <1>1, <1>2, <1>3 DEF SWC!Decoded, SWC!Baseline
<1>7. SWC!Decoded(raw).count = raw.count
    BY <1>3 DEF SWC!Decoded
<1>8. SWC!Decoded(raw) # null
    BY SlidingWindowCounterStates, NullIsNothing DEF PageStates
<1> QED BY <1>2, <1>5, <1>6, <1>7, <1>8
        DEF SWC!mapAlgorithmState, SWC!StateOf, SWC!isRecord, SWC!Present

LEMMA SlidingWindowCounterDecision ==
    ASSUME NEW a \in PageNames, NEW raw \in Body(a), raw.allowed => raw.retry_after_ms = null,
           NEW clientId \in Int
    PROVE  LET mapped == SWC!mapDecision(raw, clientId) IN
           /\ Says(mapped.decision, raw, clientId)
           /\ mapped.issues \in Seq(Codes)
           /\ mapped.issues = <<>> <=> a = "sliding_window_counter"
           /\ a = "sliding_window_counter" =>
                  /\ mapped.decision.algorithmState # null
                  /\ mapped.decision.algorithmState.count = raw.algorithm_state.count
<1> DEFINE state == SWC!mapAlgorithmState(raw.algorithm_state)
           warnings == SWC!AlgorithmWarning(raw, "sliding_window_counter") \o SWC!RetryWarning(raw)
           decision == [requestId |-> raw.request_id, ts |-> raw.ts, allowed |-> raw.allowed,
                        algorithm |-> a, retryAfterMs |-> raw.retry_after_ms,
                        remaining |-> raw.remaining, clientId |-> clientId,
                        algorithmState |-> state.state]
<1>1. /\ \A f \in BodyFields : SWC!Field(raw, f) = raw[f]
      /\ SWC!Field(raw, "client_id") = null
    BY BodyOf DEF SWC!Field, SWC!isRecord, BodyFields
<1>2. /\ SWC!toNumberOrNull(raw.retry_after_ms) = raw.retry_after_ms
      /\ SWC!toNumberOrNull(raw.remaining) = raw.remaining
    BY BodyOf DEF SWC!toNumberOrNull, Number
<1>3. \A f \in {"request_id", "ts", "policy_id", "latency_ms", "allowed", "algorithm"} :
        raw[f] # null
    BY BodyOf
<1>4. /\ state.state \in PageStates \cup {null}
      /\ state.issues \in Seq(Codes)
      /\ raw.algorithm = a /\ raw.algorithm_state \in AlgorithmState(a)
    BY SlidingWindowCounterStates, BodyOf DEF PageStates
<1>5. /\ warnings \in Seq(Codes)
      /\ warnings = <<>> <=> a = "sliding_window_counter"
    <2>1. SWC!RetryWarning(raw) = <<>>
        BY <1>1, <1>2 DEF SWC!RetryWarning, BodyFields
    <2>2. /\ SWC!AlgorithmWarning(raw, "sliding_window_counter") \in Seq(Codes)
          /\ SWC!AlgorithmWarning(raw, "sliding_window_counter") = <<>>
                <=> a = "sliding_window_counter"
        BY <1>1, <1>4, CodeLists DEF SWC!AlgorithmWarning, BodyFields
    <2>3. SWC!AlgorithmWarning(raw, "sliding_window_counter") \o <<>>
            = SWC!AlgorithmWarning(raw, "sliding_window_counter")
        BY <2>2, ConcatEmptySeq
    <2> QED BY <2>1, <2>2, <2>3
<1>6. decision \in Decisions
    BY <1>4, BodyOf DEF Decisions, Number
<1> HIDE DEF state, warnings
<1>7. SWC!mapDecision(raw, clientId)
        = [decision |-> decision, issues |-> state.issues \o warnings]
    BY <1>1, <1>2, <1>3, <1>4
        DEF SWC!mapDecision, SWC!DecisionOf, SWC!OrElse, BodyFields, state, warnings
<1>8. /\ state.issues \o warnings = <<>> <=> state.issues = <<>> /\ warnings = <<>>
      /\ state.issues \o warnings \in Seq(Codes)
    BY <1>4, <1>5, ConcatEqualIffEmpty, ConcatProperties
<1>9. CASE a = "sliding_window_counter"
    <2>1. state.state # null /\ state.issues = <<>>
          /\ state.state.count = raw.algorithm_state.count
        BY <1>4, <1>9, SlidingWindowCounterOwnState DEF state
    <2> QED BY <1>5, <1>6, <1>7, <1>8, <1>9, <2>1 DEF Says
<1>10. CASE a # "sliding_window_counter"
    BY <1>5, <1>6, <1>7, <1>8, <1>10 DEF Says
<1> QED BY <1>9, <1>10

-----------------------------------------------------------------------------
(***************************************************************************)
(* What the TokenBucket page makes of a state and of an answer.            *)
(***************************************************************************)
LEMMA TokenBucketStates ==
    ASSUME NEW raw
    PROVE  LET mapped == TB!mapAlgorithmState(raw) IN
           /\ TB!Decoded(raw) \in TB!AlgorithmStates
           /\ mapped.state \in TB!AlgorithmStates \cup {null}
           /\ mapped.issues \in Seq(Codes)
<1>1.
    /\ \A v : TB!toNumberOrNull(v) \in Number
    /\ \A v : TB!toPositiveIntOrNull(v) \in Number
    /\ \A v : TB!toPositiveFloatOrNull(v) \in Number
    BY DEF TB!toNumberOrNull, TB!toPositiveIntOrNull, TB!toPositiveFloatOrNull,
           TB!Floor, TB!One, Number
<1>2. TB!Decoded(raw) \in TB!AlgorithmStates
    BY <1>1 DEF TB!Decoded, TB!AlgorithmStates, TB!Number, Number
<1>3. TB!SchemaWarning(raw) \in Seq(Codes)
    BY CodeLists DEF TB!SchemaWarning
<1> QED BY <1>2, <1>3, CodeLists DEF TB!mapAlgorithmState, TB!StateOf

LEMMA TokenBucketOwnState ==
    ASSUME NEW raw \in AlgorithmState("token_bucket")
    PROVE  LET mapped == TB!mapAlgorithmState(raw) IN
           /\ mapped.state # null /\ mapped.state.tokens = raw.tokens
           /\ mapped.issues = <<>>
<1> DEFINE Numbers == {"count", "window_start_ms", "window_size_sec", "tokens",
                        "last_refill_ms", "state_schema_version"}
<1> DEFINE Positives == {"capacity", "refill_rate_per_sec", "tokens_per_request"}
<1>1. /\ DOMAIN raw = {"count", "window_start_ms", "window_size_sec",
                       "state_schema_version", "tokens", "capacity", "refill_rate_per_sec",
                       "tokens_per_request", "last_refill_ms"}
      /\ \A f \in Numbers : raw[f] \in Int
      /\ \A f \in Positives : raw[f] \in Positive
    BY DEF AlgorithmState
<1>2. raw # null /\ null \notin Int
    BY NullIsNothing DEF PageNames
<1>3. \A f \in Numbers : TB!toNumberOrNull(TB!Field(raw, f)) = raw[f]
    BY <1>1, <1>2 DEF TB!toNumberOrNull, TB!Field, TB!isRecord
<1>4. \A f \in Positives :
        /\ TB!toPositiveIntOrNull(TB!Field(raw, f)) # null
        /\ TB!toPositiveFloatOrNull(TB!Field(raw, f)) # null
    BY <1>1, <1>2 DEF TB!toNumberOrNull, TB!toPositiveIntOrNull, TB!toPositiveFloatOrNull,
        TB!Field, TB!isRecord, TB!Floor, TB!One, Positive
<1>5. TB!SchemaWarning(raw) = <<>>
    BY <1>1, <1>2, <1>3 DEF TB!SchemaWarning
<1>6. \A f \in TB!Baseline : TB!Decoded(raw)[f] # null
    BY <1>1, <1>2, <1>3, <1>4 DEF TB!Decoded, TB!Baseline
<1>7. TB!Decoded(raw).tokens = raw.tokens
    BY <1>3 DEF TB!Decoded
<1>8. TB!Decoded(raw) # null
    BY TokenBucketStates, NullIsNothing DEF PageStates
<1> QED BY <1>2, <1>5, <1>6, <1>7, <1>8
        DEF TB!mapAlgorithmState, TB!StateOf, TB!isRecord, TB!Present

LEMMA TokenBucketDecision ==
    ASSUME NEW a \in PageNames, NEW raw \in Body(a), raw.allowed => raw.retry_after_ms = null,
           NEW clientId \in Int
    PROVE  LET mapped == TB!mapDecision(raw, clientId) IN
           /\ Says(mapped.decision, raw, clientId)
           /\ mapped.issues \in Seq(Codes)
           /\ mapped.issues = <<>> <=> a = "token_bucket"
           /\ a = "token_bucket" =>
                  /\ mapped.decision.algorithmState # null
                  /\ mapped.decision.algorithmState.tokens = raw.algorithm_state.tokens
<1> DEFINE state == TB!mapAlgorithmState(raw.algorithm_state)
           warnings == TB!AlgorithmWarning(raw, "token_bucket") \o TB!RetryWarning(raw)
           decision == [requestId |-> raw.request_id, ts |-> raw.ts, allowed |-> raw.allowed,
                        algorithm |-> a, retryAfterMs |-> raw.retry_after_ms,
                        remaining |-> raw.remaining, clientId |-> clientId,
                        algorithmState |-> state.state]
<1>1. /\ \A f \in BodyFields : TB!Field(raw, f) = raw[f]
      /\ TB!Field(raw, "client_id") = null
    BY BodyOf DEF TB!Field, TB!isRecord, BodyFields
<1>2. /\ TB!toNumberOrNull(raw.retry_after_ms) = raw.retry_after_ms
      /\ TB!toNumberOrNull(raw.remaining) = raw.remaining
    BY BodyOf DEF TB!toNumberOrNull, Number
<1>3. \A f \in {"request_id", "ts", "policy_id", "latency_ms", "allowed", "algorithm"} :
        raw[f] # null
    BY BodyOf
<1>4. /\ state.state \in PageStates \cup {null}
      /\ state.issues \in Seq(Codes)
      /\ raw.algorithm = a /\ raw.algorithm_state \in AlgorithmState(a)
    BY TokenBucketStates, BodyOf DEF PageStates
<1>5. /\ warnings \in Seq(Codes)
      /\ warnings = <<>> <=> a = "token_bucket"
    <2>1. TB!RetryWarning(raw) = <<>>
        BY <1>1, <1>2 DEF TB!RetryWarning, BodyFields
    <2>2. /\ TB!AlgorithmWarning(raw, "token_bucket") \in Seq(Codes)
          /\ TB!AlgorithmWarning(raw, "token_bucket") = <<>> <=> a = "token_bucket"
        BY <1>1, <1>4, CodeLists DEF TB!AlgorithmWarning, BodyFields
    <2>3. TB!AlgorithmWarning(raw, "token_bucket") \o <<>>
            = TB!AlgorithmWarning(raw, "token_bucket")
        BY <2>2, ConcatEmptySeq
    <2> QED BY <2>1, <2>2, <2>3
<1>6. decision \in Decisions
    BY <1>4, BodyOf DEF Decisions, Number
<1> HIDE DEF state, warnings
<1>7. TB!mapDecision(raw, clientId)
        = [decision |-> decision, issues |-> state.issues \o warnings]
    BY <1>1, <1>2, <1>3, <1>4
        DEF TB!mapDecision, TB!DecisionOf, TB!OrElse, BodyFields, state, warnings
<1>8. /\ state.issues \o warnings = <<>> <=> state.issues = <<>> /\ warnings = <<>>
      /\ state.issues \o warnings \in Seq(Codes)
    BY <1>4, <1>5, ConcatEqualIffEmpty, ConcatProperties
<1>9. CASE a = "token_bucket"
    <2>1. state.state # null /\ state.issues = <<>>
          /\ state.state.tokens = raw.algorithm_state.tokens
        BY <1>4, <1>9, TokenBucketOwnState DEF state
    <2> QED BY <1>5, <1>6, <1>7, <1>8, <1>9, <2>1 DEF Says
<1>10. CASE a # "token_bucket"
    BY <1>5, <1>6, <1>7, <1>8, <1>10 DEF Says
<1> QED BY <1>9, <1>10

-----------------------------------------------------------------------------
(***************************************************************************)
(* What the LeakyBucket page makes of a state and of an answer.            *)
(***************************************************************************)
LEMMA LeakyBucketStates ==
    ASSUME NEW raw
    PROVE  LET mapped == LB!mapAlgorithmState(raw) IN
           /\ LB!Decoded(raw) \in LB!AlgorithmStates
           /\ mapped.state \in LB!AlgorithmStates \cup {null}
           /\ mapped.issues \in Seq(Codes)
<1>1.
    /\ \A v : LB!toNumberOrNull(v) \in Number
    /\ \A v : LB!toPositiveIntOrNull(v) \in Number
    /\ \A v : LB!toPositiveFloatOrNull(v) \in Number
    BY DEF LB!toNumberOrNull, LB!toPositiveIntOrNull, LB!toPositiveFloatOrNull,
           LB!Floor, LB!One, Number
<1>2. LB!Decoded(raw) \in LB!AlgorithmStates
    BY <1>1 DEF LB!Decoded, LB!AlgorithmStates, LB!Number, Number
<1>3. LB!SchemaWarning(raw) \in Seq(Codes)
    BY CodeLists DEF LB!SchemaWarning
<1> QED BY <1>2, <1>3, CodeLists DEF LB!mapAlgorithmState, LB!StateOf

LEMMA LeakyBucketOwnState ==
    ASSUME NEW raw \in AlgorithmState("leaky_bucket")
    PROVE  LET mapped == LB!mapAlgorithmState(raw) IN
           /\ mapped.state # null /\ mapped.state.waterLevel = raw.water_level
           /\ mapped.issues = <<>>
<1> DEFINE Numbers == {"count", "window_start_ms", "window_size_sec", "water_level",
                        "last_leak_ms", "state_schema_version"}
<1> DEFINE Positives == {"capacity", "leak_rate_per_sec", "water_per_request"}
<1>1. /\ DOMAIN raw = {"count", "window_start_ms", "window_size_sec",
                       "state_schema_version", "water_level", "capacity",
                       "leak_rate_per_sec", "water_per_request", "last_leak_ms"}
      /\ \A f \in Numbers : raw[f] \in Int
      /\ \A f \in Positives : raw[f] \in Positive
    BY DEF AlgorithmState
<1>2. raw # null /\ null \notin Int
    BY NullIsNothing DEF PageNames
<1>3. \A f \in Numbers : LB!toNumberOrNull(LB!Field(raw, f)) = raw[f]
    BY <1>1, <1>2 DEF LB!toNumberOrNull, LB!Field, LB!isRecord
<1>4. \A f \in Positives :
        /\ LB!toPositiveIntOrNull(LB!Field(raw, f)) # null
        /\ LB!toPositiveFloatOrNull(LB!Field(raw, f)) # null
    BY <1>1, <1>2 DEF LB!toNumberOrNull, LB!toPositiveIntOrNull, LB!toPositiveFloatOrNull,
        LB!Field, LB!isRecord, LB!Floor, LB!One, Positive
<1>5. LB!SchemaWarning(raw) = <<>>
    BY <1>1, <1>2, <1>3 DEF LB!SchemaWarning
<1>6. \A f \in LB!Baseline : LB!Decoded(raw)[f] # null
    BY <1>1, <1>2, <1>3, <1>4 DEF LB!Decoded, LB!Baseline
<1>7. LB!Decoded(raw).waterLevel = raw.water_level
    BY <1>3 DEF LB!Decoded
<1>8. LB!Decoded(raw) # null
    BY LeakyBucketStates, NullIsNothing DEF PageStates
<1> QED BY <1>2, <1>5, <1>6, <1>7, <1>8
        DEF LB!mapAlgorithmState, LB!StateOf, LB!isRecord, LB!Present

LEMMA LeakyBucketDecision ==
    ASSUME NEW a \in PageNames, NEW raw \in Body(a), raw.allowed => raw.retry_after_ms = null,
           NEW clientId \in Int
    PROVE  LET mapped == LB!mapDecision(raw, clientId) IN
           /\ Says(mapped.decision, raw, clientId)
           /\ mapped.issues \in Seq(Codes)
           /\ mapped.issues = <<>> <=> a = "leaky_bucket"
           /\ a = "leaky_bucket" =>
                  /\ mapped.decision.algorithmState # null
                  /\ mapped.decision.algorithmState.waterLevel = raw.algorithm_state.water_level
<1> DEFINE state == LB!mapAlgorithmState(raw.algorithm_state)
           warnings == LB!AlgorithmWarning(raw, "leaky_bucket") \o LB!RetryWarning(raw)
           decision == [requestId |-> raw.request_id, ts |-> raw.ts, allowed |-> raw.allowed,
                        algorithm |-> a, retryAfterMs |-> raw.retry_after_ms,
                        remaining |-> raw.remaining, clientId |-> clientId,
                        algorithmState |-> state.state]
<1>1. /\ \A f \in BodyFields : LB!Field(raw, f) = raw[f]
      /\ LB!Field(raw, "client_id") = null
    BY BodyOf DEF LB!Field, LB!isRecord, BodyFields
<1>2. /\ LB!toNumberOrNull(raw.retry_after_ms) = raw.retry_after_ms
      /\ LB!toNumberOrNull(raw.remaining) = raw.remaining
    BY BodyOf DEF LB!toNumberOrNull, Number
<1>3. \A f \in {"request_id", "ts", "policy_id", "latency_ms", "allowed", "algorithm"} :
        raw[f] # null
    BY BodyOf
<1>4. /\ state.state \in PageStates \cup {null}
      /\ state.issues \in Seq(Codes)
      /\ raw.algorithm = a /\ raw.algorithm_state \in AlgorithmState(a)
    BY LeakyBucketStates, BodyOf DEF PageStates
<1>5. /\ warnings \in Seq(Codes)
      /\ warnings = <<>> <=> a = "leaky_bucket"
    <2>1. LB!RetryWarning(raw) = <<>>
        BY <1>1, <1>2 DEF LB!RetryWarning, BodyFields
    <2>2. /\ LB!AlgorithmWarning(raw, "leaky_bucket") \in Seq(Codes)
          /\ LB!AlgorithmWarning(raw, "leaky_bucket") = <<>> <=> a = "leaky_bucket"
        BY <1>1, <1>4, CodeLists DEF LB!AlgorithmWarning, BodyFields
    <2>3. LB!AlgorithmWarning(raw, "leaky_bucket") \o <<>>
            = LB!AlgorithmWarning(raw, "leaky_bucket")
        BY <2>2, ConcatEmptySeq
    <2> QED BY <2>1, <2>2, <2>3
<1>6. decision \in Decisions
    BY <1>4, BodyOf DEF Decisions, Number
<1> HIDE DEF state, warnings
<1>7. LB!mapDecision(raw, clientId)
        = [decision |-> decision, issues |-> state.issues \o warnings]
    BY <1>1, <1>2, <1>3, <1>4
        DEF LB!mapDecision, LB!DecisionOf, LB!OrElse, BodyFields, state, warnings
<1>8. /\ state.issues \o warnings = <<>> <=> state.issues = <<>> /\ warnings = <<>>
      /\ state.issues \o warnings \in Seq(Codes)
    BY <1>4, <1>5, ConcatEqualIffEmpty, ConcatProperties
<1>9. CASE a = "leaky_bucket"
    <2>1. state.state # null /\ state.issues = <<>>
          /\ state.state.waterLevel = raw.algorithm_state.water_level
        BY <1>4, <1>9, LeakyBucketOwnState DEF state
    <2> QED BY <1>5, <1>6, <1>7, <1>8, <1>9, <2>1 DEF Says
<1>10. CASE a # "leaky_bucket"
    BY <1>5, <1>6, <1>7, <1>8, <1>10 DEF Says
<1> QED BY <1>9, <1>10

-----------------------------------------------------------------------------
(***************************************************************************)
(* The five pages under one name.                                          *)
(***************************************************************************)

\* The figure that a page's chart compares is that of the gateway's state.
OwnFigure(p, state, raw) ==
    /\ state # null
    /\ p \in Windowed => state.count = raw.count
    /\ p = "token_bucket" => state.tokens = raw.tokens
    /\ p = "leaky_bucket" => state.waterLevel = raw.water_level

\* The events of a page.
Events ==
    [id : Int, ts : Int, kind : {"decision", "synthetic_error"}, decision : {null} \cup Decisions,
     issues : {<<"request_error">>} \cup Seq(Codes)]

\* A judged answer that comes whole is shown as the decision that it is.
LEMMA JudgedShown ==
    ASSUME NEW p \in PageNames, NEW a \in PageNames, NEW call \in JudgedAnswers(a),
           call.ok \/ call.status = 429,
           call.body.allowed => call.body.retry_after_ms = null,
           NEW clientId \in Int, NEW id, NEW t
    PROVE  LET event == simulateRequest(p, call, clientId, id, t) IN
           /\ event \in Events
           /\ event.kind = "decision" /\ event.id = call.body.request_id
           /\ Says(event.decision, call.body, clientId)
           /\ event.issues = <<>> <=> a = p
           /\ a = p => OwnFigure(p, event.decision.algorithmState, call.body.algorithm_state)
<1>1. call # null /\ DOMAIN call = {"kind", "ok", "status", "body"} /\ call.kind = "http"
      /\ call.body \in Body(a)
    BY NullIsNothing DEF JudgedAnswers
<1>2. \A d \in Decisions : d # null
    BY NullIsNothing
<1>3. CASE p = "fixed_window"
    <2> DEFINE mapped == FW!mapDecision(call.body, clientId)
    <2>1. FW!Field(call, "body") = call.body
        BY <1>1 DEF FW!Field, FW!isRecord
    <2>2. simulateRequest(p, call, clientId, id, t)
          = FW!simulateFixedWindowRequest(call, clientId, id, t)
        BY <1>3 DEF simulateRequest
    <2>3. /\ Says(mapped.decision, call.body, clientId)
          /\ mapped.issues \in Seq(Codes)
          /\ mapped.issues = <<>> <=> a = "fixed_window"
          /\ a = "fixed_window" =>
                /\ mapped.decision.algorithmState # null
                /\ mapped.decision.algorithmState.count
                        = call.body.algorithm_state.count
        BY <1>1, FixedWindowDecision
    <2> HIDE DEF mapped
    <2>4. FW!simulateFixedWindowRequest(call, clientId, id, t)
            = [id |-> mapped.decision.requestId, ts |-> mapped.decision.ts, kind |-> "decision",
               decision |-> mapped.decision, issues |-> mapped.issues]
        BY <1>1, <1>2, <2>1, <2>3
            DEF FW!simulateFixedWindowRequest, FW!SimulateResult, Says, mapped
    <2>5. simulateRequest(p, call, clientId, id, t).id = call.body.request_id
        BY <2>2, <2>3, <2>4 DEF Says
    <2>6. a = p => OwnFigure(p, mapped.decision.algorithmState, call.body.algorithm_state)
        BY <1>3, <2>3 DEF OwnFigure, Windowed
    <2>7. simulateRequest(p, call, clientId, id, t) \in Events
        BY <2>2, <2>3, <2>4 DEF Events, Says, Decisions
    <2> QED BY <1>3, <2>2, <2>3, <2>4, <2>5, <2>6, <2>7
<1>4. CASE p = "sliding_log"
    <2> DEFINE mapped == SL!mapDecision(call.body, clientId)
    <2>1. SL!Field(call, "body") = call.body
        BY <1>1 DEF SL!Field, SL!isRecord
    <2>2. simulateRequest(p, call, clientId, id, t)
          = SL!simulateSlidingLogRequest(call, clientId, id, t)
        BY <1>4 DEF simulateRequest
    <2>3. /\ Says(mapped.decision, call.body, clientId)
          /\ mapped.issues \in Seq(Codes)
          /\ mapped.issues = <<>> <=> a = "sliding_log"
          /\ a = "sliding_log" =>
                /\ mapped.decision.algorithmState # null
                /\ mapped.decision.algorithmState.count
                        = call.body.algorithm_state.count
        BY <1>1, SlidingLogDecision
    <2> HIDE DEF mapped
    <2>4. SL!simulateSlidingLogRequest(call, clientId, id, t)
            = [id |-> mapped.decision.requestId, ts |-> mapped.decision.ts, kind |-> "decision",
               decision |-> mapped.decision, issues |-> mapped.issues]
        BY <1>1, <1>2, <2>1, <2>3
            DEF SL!simulateSlidingLogRequest, SL!SimulateResult, Says, mapped
    <2>5. simulateRequest(p, call, clientId, id, t).id = call.body.request_id
        BY <2>2, <2>3, <2>4 DEF Says
    <2>6. a = p => OwnFigure(p, mapped.decision.algorithmState, call.body.algorithm_state)
        BY <1>4, <2>3 DEF OwnFigure, Windowed
    <2>7. simulateRequest(p, call, clientId, id, t) \in Events
        BY <2>2, <2>3, <2>4 DEF Events, Says, Decisions
    <2> QED BY <1>4, <2>2, <2>3, <2>4, <2>5, <2>6, <2>7
<1>5. CASE p = "sliding_window_counter"
    <2> DEFINE mapped == SWC!mapDecision(call.body, clientId)
    <2>1. SWC!Field(call, "body") = call.body
        BY <1>1 DEF SWC!Field, SWC!isRecord
    <2>2. simulateRequest(p, call, clientId, id, t)
          = SWC!simulateSlidingWindowCounterRequest(call, clientId, id, t)
        BY <1>5 DEF simulateRequest
    <2>3. /\ Says(mapped.decision, call.body, clientId)
          /\ mapped.issues \in Seq(Codes)
          /\ mapped.issues = <<>> <=> a = "sliding_window_counter"
          /\ a = "sliding_window_counter" =>
                /\ mapped.decision.algorithmState # null
                /\ mapped.decision.algorithmState.count
                        = call.body.algorithm_state.count
        BY <1>1, SlidingWindowCounterDecision
    <2> HIDE DEF mapped
    <2>4. SWC!simulateSlidingWindowCounterRequest(call, clientId, id, t)
            = [id |-> mapped.decision.requestId, ts |-> mapped.decision.ts, kind |-> "decision",
               decision |-> mapped.decision, issues |-> mapped.issues]
        BY <1>1, <1>2, <2>1, <2>3
            DEF SWC!simulateSlidingWindowCounterRequest, SWC!SimulateResult, Says, mapped
    <2>5. simulateRequest(p, call, clientId, id, t).id = call.body.request_id
        BY <2>2, <2>3, <2>4 DEF Says
    <2>6. a = p => OwnFigure(p, mapped.decision.algorithmState, call.body.algorithm_state)
        BY <1>5, <2>3 DEF OwnFigure, Windowed
    <2>7. simulateRequest(p, call, clientId, id, t) \in Events
        BY <2>2, <2>3, <2>4 DEF Events, Says, Decisions
    <2> QED BY <1>5, <2>2, <2>3, <2>4, <2>5, <2>6, <2>7
<1>6. CASE p = "token_bucket"
    <2> DEFINE mapped == TB!mapDecision(call.body, clientId)
    <2>1. TB!Field(call, "body") = call.body
        BY <1>1 DEF TB!Field, TB!isRecord
    <2>2. simulateRequest(p, call, clientId, id, t)
          = TB!simulateTokenBucketRequest(call, clientId, id, t)
        BY <1>6 DEF simulateRequest
    <2>3. /\ Says(mapped.decision, call.body, clientId)
          /\ mapped.issues \in Seq(Codes)
          /\ mapped.issues = <<>> <=> a = "token_bucket"
          /\ a = "token_bucket" =>
                /\ mapped.decision.algorithmState # null
                /\ mapped.decision.algorithmState.tokens
                        = call.body.algorithm_state.tokens
        BY <1>1, TokenBucketDecision
    <2> HIDE DEF mapped
    <2>4. TB!simulateTokenBucketRequest(call, clientId, id, t)
            = [id |-> mapped.decision.requestId, ts |-> mapped.decision.ts, kind |-> "decision",
               decision |-> mapped.decision, issues |-> mapped.issues]
        BY <1>1, <1>2, <2>1, <2>3
            DEF TB!simulateTokenBucketRequest, TB!SimulateResult, Says, mapped
    <2>5. simulateRequest(p, call, clientId, id, t).id = call.body.request_id
        BY <2>2, <2>3, <2>4 DEF Says
    <2>6. a = p => OwnFigure(p, mapped.decision.algorithmState, call.body.algorithm_state)
        BY <1>6, <2>3 DEF OwnFigure, Windowed
    <2>7. simulateRequest(p, call, clientId, id, t) \in Events
        BY <2>2, <2>3, <2>4 DEF Events, Says, Decisions
    <2> QED BY <1>6, <2>2, <2>3, <2>4, <2>5, <2>6, <2>7
<1>7. CASE p = "leaky_bucket"
    <2> DEFINE mapped == LB!mapDecision(call.body, clientId)
    <2>1. LB!Field(call, "body") = call.body
        BY <1>1 DEF LB!Field, LB!isRecord
    <2>2. simulateRequest(p, call, clientId, id, t)
          = LB!simulateLeakyBucketRequest(call, clientId, id, t)
        BY <1>7 DEF simulateRequest
    <2>3. /\ Says(mapped.decision, call.body, clientId)
          /\ mapped.issues \in Seq(Codes)
          /\ mapped.issues = <<>> <=> a = "leaky_bucket"
          /\ a = "leaky_bucket" =>
                /\ mapped.decision.algorithmState # null
                /\ mapped.decision.algorithmState.waterLevel
                        = call.body.algorithm_state.water_level
        BY <1>1, LeakyBucketDecision
    <2> HIDE DEF mapped
    <2>4. LB!simulateLeakyBucketRequest(call, clientId, id, t)
            = [id |-> mapped.decision.requestId, ts |-> mapped.decision.ts, kind |-> "decision",
               decision |-> mapped.decision, issues |-> mapped.issues]
        BY <1>1, <1>2, <2>1, <2>3
            DEF LB!simulateLeakyBucketRequest, LB!SimulateResult, Says, mapped
    <2>5. simulateRequest(p, call, clientId, id, t).id = call.body.request_id
        BY <2>2, <2>3, <2>4 DEF Says
    <2>6. a = p => OwnFigure(p, mapped.decision.algorithmState, call.body.algorithm_state)
        BY <1>7, <2>3 DEF OwnFigure, Windowed
    <2>7. simulateRequest(p, call, clientId, id, t) \in Events
        BY <2>2, <2>3, <2>4 DEF Events, Says, Decisions
    <2> QED BY <1>7, <2>2, <2>3, <2>4, <2>5, <2>6, <2>7
<1> QED BY <1>3, <1>4, <1>5, <1>6, <1>7 DEF PageNames

\* All else is shown as an error.
LEMMA FailureShown ==
    ASSUME NEW p \in PageNames, NEW call \in Failures \cup [kind : {"timeout"}],
           NEW clientId, NEW id, NEW t
    PROVE  simulateRequest(p, call, clientId, id, t) = SyntheticError(id, t)
<1>1. call.kind # "http" \/ (~ call.ok /\ call.status # 429)
    <2>1. CASE call \in [kind : {"non_json", "network_error", "none"}] \cup [kind : {"timeout"}]
        BY <2>1
    <2>2. CASE call \in [kind : {"http"}, ok : {FALSE}, status : {500},
                         body : [detail : {"error"}]]
        <3>1. call.ok = FALSE /\ call.status = 500
            BY <2>2
        <3> QED BY <3>1
    <2> QED BY <2>1, <2>2 DEF Failures
<1>2. CASE p = "fixed_window"
    <2>1. simulateRequest(p, call, clientId, id, t)
          = FW!simulateFixedWindowRequest(call, clientId, id, t)
        BY <1>2 DEF simulateRequest
    <2> QED BY <1>1, <2>1 DEF FW!simulateFixedWindowRequest, FW!SimulateResult,
                FW!createSyntheticErrorResult, FW!SyntheticError, SyntheticError
<1>3. CASE p = "sliding_log"
    <2>1. simulateRequest(p, call, clientId, id, t)
          = SL!simulateSlidingLogRequest(call, clientId, id, t)
        BY <1>3 DEF simulateRequest
    <2> QED BY <1>1, <2>1 DEF SL!simulateSlidingLogRequest, SL!SimulateResult,
                SL!createSyntheticErrorResult, SL!SyntheticError, SyntheticError
<1>4. CASE p = "sliding_window_counter"
    <2>1. simulateRequest(p, call, clientId, id, t)
          = SWC!simulateSlidingWindowCounterRequest(call, clientId, id, t)
        BY <1>4 DEF simulateRequest
    <2> QED BY <1>1, <2>1 DEF SWC!simulateSlidingWindowCounterRequest, SWC!SimulateResult,
                SWC!createSyntheticErrorResult, SWC!SyntheticError, SyntheticError
<1>5. CASE p = "token_bucket"
    <2>1. simulateRequest(p, call, clientId, id, t)
          = TB!simulateTokenBucketRequest(call, clientId, id, t)
        BY <1>5 DEF simulateRequest
    <2> QED BY <1>1, <2>1 DEF TB!simulateTokenBucketRequest, TB!SimulateResult,
                TB!createSyntheticErrorResult, TB!SyntheticError, SyntheticError
<1>6. CASE p = "leaky_bucket"
    <2>1. simulateRequest(p, call, clientId, id, t)
          = LB!simulateLeakyBucketRequest(call, clientId, id, t)
        BY <1>6 DEF simulateRequest
    <2> QED BY <1>1, <2>1 DEF LB!simulateLeakyBucketRequest, LB!SimulateResult,
                LB!createSyntheticErrorResult, LB!SyntheticError, SyntheticError
<1> QED BY <1>2, <1>3, <1>4, <1>5, <1>6 DEF PageNames

LEMMA Appended ==
    ASSUME NEW p \in PageNames, NEW list, NEW event, NEW id, NEW t
    PROVE  /\ appendEvent(p, list, event) = Capped(Append(list, event))
           /\ appendSyntheticError(p, list, id, t) = Capped(Append(list, SyntheticError(id, t)))
<1>1. CASE p = "fixed_window"
    BY <1>1 DEF appendEvent, appendSyntheticError, FW!appendEvent, FW!appendSyntheticError,
        FW!Capped, FW!SyntheticError, Capped, SyntheticError
<1>2. CASE p = "sliding_log"
    BY <1>2 DEF appendEvent, appendSyntheticError, SL!appendEvent, SL!appendSyntheticError,
        SL!Capped, SL!SyntheticError, Capped, SyntheticError
<1>3. CASE p = "sliding_window_counter"
    BY <1>3 DEF appendEvent, appendSyntheticError, SWC!appendEvent, SWC!appendSyntheticError,
        SWC!Capped, SWC!SyntheticError, Capped, SyntheticError
<1>4. CASE p = "token_bucket"
    BY <1>4 DEF appendEvent, appendSyntheticError, TB!appendEvent, TB!appendSyntheticError,
        TB!Capped, TB!SyntheticError, Capped, SyntheticError
<1>5. CASE p = "leaky_bucket"
    BY <1>5 DEF appendEvent, appendSyntheticError, LB!appendEvent, LB!appendSyntheticError,
        LB!Capped, LB!SyntheticError, Capped, SyntheticError
<1> QED BY <1>1, <1>2, <1>3, <1>4, <1>5 DEF PageNames

-----------------------------------------------------------------------------
(***************************************************************************)
(* The limiters, on the keys of one client.                                *)
(***************************************************************************)

LEMMA ParamsOf ==
    /\ \A a \in Windowed :
        /\ Params[a].limit \in Positive /\ Params[a].limit % One = 0
        /\ Params[a].window_size_sec \in Positive
    /\ LET params == Params["token_bucket"] IN
        /\ params.capacity \in Positive /\ params.refill_rate_per_sec \in Positive
        /\ params.tokens_per_request \in Positive /\ params.tokens_per_request % One = 0
    /\ LET params == Params["leaky_bucket"] IN
        /\ params.capacity \in Positive /\ params.leak_rate_per_sec \in Positive
        /\ params.water_per_request \in Positive /\ params.water_per_request % One = 0
<1>1. \A v \in Int : Whole(v) => v % One = 0
    BY DEF Whole, Floor, One
<1>2. \A a \in Windowed : Required(a) = {"window_size_sec", "limit"} /\ a \in PageNames
    BY DEF Required, Windowed, PageNames
<1>3. /\ Required("token_bucket") = {"capacity", "refill_rate_per_sec"}
      /\ Optional("token_bucket") = {"tokens_per_request"}
      /\ Required("leaky_bucket") = {"capacity", "leak_rate_per_sec"}
      /\ Optional("leaky_bucket") = {"water_per_request"}
    BY DEF Required, Optional, Windowed
<1>4. \A a \in Windowed :
        /\ Params[a].limit \in Positive /\ Whole(Params[a].limit)
        /\ Params[a].window_size_sec \in Positive
    BY <1>2, ParamsAssumption DEF Rates
<1>5. {"token_bucket", "leaky_bucket"} \subseteq PageNames
    BY DEF PageNames
<1>6. Positive \subseteq Int
    BY DEF Positive
<1>7. /\ Whole(Params["token_bucket"].tokens_per_request)
      /\ Whole(Params["leaky_bucket"].water_per_request)
    BY <1>3, <1>5, ParamsAssumption DEF Rates
<1> QED BY <1>1, <1>3, <1>4, <1>5, <1>6, <1>7, ParamsAssumption

\* What Redis may hold of one client.
AreKeys(keys) ==
    /\ DOMAIN keys = {"counts", "log", "level", "at"}
    /\ keys = [counts |-> keys.counts, log |-> keys.log, level |-> keys.level, at |-> keys.at]
    /\ \A s \in DOMAIN keys.counts : keys.counts[s] \in Nat
    /\ IsFiniteSet(keys.log) /\ keys.log \subseteq [at : Int, token : Int]
    /\ keys.level \in Number /\ keys.at \in Number

\* What a limiter may answer.
IsJudgement(judgement, a) ==
    /\ AreKeys(judgement.keys)
    /\ judgement.decision.allowed \in BOOLEAN
    /\ judgement.decision.remaining \in Int
    /\ judgement.decision.retry_after_ms \in Number
    /\ judgement.decision.allowed => judgement.decision.retry_after_ms = null
    /\ judgement.decision.algorithm_state \in AlgorithmState(a)

LEMMA Answers ==
    ASSUME NEW a \in PageNames, NEW isAllowed \in BOOLEAN, NEW left \in Int, NEW wait \in Int,
           NEW state \in AlgorithmState(a), NEW keys, AreKeys(keys)
    PROVE  IsJudgement([keys |-> keys, decision |-> Answer(isAllowed, left, wait, state)], a)
BY DEF IsJudgement, Answer, AtLeast, Number

LEMMA Increments ==
    ASSUME NEW counts, \A s \in DOMAIN counts : counts[s] \in Nat, NEW opens \in Int
    PROVE  LET after == Incremented(counts, opens) IN
           /\ \A s \in DOMAIN after : after[s] \in Nat
           /\ after[opens] = Counter(counts, opens) + 1
           /\ \A s \in Int : Counter(after, s) \in Nat /\ Counter(counts, s) \in Nat
           /\ Counter(after, opens) = Counter(counts, opens) + 1
           /\ \A s \in Int : s # opens => Counter(after, s) = Counter(counts, s)
BY DEF Incremented, Counter

LEMMA FixedWindowJudges ==
    ASSUME NEW keys, AreKeys(keys), NEW t \in Int,
           NEW params, params = Params["fixed_window"]
    PROVE  LET judgement == fixed_window(params, keys, t)
               next == fixed_window(params, judgement.keys, t)
           IN /\ IsJudgement(judgement, "fixed_window")
              /\ next.decision.allowed <=> judgement.decision.remaining > 0
<1> DEFINE size == params.window_size_sec
           opens == t - (t % size)
           counts == Incremented(keys.counts, opens)
           count == One * counts[opens]
           after == [keys EXCEPT !.counts = counts]
           state == [count |-> count, window_start_ms |-> opens, window_size_sec |-> size,
                     state_schema_version |-> 1]
           c == Counter(keys.counts, opens)
<1>1. /\ size \in Positive /\ size \in Int /\ size > 0
      /\ params.limit \in Nat /\ params.limit % One = 0
    BY ParamsOf DEF Windowed, Positive
<1>2. opens \in Int
    BY <1>1
<1> HIDE DEF size, opens
<1>3. /\ \A s \in DOMAIN counts : counts[s] \in Nat
      /\ counts[opens] = c + 1 /\ c \in Nat
      /\ Counter(counts, opens) = c + 1
    BY <1>2, Increments DEF AreKeys
<1>4. AreKeys(after) /\ after.counts = counts
    BY <1>3 DEF AreKeys
<1>5. state \in AlgorithmState("fixed_window")
    BY <1>1, <1>2, <1>3 DEF AlgorithmState, One
<1>6. fixed_window(params, keys, t)
        = [keys |-> after,
           decision |->
                Answer(count <= params.limit, params.limit - count, opens + size - t, state)]
    BY DEF fixed_window, size, opens
<1>12. /\ (count <= params.limit) \in BOOLEAN /\ params.limit - count \in Int
       /\ opens + size - t \in Int /\ count = One * (c + 1)
    BY <1>1, <1>2, <1>3 DEF One
<1>13. \A s \in DOMAIN after.counts : after.counts[s] \in Nat
    BY <1>3, <1>4
<1> HIDE DEF after, state, count, counts, c
<1>7. IsJudgement(fixed_window(params, keys, t), "fixed_window")
    BY <1>4, <1>5, <1>6, <1>12, Answers DEF PageNames
<1>8. fixed_window(params, after, t).decision.allowed
        <=> One * Incremented(after.counts, opens)[opens] <= params.limit
    BY DEF fixed_window, size, opens, Answer
<1>9. Incremented(after.counts, opens)[opens] = c + 2
    <2>1. Counter(after.counts, opens) = c + 1
        BY <1>3, <1>4
    <2>2. Incremented(after.counts, opens)[opens] = Counter(after.counts, opens) + 1
        BY <1>2, <1>13, Increments
    <2> QED BY <1>3, <2>1, <2>2
<1>10. fixed_window(params, keys, t).decision.remaining
        = IF One * (c + 1) <= params.limit THEN params.limit - One * (c + 1) ELSE 0
    BY <1>1, <1>3, <1>6, <1>12 DEF Answer, AtLeast, One
<1>11. One * (c + 2) <= params.limit
        <=> One * (c + 1) <= params.limit /\ params.limit - One * (c + 1) > 0
    BY <1>1, <1>3 DEF One
<1> QED BY <1>6, <1>7, <1>8, <1>9, <1>10, <1>11

-----------------------------------------------------------------------------
(***************************************************************************)
(* Finite sets of numbers.                                                 *)
(***************************************************************************)

\* A set of natural numbers has a least one.
LEMMA Least ==
    ASSUME NEW S, S \subseteq Nat, S # {}
    PROVE  \E x \in S : \A y \in S : x <= y
<1> DEFINE R == {p \in Nat \X Nat : p[1] < p[2]}
<1>1. IsWellFoundedOn(R, Nat)
    BY NatLessThanWellFounded DEF OpToRel
<1>2. \A a, b \in Nat : a < b => <<a, b>> \in R
    OBVIOUS
<1> HIDE DEF R
<1>3. \E x \in S : \A y \in S : ~ (<<y, x>> \in R)
    BY <1>1, WFMin
<1>4. \A a, b \in Nat : ~ (<<a, b>> \in R) => b <= a
    BY <1>2
<1> QED BY <1>3, <1>4

\* Of finitely many, one has the least of the numbers that they are given.
LEMMA LeastOf ==
    ASSUME NEW S, S # {}, IsFiniteSet(S), NEW f \in [S -> Int]
    PROVE  \E x \in S : \A y \in S : f[x] <= f[y]
<1> DEFINE Below(x) == {y \in S : f[y] < f[x]}
           Ranks == {Cardinality(Below(x)) : x \in S}
<1>1. \A x \in S : IsFiniteSet(Below(x)) /\ Cardinality(Below(x)) \in Nat
    BY FS_Subset, FS_CardinalityType
<1>2. \E r \in Ranks : \A q \in Ranks : r <= q
    <2> Ranks \subseteq Nat /\ Ranks # {}
        BY <1>1
    <2> HIDE DEF Ranks
    <2> QED BY Least
<1>3. PICK x \in S : \A y \in S : Cardinality(Below(x)) <= Cardinality(Below(y))
    BY <1>2
<1>4. ASSUME NEW y \in S, f[y] < f[x]
      PROVE  FALSE
    <2>1. Below(y) \subseteq Below(x) /\ Below(y) # Below(x)
        <3>1. f[x] \in Int /\ f[y] \in Int /\ \A z \in S : f[z] \in Int
            OBVIOUS
        <3>2. y \in Below(x) /\ ~ (y \in Below(y))
            BY <1>4, <3>1
        <3>3. \A z \in S : f[z] < f[y] => f[z] < f[x]
            BY <1>4, <3>1
        <3> QED BY <3>2, <3>3
    <2>2. Cardinality(Below(y)) < Cardinality(Below(x))
        BY <1>1, <2>1, FS_Subset
    <2>3. Cardinality(Below(x)) \in Nat /\ Cardinality(Below(y)) \in Nat
        BY <1>1
    <2>4. Cardinality(Below(x)) <= Cardinality(Below(y))
        BY <1>3
    <2> HIDE DEF Below
    <2> QED BY <2>2, <2>3, <2>4
<1>5. \A y \in S : f[y] \in Int
    OBVIOUS
<1> QED BY <1>4, <1>5

\* A finite set of integers has a least and a greatest one.
LEMMA Extremes ==
    ASSUME NEW S, S \subseteq Int, S # {}, IsFiniteSet(S)
    PROVE  /\ \E x \in S : \A y \in S : x <= y
           /\ \E x \in S : \A y \in S : y <= x
<1>1. PICK x \in S : \A y \in S : [z \in S |-> z][x] <= [z \in S |-> z][y]
    <2> [z \in S |-> z] \in [S -> Int]
        OBVIOUS
    <2> QED BY LeastOf
<1>2. PICK v \in S : \A y \in S : [z \in S |-> - z][v] <= [z \in S |-> - z][y]
    <2> [z \in S |-> - z] \in [S -> Int]
        OBVIOUS
    <2> QED BY LeastOf
<1>3. \A y \in S : y \in Int /\ x <= y /\ - v <= - y
    BY <1>1, <1>2
<1>4. v \in Int /\ \A y \in S : y <= v
    BY <1>3
<1> QED BY <1>3, <1>4

\* Of the members of a log, one is the oldest.
LEMMA OldestMember ==
    ASSUME NEW S, IsFiniteSet(S), S # {}, \A m \in S : m.at \in Int
    PROVE  (CHOOSE m \in S : \A o \in S : m.at <= o.at) \in S
<1>1. PICK m \in S : \A o \in S : [z \in S |-> z.at][m] <= [z \in S |-> z.at][o]
    <2> [z \in S |-> z.at] \in [S -> Int]
        OBVIOUS
    <2> QED BY LeastOf
<1>2. \E x \in S : \A o \in S : x.at <= o.at
    BY <1>1
<1> QED BY <1>2

\* The k-th number of a finite set, in order, exists.
LEMMA Ranked ==
    ASSUME NEW S, S \subseteq Int, IsFiniteSet(S), NEW k \in 1 .. Cardinality(S)
    PROVE  Ascending(S)[k] \in S /\ Cardinality({y \in S : y <= Ascending(S)[k]}) = k
<1> DEFINE UpTo(x) == {y \in S : y <= x}
           High == {x \in S : Cardinality(UpTo(x)) >= k}
<1>1. \A x \in S : IsFiniteSet(UpTo(x)) /\ Cardinality(UpTo(x)) \in Nat
    BY FS_Subset, FS_CardinalityType
<1>2. Cardinality(S) \in Nat /\ S # {} /\ k \in Nat
    BY FS_CardinalityType, FS_EmptySet
<1>3. High # {}
    <2>1. PICK x \in S : \A y \in S : y <= x
        BY <1>2, Extremes
    <2>2. UpTo(x) = S
        BY <2>1
    <2> QED BY <1>2, <2>2
<1>4. PICK x \in High : \A y \in High : x <= y
    <2> High \subseteq Int /\ IsFiniteSet(High)
        BY FS_Subset
    <2> HIDE DEF High
    <2> QED BY <1>3, Extremes
<1>5. Cardinality(UpTo(x)) = k
    <2> SUFFICES ASSUME Cardinality(UpTo(x)) > k PROVE FALSE
        BY <1>1, <1>2
    <2> DEFINE Below == UpTo(x) \ {x}
    <2>1. x \in S /\ x \in Int /\ x \in UpTo(x) /\ \A y \in S : y \in Int
        OBVIOUS
    <2> HIDE DEF High
    <2>2. IsFiniteSet(Below) /\ Cardinality(Below) = Cardinality(UpTo(x)) - 1
        <3> HIDE DEF UpTo
        <3> QED BY <1>1, <2>1, FS_RemoveElement
    <2>3. Cardinality(Below) >= k /\ k > 0
        <3>1. Cardinality(UpTo(x)) \in Nat /\ k > 0
            BY <1>1, <2>1
        <3> HIDE DEF UpTo, Below
        <3> QED BY <1>2, <2>2, <3>1
    <2>4. Below # {} /\ Below \subseteq Int
        <3>1. Cardinality(Below) # 0
            BY <1>1, <1>2, <2>1, <2>2, <2>3
        <3>2. Below \subseteq Int
            BY <2>1
        <3> HIDE DEF Below
        <3> QED BY <2>2, <3>1, <3>2, FS_EmptySet
    <2>5. PICK z \in Below : \A y \in Below : y <= z
        <3> HIDE DEF Below
        <3> QED BY <2>2, <2>4, Extremes
    <2>6. z \in S /\ z \in Int /\ z < x
        BY <2>1
    <2>7. UpTo(z) = Below
        <3>1. \A y \in S : y <= z => y <= x /\ y # x
            BY <2>1, <2>6
        <3>2. \A y \in S : y <= x /\ y # x => y <= z
            BY <2>5
        <3> QED BY <3>1, <3>2
    <2>8. z \in High
        BY <2>3, <2>6, <2>7 DEF High
    <2> QED BY <1>4, <2>1, <2>6, <2>8
<1>6. \E y \in S : Cardinality({z \in S : z <= y}) = k
    BY <1>5
<1> QED BY <1>6 DEF Ascending

LEMMA SlidingWindowCounterJudges ==
    ASSUME NEW keys, AreKeys(keys), NEW t \in Int,
           NEW params, params = Params["sliding_window_counter"]
    PROVE  LET judgement == sliding_window_counter(params, keys, t)
               next == sliding_window_counter(params, judgement.keys, t)
           IN /\ IsJudgement(judgement, "sliding_window_counter")
              /\ next.decision.allowed => judgement.decision.remaining > 0
<1> DEFINE size == params.window_size_sec
           opens == t - (t % size)
           counts == Incremented(keys.counts, opens)
           current == One * counts[opens]
           previous == One * Counter(keys.counts, opens - size)
           weight == Ratio(opens + size - t, size)
           earlier == (previous * weight) \div One
           estimated == current + earlier
           after == [keys EXCEPT !.counts = counts]
           state == [count |-> estimated, window_start_ms |-> opens, window_size_sec |-> size,
                     state_schema_version |-> 1, current_window_count |-> current,
                     previous_window_count |-> previous, previous_window_weight |-> weight,
                     estimated_count |-> estimated]
           c == Counter(keys.counts, opens)
<1>1. size \in Int /\ size > 0 /\ params.limit \in Nat
    BY ParamsOf DEF Windowed, Positive
<1>2. opens \in Int /\ opens - size \in Int /\ opens - size # opens
    BY <1>1
<1> HIDE DEF size, opens
<1>3. /\ \A s \in DOMAIN counts : counts[s] \in Nat
      /\ counts[opens] = c + 1 /\ c \in Nat
      /\ Counter(counts, opens) = c + 1
      /\ Counter(keys.counts, opens - size) \in Nat
      /\ Counter(counts, opens - size) = Counter(keys.counts, opens - size)
    BY <1>2, Increments DEF AreKeys
<1>4. AreKeys(after) /\ after.counts = counts
    BY <1>3 DEF AreKeys
<1>5. previous \in Int /\ weight \in Int
    BY <1>1, <1>2, <1>3 DEF Ratio, One
<1>6. earlier \in Int
    BY <1>5 DEF One
<1> HIDE DEF counts, previous, weight, earlier, c
<1>7. current = One * (c + 1) /\ current \in Int /\ estimated \in Int
    BY <1>3, <1>6 DEF One
<1>8. state \in AlgorithmState("sliding_window_counter")
    BY <1>1, <1>2, <1>5, <1>7 DEF AlgorithmState
<1> HIDE DEF current
<1>9. sliding_window_counter(params, keys, t)
        = [keys |-> after,
           decision |-> Answer(estimated < params.limit, Floor(params.limit - estimated),
                               opens + size - t, state)]
    BY DEF sliding_window_counter, size, opens, counts, current, previous, weight, earlier
<1>10. /\ (estimated < params.limit) \in BOOLEAN /\ Floor(params.limit - estimated) \in Int
       /\ opens + size - t \in Int
    BY <1>1, <1>2, <1>7 DEF Floor, One
<1>11. \A s \in DOMAIN after.counts : after.counts[s] \in Nat
    BY <1>3, <1>4
<1> HIDE DEF after, state
<1>12. IsJudgement(sliding_window_counter(params, keys, t), "sliding_window_counter")
    BY <1>4, <1>8, <1>9, <1>10, Answers DEF PageNames
<1>13. sliding_window_counter(params, after, t).decision.allowed
        <=> One * Incremented(after.counts, opens)[opens]
              + (One * Counter(after.counts, opens - size) * weight) \div One < params.limit
    BY DEF sliding_window_counter, size, opens, weight, Answer
<1>14. Incremented(after.counts, opens)[opens] = c + 2
    <2>1. Counter(after.counts, opens) = c + 1
        BY <1>3, <1>4
    <2>2. Incremented(after.counts, opens)[opens] = Counter(after.counts, opens) + 1
        BY <1>2, <1>11, Increments
    <2> QED BY <1>3, <2>1, <2>2
<1>15. (One * Counter(after.counts, opens - size) * weight) \div One = earlier
    BY <1>3, <1>4 DEF earlier, previous
<1>16. sliding_window_counter(params, keys, t).decision.remaining
        = IF estimated < params.limit THEN AtLeast(0, Floor(params.limit - estimated)) ELSE 0
    BY <1>9 DEF Answer
<1>17. One * (c + 2) + earlier < params.limit
        => estimated < params.limit /\ Floor(params.limit - estimated) > 0
    BY <1>1, <1>3, <1>6, <1>7 DEF Floor, One
<1>18. \A v \in Int : v > 0 => AtLeast(0, v) > 0
    BY DEF AtLeast
<1> QED BY <1>9, <1>10, <1>12, <1>13, <1>14, <1>15, <1>16, <1>17, <1>18

\* How much of a log or of a bucket a request at t would find taken.
Recent(keys, t, size) == {m \in keys.log : m.at >= t - size}
Full(keys, t) ==
    LET params == Params["token_bucket"] IN
    AtMost(params.capacity,
           OrElse(keys.level, params.capacity) + Drift(keys, params.refill_rate_per_sec, t))
Water(keys, t) ==
    AtLeast(0, OrElse(keys.level, 0) - Drift(keys, Params["leaky_bucket"].leak_rate_per_sec, t))

LEMMA LogWritten ==
    ASSUME NEW keys, AreKeys(keys), NEW log, IsFiniteSet(log), log \subseteq [at : Int, token : Int]
    PROVE  LET after == [keys EXCEPT !.log = log] IN AreKeys(after) /\ after.log = log
BY DEF AreKeys

Written(keys, level, t) == [keys EXCEPT !.level = level, !.at = t]

LEMMA LevelWritten ==
    ASSUME NEW keys, AreKeys(keys), NEW level \in Int, NEW t \in Int
    PROVE  LET after == Written(keys, level, t) IN
           AreKeys(after) /\ after.level = level /\ after.at = t
<1> DEFINE after == Written(keys, level, t)
           written == [counts |-> keys.counts, log |-> keys.log, level |-> level, at |-> t]
<1>1. after = written
    <2>1. PICK counts, log, old, at :
            keys = [counts |-> counts, log |-> log, level |-> old, at |-> at]
        BY DEF AreKeys
    <2>2. keys.counts = counts /\ keys.log = log
        BY <2>1
    <2> DEFINE half == [keys EXCEPT !.level = level]
    <2>4. half = [counts |-> counts, log |-> log, level |-> level, at |-> at]
        BY <2>1
    <2>5. after = [half EXCEPT !.at = t]
        BY DEF Written
    <2> HIDE DEF half, after
    <2>3. after = [counts |-> counts, log |-> log, level |-> level, at |-> t]
        BY <2>4, <2>5
    <2> QED BY <2>2, <2>3
<1>2. AreKeys(written) /\ written.level = level /\ written.at = t
    BY DEF AreKeys, Number
<1> QED BY <1>1, <1>2

LEMMA SlidingLogJudges ==
    ASSUME NEW keys, AreKeys(keys), NEW t \in Int, NEW token \in Int, NEW other \in Int,
           NEW params, params = Params["sliding_log"]
    PROVE  LET judgement == sliding_log(params, keys, t, token)
               next == sliding_log(params, judgement.keys, t, other)
               size == params.window_size_sec
               count == judgement.decision.algorithm_state.count
           IN /\ IsJudgement(judgement, "sliding_log")
              /\ next.decision.allowed <=> judgement.decision.remaining > 0
              /\ One * Cardinality(Recent(keys, t, size)) <= count
              /\ count = One * Cardinality(Recent(judgement.keys, t, size))
<1> DEFINE size == params.window_size_sec
           recent == Recent(keys, t, size)
           isAllowed == One * Cardinality(recent) < params.limit
           member == [at |-> t, token |-> token]
           log == IF isAllowed THEN recent \cup {member} ELSE recent
           count == One * Cardinality(log)
           oldest == CHOOSE m \in recent : \A o \in recent : m.at <= o.at
           wait == IF recent = {} THEN 1 ELSE oldest.at + size - t
           after == [keys EXCEPT !.log = log]
           state == [count |-> count, window_start_ms |-> t - size, window_size_sec |-> size,
                     state_schema_version |-> 1]
<1>1. size \in Int /\ size > 0 /\ params.limit \in Int
    BY ParamsOf DEF Windowed, Positive
<1> HIDE DEF size
<1>2. /\ recent \subseteq keys.log /\ recent \subseteq [at : Int, token : Int]
      /\ IsFiniteSet(recent) /\ Cardinality(recent) \in Nat
    BY FS_Subset, FS_CardinalityType DEF Recent, AreKeys
<1>3. \A m \in recent : m.at >= t - size
    BY DEF Recent
<1> HIDE DEF recent
<1>4. member \in [at : Int, token : Int] /\ member.at = t
    OBVIOUS
<1> HIDE DEF member
<1>5. /\ IsFiniteSet(log) /\ Cardinality(log) \in Nat /\ log \subseteq [at : Int, token : Int]
      /\ Cardinality(log) >= Cardinality(recent) /\ (~ isAllowed => log = recent)
    <2>1. /\ IsFiniteSet(recent \cup {member})
          /\ Cardinality(recent \cup {member})
                = IF member \in recent THEN Cardinality(recent) ELSE Cardinality(recent) + 1
        BY <1>2, FS_AddElement
    <2> HIDE DEF isAllowed
    <2> QED BY <1>2, <1>4, <2>1
<1>6. \A m \in log : m.at >= t - size
    BY <1>1, <1>3, <1>4
<1>7. wait \in Int
    <2>1. CASE recent # {}
        <3>1. oldest \in recent
            BY <1>2, <2>1, OldestMember
        <3> QED BY <1>1, <1>2, <2>1, <3>1
    <2> QED BY <2>1
<1> HIDE DEF log
<1>8. AreKeys(after) /\ after.log = log
    BY <1>5, LogWritten
<1>9. count \in Int /\ params.limit - count \in Int /\ isAllowed \in BOOLEAN
    BY <1>1, <1>5 DEF One
<1>10. state \in AlgorithmState("sliding_log")
    BY <1>1, <1>9 DEF AlgorithmState
<1>11. sliding_log(params, keys, t, token)
        = [keys |-> after, decision |-> Answer(isAllowed, params.limit - count, wait, state)]
    BY DEF sliding_log, size, recent, log, member, Recent
<1>12. Recent(after, t, size) = log
    BY <1>6, <1>8 DEF Recent
<1> HIDE DEF after, wait, count, isAllowed, state
<1>13. IsJudgement(sliding_log(params, keys, t, token), "sliding_log")
    BY <1>7, <1>8, <1>9, <1>10, <1>11, Answers DEF PageNames
<1>14. sliding_log(params, after, t, other).decision.allowed
        <=> One * Cardinality(Recent(after, t, size)) < params.limit
    BY DEF sliding_log, Recent, size, Answer
<1>15. sliding_log(params, keys, t, token).decision.remaining
        = IF isAllowed THEN AtLeast(0, params.limit - count) ELSE 0
    BY <1>11 DEF Answer
<1>20. count = One * Cardinality(log) /\ isAllowed = (One * Cardinality(recent) < params.limit)
    BY DEF count, isAllowed
<1>16. count < params.limit <=> (IF isAllowed THEN AtLeast(0, params.limit - count) ELSE 0) > 0
    <2>1. CASE isAllowed
        BY <1>1, <1>9, <2>1 DEF AtLeast
    <2>2. CASE ~ isAllowed
        <3>1. log = recent /\ ~ (One * Cardinality(recent) < params.limit)
            BY <1>5, <1>20, <2>2
        <3>2. ~ (count < params.limit)
            BY <1>20, <3>1
        <3> QED BY <2>2, <3>2
    <2> QED BY <1>9, <2>1, <2>2
<1>17. sliding_log(params, keys, t, token).decision.algorithm_state.count = count
    BY <1>11 DEF Answer, state
<1>18. One * Cardinality(recent) <= count
    BY <1>2, <1>5, <1>20 DEF One
<1>19. sliding_log(params, keys, t, token).keys = after
    BY <1>11
<1> QED BY <1>12, <1>13, <1>14, <1>15, <1>16, <1>17, <1>18, <1>19, <1>20 DEF size, recent


\* How often a whole positive cost goes into an amount.
LEMMA Quotients ==
    ASSUME NEW a \in Int, NEW b \in Int, b > 0
    PROVE  /\ Quotient(a, b) \in Int /\ RatioUp(a, b) \in Int
           /\ a >= b <=> Quotient(a, b) > 0
           /\ a >= 0 => Quotient(a, b) >= 0
<1>1. (a \div b) \in Int /\ (a % b) \in Int /\ 0 <= a % b /\ a % b < b
    OBVIOUS
<1>2. a = b * (a \div b) + (a % b)
    OBVIOUS
<1>3. ((One * a + b - 1) \div b) \in Int
    BY DEF One
<1> DEFINE q == a \div b
           r == a % b
<1>4. q \in Int /\ r \in Int /\ 0 <= r /\ r < b /\ a = b * q + r
    BY <1>1, <1>2
<1>5. Quotient(a, b) = One * q
    BY DEF Quotient
<1> HIDE DEF q, r
<1>6. q >= 1 => a >= b
    <2>1. q >= 1 => b * q >= b
        BY <1>4
    <2>2. b * q \in Int
        BY <1>4
    <2> QED BY <1>4, <2>1, <2>2
<1>7. q <= 0 => b * q <= 0
    BY <1>4
<1>8. q <= - 1 => b * q <= - b
    BY <1>4
<1>9. b * q \in Int
    BY <1>4
<1>10. a >= b => q >= 1
    BY <1>4, <1>7, <1>9
<1>11. a >= 0 => q >= 0
    BY <1>4, <1>8, <1>9
<1> QED BY <1>3, <1>4, <1>5, <1>6, <1>10, <1>11 DEF One, RatioUp

\* What is cut off a level changes neither what fits beside whole numbers nor the
\* order of two levels.
LEMMA Floors ==
    ASSUME NEW v \in Int, NEW w \in Int
    PROVE  /\ Floor(v) \in Int /\ Floor(v) <= v
           /\ v <= w => Floor(v) <= Floor(w)
           /\ w % One = 0 => (Floor(v) >= w <=> v >= w)
           /\ v >= 0 => Floor(v) >= 0
BY DEF Floor, One

\* A level that has just been written has not moved.
LEMMA Drifts ==
    ASSUME NEW keys, AreKeys(keys), NEW rate \in Int, NEW t \in Int
    PROVE  /\ Drift(keys, rate, t) \in Int
           /\ keys.at = t => Drift(keys, rate, t) = 0
<1>1. OrElse(keys.at, t) \in Int /\ (keys.at = t => OrElse(keys.at, t) = t)
    BY DEF AreKeys, Number, OrElse
<1>2. rate * (t - OrElse(keys.at, t)) \in Int
    BY <1>1
<1>3. keys.at = t => rate * (t - OrElse(keys.at, t)) = 0
    BY <1>1
<1>4. 0 \div One = 0 /\ \A v \in Int : (v \div One) \in Int
    BY DEF One
<1> QED BY <1>2, <1>3, <1>4 DEF Drift

LEMMA TokenBucketJudges ==
    ASSUME NEW keys, AreKeys(keys), NEW t \in Int,
           NEW params, params = Params["token_bucket"]
    PROVE  LET judgement == token_bucket(params, keys, t)
               next == token_bucket(params, judgement.keys, t)
               tokens == judgement.decision.algorithm_state.tokens
           IN /\ IsJudgement(judgement, "token_bucket")
              /\ next.decision.allowed <=> judgement.decision.remaining > 0
              /\ tokens <= Floor(Full(keys, t))
              /\ tokens = Floor(Full(judgement.keys, t))
              /\ tokens \in Int /\ Floor(Full(keys, t)) \in Int
<1> DEFINE capacity == params.capacity
           rate == params.refill_rate_per_sec
           cost == params.tokens_per_request
           full == Full(keys, t)
           isAllowed == full >= cost
           tokens == IF isAllowed THEN full - cost ELSE full
           told == Floor(tokens)
           budget == Quotient(told, cost)
           wait == RatioUp(cost - full, rate)
           after == [keys EXCEPT !.level = tokens, !.at = t]
           state == [count |-> budget, window_start_ms |-> t, window_size_sec |-> 0,
                     state_schema_version |-> 1, tokens |-> told, capacity |-> capacity,
                     refill_rate_per_sec |-> rate, tokens_per_request |-> cost,
                     last_refill_ms |-> t]
<1>1. /\ capacity \in Positive /\ rate \in Positive /\ cost \in Positive
      /\ capacity \in Int /\ rate \in Int /\ cost \in Int /\ capacity > 0 /\ rate > 0 /\ cost > 0
      /\ cost % One = 0
    BY ParamsOf DEF Positive
<1>2. \A k : Full(k, t)
        = AtMost(capacity, OrElse(k.level, capacity) + Drift(k, rate, t))
    BY DEF Full
<1> HIDE DEF capacity, rate, cost
<1>3. full \in Int /\ full <= capacity
    <2>1. Drift(keys, rate, t) \in Int
        BY <1>1, Drifts
    <2>2. OrElse(keys.level, capacity) \in Int
        BY <1>1 DEF AreKeys, Number, OrElse
    <2> QED BY <1>1, <1>2, <2>1, <2>2 DEF AtMost
<1> HIDE DEF full
<1>4. tokens \in Int /\ tokens <= full /\ tokens <= capacity
    BY <1>1, <1>3
<1>5. isAllowed = (full >= cost) /\ isAllowed \in BOOLEAN
    OBVIOUS
<1> HIDE DEF tokens
<1>6. AreKeys(after) /\ after.level = tokens /\ after.at = t
    <2>1. after = Written(keys, tokens, t)
        BY DEF Written
    <2> HIDE DEF after
    <2> QED BY <1>4, <2>1, LevelWritten
<1>17. told \in Int /\ told <= Floor(full) /\ Floor(full) \in Int
    BY <1>3, <1>4, Floors
<1>18. told >= cost <=> tokens >= cost
    BY <1>1, <1>4, Floors
<1>19. told = Floor(tokens)
    OBVIOUS
<1> HIDE DEF told
<1>7. budget \in Int /\ (tokens >= cost <=> budget > 0)
    BY <1>1, <1>17, <1>18, Quotients
<1>8. wait \in Int
    BY <1>1, <1>3, Quotients
<1> HIDE DEF budget
<1>9. state \in AlgorithmState("token_bucket")
    BY <1>1, <1>7, <1>17 DEF AlgorithmState, Windowed
<1> HIDE DEF isAllowed, wait, after, state
<1>10. token_bucket(params, keys, t)
        = [keys |-> after, decision |-> Answer(isAllowed, budget, wait, state)]
    BY <1>2 DEF token_bucket, full, isAllowed, tokens, told, budget, wait, after, state,
                capacity, rate, cost
<1>11. IsJudgement(token_bucket(params, keys, t), "token_bucket")
    BY <1>5, <1>6, <1>7, <1>8, <1>9, <1>10, Answers DEF PageNames
<1>12. Full(after, t) = tokens
    <2>1. Drift(after, rate, t) = 0
        BY <1>1, <1>6, Drifts
    <2>2. OrElse(after.level, capacity) = tokens
        BY <1>4, <1>6, NullIsNothing DEF OrElse
    <2> QED BY <1>1, <1>2, <1>4, <2>1, <2>2 DEF AtMost
<1>13. token_bucket(params, after, t).decision.allowed <=> Full(after, t) >= cost
    BY <1>2 DEF token_bucket, Answer, capacity, rate, cost
<1>14. /\ token_bucket(params, keys, t).keys = after
       /\ token_bucket(params, keys, t).decision.remaining
            = IF isAllowed THEN AtLeast(0, budget) ELSE 0
       /\ token_bucket(params, keys, t).decision.algorithm_state = state
    BY <1>10 DEF Answer
<1>15. state.tokens = told
    BY DEF state
<1>16. tokens >= cost <=> (IF isAllowed THEN AtLeast(0, budget) ELSE 0) > 0
    <2>1. CASE isAllowed
        BY <1>7, <2>1 DEF AtLeast
    <2>2. CASE ~ isAllowed
        <3>1. tokens = full /\ ~ (full >= cost)
            BY <1>5, <2>2 DEF tokens
        <3> QED BY <2>2, <3>1
    <2> QED BY <2>1, <2>2
<1> QED BY <1>11, <1>12, <1>13, <1>14, <1>15, <1>16, <1>17, <1>19 DEF full

LEMMA LeakyBucketJudges ==
    ASSUME NEW keys, AreKeys(keys), NEW t \in Int,
           NEW params, params = Params["leaky_bucket"]
    PROVE  LET judgement == leaky_bucket(params, keys, t)
               next == leaky_bucket(params, judgement.keys, t)
               level == judgement.decision.algorithm_state.water_level
           IN /\ IsJudgement(judgement, "leaky_bucket")
              /\ next.decision.allowed => judgement.decision.remaining > 0
              /\ Floor(Water(keys, t)) <= level
              /\ level = Floor(Water(judgement.keys, t))
              /\ level \in Int
<1> DEFINE capacity == params.capacity
           rate == params.leak_rate_per_sec
           cost == params.water_per_request
           water == Water(keys, t)
           isAllowed == water + cost <= capacity
           level == IF isAllowed THEN water + cost ELSE water
           told == Floor(level)
           room == AtLeast(0, capacity - told)
           left == Quotient(room, cost)
           wait == RatioUp(water + cost - capacity, rate)
           after == [keys EXCEPT !.level = level, !.at = t]
           state == [count |-> left, window_start_ms |-> t, window_size_sec |-> 0,
                     state_schema_version |-> 1, water_level |-> told, capacity |-> capacity,
                     leak_rate_per_sec |-> rate, water_per_request |-> cost,
                     last_leak_ms |-> t]
<1>1. /\ capacity \in Positive /\ rate \in Positive /\ cost \in Positive
      /\ capacity \in Int /\ rate \in Int /\ cost \in Int /\ capacity > 0 /\ rate > 0 /\ cost > 0
    BY ParamsOf DEF Positive
<1>2. \A k : Water(k, t) = AtLeast(0, OrElse(k.level, 0) - Drift(k, rate, t))
    BY DEF Water
<1> HIDE DEF capacity, rate, cost
<1>3. water \in Int /\ water >= 0
    <2>1. Drift(keys, rate, t) \in Int
        BY <1>1, Drifts
    <2>2. OrElse(keys.level, 0) \in Int
        BY <1>1 DEF AreKeys, Number, OrElse
    <2> QED BY <1>1, <1>2, <2>1, <2>2 DEF AtLeast
<1> HIDE DEF water
<1>4. level \in Int /\ level >= water /\ level >= 0
    BY <1>1, <1>3
<1>5. isAllowed = (water + cost <= capacity) /\ isAllowed \in BOOLEAN
    OBVIOUS
<1> HIDE DEF level
<1>6. AreKeys(after) /\ after.level = level /\ after.at = t
    <2>1. after = Written(keys, level, t)
        BY DEF Written
    <2> HIDE DEF after
    <2> QED BY <1>4, <2>1, LevelWritten
<1>17. told \in Int /\ told <= level /\ Floor(water) <= told
    BY <1>3, <1>4, Floors
<1>18. told = Floor(level)
    OBVIOUS
<1> HIDE DEF told
<1>19. room \in Int /\ room >= capacity - told
    BY <1>1, <1>17 DEF AtLeast
<1> HIDE DEF room
<1>7. left \in Int /\ (room >= cost <=> left > 0)
    BY <1>1, <1>19, Quotients
<1>20. level + cost <= capacity => left > 0
    <2>1. level + cost <= capacity => room >= cost
        BY <1>1, <1>4, <1>17, <1>19
    <2> QED BY <1>7, <2>1
<1>8. wait \in Int
    BY <1>1, <1>3, Quotients
<1> HIDE DEF left
<1>9. state \in AlgorithmState("leaky_bucket")
    BY <1>1, <1>7, <1>17 DEF AlgorithmState, Windowed
<1> HIDE DEF isAllowed, wait, after, state
<1>10. leaky_bucket(params, keys, t)
        = [keys |-> after, decision |-> Answer(isAllowed, left, wait, state)]
    BY <1>2 DEF leaky_bucket, water, isAllowed, level, told, room, left, wait, after,
                state,
                capacity, rate, cost
<1>11. IsJudgement(leaky_bucket(params, keys, t), "leaky_bucket")
    BY <1>5, <1>6, <1>7, <1>8, <1>9, <1>10, Answers DEF PageNames
<1>12. Water(after, t) = level
    <2>1. Drift(after, rate, t) = 0
        BY <1>1, <1>6, Drifts
    <2>2. OrElse(after.level, 0) = level
        BY <1>4, <1>6, NullIsNothing DEF OrElse
    <2> QED BY <1>1, <1>2, <1>4, <2>1, <2>2 DEF AtLeast
<1>13. leaky_bucket(params, after, t).decision.allowed <=> Water(after, t) + cost <= capacity
    BY <1>2 DEF leaky_bucket, Answer, capacity, rate, cost
<1>14. /\ leaky_bucket(params, keys, t).keys = after
       /\ leaky_bucket(params, keys, t).decision.remaining
            = IF isAllowed THEN AtLeast(0, left) ELSE 0
       /\ leaky_bucket(params, keys, t).decision.algorithm_state = state
    BY <1>10 DEF Answer
<1>15. state.water_level = told
    BY DEF state
<1>16. level + cost <= capacity => (IF isAllowed THEN AtLeast(0, left) ELSE 0) > 0
    <2>1. CASE isAllowed
        BY <1>7, <1>20, <2>1 DEF AtLeast
    <2>2. CASE ~ isAllowed
        <3>1. level = water /\ ~ (water + cost <= capacity)
            BY <1>5, <2>2 DEF level
        <3> QED BY <2>2, <3>1
    <2> QED BY <2>1, <2>2
<1> QED BY <1>11, <1>12, <1>13, <1>14, <1>15, <1>16, <1>17, <1>18 DEF water


\* The algorithms whose charts mark a move of a figure, the figure in a state of
\* theirs, turned so that requests raise it and time lowers it, and the level of
\* keys that it is taken from.
Charted == {"sliding_log", "token_bucket", "leaky_bucket"}
Figure(a, state) ==
    IF a = "token_bucket" THEN - state.tokens
    ELSE IF a = "leaky_bucket" THEN state.water_level ELSE state.count
Level(a, keys, t) ==
    IF a = "token_bucket" THEN - Floor(Full(keys, t))
    ELSE IF a = "leaky_bucket" THEN Floor(Water(keys, t))
    ELSE One * Cardinality(Recent(keys, t, Params["sliding_log"].window_size_sec))

\* Every limiter: what a request is told is left is what the next one meets, and
\* until time passes a figure does not fall.
LEMMA Limiters ==
    ASSUME NEW a \in PageNames, NEW keys, AreKeys(keys), NEW t \in Int,
           NEW token \in Int, NEW other \in Int
    PROVE  LET judgement == BuildLimiter(a, Params[a], keys, t, token)
               next == BuildLimiter(a, Params[a], judgement.keys, t, other)
               figure == Figure(a, judgement.decision.algorithm_state)
           IN /\ IsJudgement(judgement, a)
              /\ next.decision.allowed => judgement.decision.remaining > 0
              /\ a \notin {"sliding_window_counter", "leaky_bucket"} =>
                    (judgement.decision.remaining > 0 => next.decision.allowed)
              /\ a \in Charted =>
                    /\ figure \in Int
                    /\ Level(a, keys, t) <= figure
                    /\ figure = Level(a, judgement.keys, t)
<1>1. CASE a = "fixed_window"
    <2>1. \A k, o : BuildLimiter(a, Params[a], k, t, o) = fixed_window(Params[a], k, t)
        BY <1>1 DEF BuildLimiter
    <2> QED BY <1>1, <2>1, FixedWindowJudges DEF Charted
<1>2. CASE a = "sliding_window_counter"
    <2>1. \A k, o : BuildLimiter(a, Params[a], k, t, o) = sliding_window_counter(Params[a], k, t)
        BY <1>2 DEF BuildLimiter
    <2> QED BY <1>2, <2>1, SlidingWindowCounterJudges DEF Charted
<1>3. CASE a = "sliding_log"
    <2> DEFINE judgement == sliding_log(Params[a], keys, t, token)
               size == Params["sliding_log"].window_size_sec
               count == judgement.decision.algorithm_state.count
    <2>1. \A k, o : BuildLimiter(a, Params[a], k, t, o) = sliding_log(Params[a], k, t, o)
        BY <1>3 DEF BuildLimiter
    <2>2. /\ IsJudgement(judgement, a)
          /\ sliding_log(Params[a], judgement.keys, t, other).decision.allowed
                <=> judgement.decision.remaining > 0
          /\ One * Cardinality(Recent(keys, t, size)) <= count
          /\ count = One * Cardinality(Recent(judgement.keys, t, size))
        BY <1>3, SlidingLogJudges
    <2> HIDE DEF judgement
    <2>3. count \in Int
        BY <1>3, <2>2 DEF IsJudgement, AlgorithmState
    <2> QED BY <1>3, <2>1, <2>2, <2>3 DEF Level, Figure, judgement
<1>4. CASE a = "token_bucket"
    <2> DEFINE judgement == token_bucket(Params[a], keys, t)
               tokens == judgement.decision.algorithm_state.tokens
    <2>1. \A k, o : BuildLimiter(a, Params[a], k, t, o) = token_bucket(Params[a], k, t)
        BY <1>4 DEF BuildLimiter
    <2>2. /\ IsJudgement(judgement, a)
          /\ token_bucket(Params[a], judgement.keys, t).decision.allowed
                <=> judgement.decision.remaining > 0
          /\ tokens <= Floor(Full(keys, t)) /\ tokens = Floor(Full(judgement.keys, t))
          /\ tokens \in Int /\ Floor(Full(keys, t)) \in Int
        BY <1>4, TokenBucketJudges
    <2> HIDE DEF judgement
    <2>3. - Floor(Full(keys, t)) <= - tokens /\ - tokens \in Int
        BY <2>2
    <2> QED BY <1>4, <2>1, <2>2, <2>3 DEF Level, Figure, judgement
<1>5. CASE a = "leaky_bucket"
    <2> DEFINE judgement == leaky_bucket(Params[a], keys, t)
               level == judgement.decision.algorithm_state.water_level
    <2>1. \A k, o : BuildLimiter(a, Params[a], k, t, o) = leaky_bucket(Params[a], k, t)
        BY <1>5 DEF BuildLimiter
    <2>2. /\ IsJudgement(judgement, a)
          /\ leaky_bucket(Params[a], judgement.keys, t).decision.allowed
                => judgement.decision.remaining > 0
          /\ Floor(Water(keys, t)) <= level /\ level = Floor(Water(judgement.keys, t))
          /\ level \in Int
        BY <1>5, LeakyBucketJudges
    <2> HIDE DEF judgement
    <2> QED BY <1>5, <2>1, <2>2 DEF Level, Figure, judgement
<1> QED BY <1>1, <1>2, <1>3, <1>4, <1>5 DEF PageNames

-----------------------------------------------------------------------------
(***************************************************************************)
(* The inductive invariant.                                                *)
(***************************************************************************)

\* What a call may be.
Outcomes == {"open", "answered", "timed out"}
JudgedAnswer == UNION {JudgedAnswers(a) : a \in PageNames}
Calls ==
    [clientId : Int, outcome : Outcomes, answer : {null} \cup Failures \cup JudgedAnswer]
    \cup [clientId : {null}, outcome : {"sync failed"}, answer : [kind : {"none"}]]

JudgedCalls ==
    [call : Nat \ {0}, clientId : Int, algorithm : PageNames, epoch : Nat, at : Int,
     allowed : BOOLEAN]

Types ==
    /\ page \in PageNames /\ config \in Forms /\ mounted \in BOOLEAN
    /\ dispatchSequence \in Nat /\ calls \in Seq(Calls)
    /\ events \in Seq(Events) /\ arrived \in Seq(Int)
    /\ active \in [algorithm : PageNames, epoch : Nat]
    /\ judged \in Seq(JudgedCalls) /\ now \in Int
    /\ \A c \in DOMAIN store : AreKeys(store[c])

\* The answer of a judged call, and whether it has come whole out of the gateway.
AnswerOf(j) == calls[judged[j].call].answer
IsWhole(j) == AnswerOf(j).kind = "http"
FigureOf(j) == Figure(judged[j].algorithm, AnswerOf(j).body.algorithm_state)

\* A request, and not a failed sync.
Sent(n) == calls[n].outcome # "sync failed"

\* A whole answer is what was judged.
Matches(answer, j) ==
    /\ answer \in JudgedAnswers(j.algorithm)
    /\ answer.body.request_id = RequestId(j.call)
    /\ answer.body.allowed = j.allowed
    /\ answer.ok \/ answer.status = 429
    /\ j.allowed => answer.body.retry_after_ms = null

\* The history of judgements: of calls that were made, each at most once.
History ==
    /\ \A j \in DOMAIN judged :
        /\ judged[j].call \in Ids
        /\ LET call == calls[judged[j].call] IN
            /\ Sent(judged[j].call) /\ call.clientId = judged[j].clientId
            /\ call.answer # null
            /\ IsWhole(j) => Matches(call.answer, judged[j])
        /\ judged[j].at <= now /\ judged[j].epoch <= active.epoch
        /\ judged[j].epoch = active.epoch => judged[j].algorithm = active.algorithm
    /\ \A j, k \in DOMAIN judged :
        /\ judged[j].call = judged[k].call => j = k
        /\ j < k => judged[j].at <= judged[k].at
        /\ judged[j].epoch = judged[k].epoch => judged[j].algorithm = judged[k].algorithm

\* What was not judged has not come as a decision; what is answered has an answer.
Unjudged ==
    \A n \in Ids :
        /\ calls[n].answer # null /\ Judgements(n) = {} => calls[n].answer \in Failures
        /\ calls[n].outcome = "answered" => calls[n].answer # null

\* Everything that has arrived is of another call, which is no longer open.
Arrivals ==
    /\ \A i \in DOMAIN arrived : CallOf(arrived[i]) \in Ids \ Open
    /\ \A i, k \in DOMAIN arrived : CallOf(arrived[i]) = CallOf(arrived[k]) => i = k

\* The list is the newest of it.
ListInv ==
    /\ Len(events) = IF Len(arrived) < UI_EVENT_CAP THEN Len(arrived) ELSE UI_EVENT_CAP
    /\ \A i \in DOMAIN events : events[i].id = arrived[Len(arrived) - Len(events) + i]

\* An event is the decision that a judged answer is, or an error.
IsShown(event) ==
    LET n == CallOf(event.id)
        call == calls[n]
    IN \/ /\ IsDecision(event)
          /\ call.outcome = "answered" /\ call.answer.kind = "http"
          /\ \E j \in Judgements(n) :
                /\ Says(event.decision, call.answer.body, call.clientId)
                /\ event.issues = <<>> <=> judged[j].algorithm = page
                /\ judged[j].algorithm = page =>
                      OwnFigure(page, event.decision.algorithmState,
                                call.answer.body.algorithm_state)
       \/ /\ event.kind = "synthetic_error" /\ event.issues = <<"request_error">>
          /\ ~ (call.outcome = "answered" /\ call.answer.kind = "http" /\ Judgements(n) # {})

Shown == \A i \in DOMAIN events : IsShown(events[i])

\* The last word a client had of the gateway, at this instant, was true.
Current(j) == judged[j].epoch = active.epoch /\ judged[j].at = now
Latest(j) == \A k \in j + 1 .. Len(judged) : judged[k].clientId # judged[j].clientId
Promised(clientId, left) ==
    \A token \in Int :
        LET isAllowed == Judgement(clientId, token).decision.allowed IN
        /\ isAllowed => left > 0
        /\ left > 0 /\ active.algorithm \notin {"sliding_window_counter", "leaky_bucket"}
             => isAllowed
Promises ==
    \A j \in DOMAIN judged :
        IsWhole(j) /\ Current(j) /\ Latest(j)
        => Promised(judged[j].clientId, AnswerOf(j).body.remaining)

\* Figures do not fall while the clock stands: not in Redis, and not from one
\* answer of a client to the next.
Levels ==
    \A j \in DOMAIN judged :
        IsWhole(j) /\ Current(j) /\ judged[j].algorithm \in Charted
        => FigureOf(j) <= Level(active.algorithm, Keys(judged[j].clientId), now)

NoFall ==
    \A j, k \in DOMAIN judged :
        /\ j < k /\ IsWhole(j) /\ IsWhole(k)
        /\ judged[j].clientId = judged[k].clientId /\ judged[j].epoch = judged[k].epoch
        /\ judged[j].at = judged[k].at /\ judged[j].algorithm \in Charted
        => FigureOf(j) <= FigureOf(k)

IInv == Types /\ History /\ Unjudged /\ Arrivals /\ ListInv /\ Shown /\ Promises /\ Levels
        /\ NoFall


-----------------------------------------------------------------------------
(***************************************************************************)
(* Lists.                                                                  *)
(***************************************************************************)

Put(list, n, e) == [list EXCEPT ![n] = e]

LEMMA Puts ==
    ASSUME NEW S, NEW list \in Seq(S), NEW n \in 1 .. Len(list), NEW e \in S
    PROVE  LET after == Put(list, n, e) IN
           /\ after \in Seq(S) /\ Len(after) = Len(list) /\ DOMAIN after = 1 .. Len(list)
           /\ \A k \in 1 .. Len(list) : after[k] = IF k = n THEN e ELSE list[k]
BY DEF Put

AnswerSet(n, answer) == [calls EXCEPT ![n].answer = answer]
OutcomeSet(n, outcome) == [calls EXCEPT ![n].outcome = outcome]

LEMMA AnswersSet ==
    ASSUME calls \in Seq(Calls), NEW n \in Ids, Sent(n),
           NEW answer \in Failures \cup JudgedAnswer
    PROVE  LET after == AnswerSet(n, answer) IN
           /\ after \in Seq(Calls) /\ Len(after) = Len(calls) /\ DOMAIN after = Ids
           /\ \A k \in Ids : after[k].clientId = calls[k].clientId
                             /\ after[k].outcome = calls[k].outcome
                             /\ after[k].answer = IF k = n THEN answer ELSE calls[k].answer
<1> DEFINE new == [calls[n] EXCEPT !.answer = answer]
<1>1. DOMAIN calls = 1 .. Len(calls)
    BY LenProperties
<1>2. n \in 1 .. Len(calls) /\ Ids = 1 .. Len(calls)
    BY <1>1 DEF Ids
<1>3. calls[n] \in Calls
    BY <1>2, ElementOfSeq
<1>4. calls[n] \in [clientId : Int, outcome : Outcomes,
                    answer : {null} \cup Failures \cup JudgedAnswer]
    BY <1>3 DEF Calls, Sent
<1>5. /\ new \in Calls /\ new.answer = answer
      /\ new.clientId = calls[n].clientId /\ new.outcome = calls[n].outcome
    <2> DEFINE old == calls[n]
    <2>1. old \in [clientId : Int, outcome : Outcomes,
                   answer : {null} \cup Failures \cup JudgedAnswer]
        BY <1>4
    <2>2. new = [old EXCEPT !.answer = answer]
        OBVIOUS
    <2> HIDE DEF old, new
    <2> QED BY <2>1, <2>2 DEF Calls, old
<1>6. AnswerSet(n, answer) = Put(calls, n, new)
    BY DEF AnswerSet, Put
<1> DEFINE after == Put(calls, n, new)
<1> HIDE DEF new
<1>7. /\ after \in Seq(Calls) /\ Len(after) = Len(calls) /\ DOMAIN after = Ids
      /\ \A k \in Ids : after[k] = IF k = n THEN new ELSE calls[k]
    <2>1. /\ after \in Seq(Calls) /\ Len(after) = Len(calls) /\ DOMAIN after = 1 .. Len(calls)
          /\ \A k \in 1 .. Len(calls) : after[k] = IF k = n THEN new ELSE calls[k]
        <3>1. new \in Calls /\ n \in 1 .. Len(calls)
            BY <1>2, <1>5
        <3>2. after \in Seq(Calls)
            BY <3>1, Puts
        <3>3. Len(after) = Len(calls)
            BY <3>1, Puts
        <3>4. DOMAIN after = 1 .. Len(calls)
            BY <3>1, Puts
        <3>5. \A k \in 1 .. Len(calls) : after[k] = IF k = n THEN new ELSE calls[k]
            BY <3>1, Puts
        <3> QED BY <3>2, <3>3, <3>4, <3>5
    <2> QED BY <1>2, <2>1
<1> HIDE DEF after
<1>8. ASSUME NEW k \in Ids
      PROVE  /\ after[k].clientId = calls[k].clientId
             /\ after[k].outcome = calls[k].outcome
             /\ after[k].answer = IF k = n THEN answer ELSE calls[k].answer
    <2>1. CASE k = n
        BY <1>5, <1>7, <2>1
    <2>2. CASE k # n
        BY <1>7, <2>2
    <2> QED BY <2>1, <2>2
<1> QED BY <1>6, <1>7, <1>8 DEF after

LEMMA OutcomesSet ==
    ASSUME calls \in Seq(Calls), NEW n \in Ids, Sent(n),
           NEW outcome \in Outcomes
    PROVE  LET after == OutcomeSet(n, outcome) IN
           /\ after \in Seq(Calls) /\ Len(after) = Len(calls) /\ DOMAIN after = Ids
           /\ \A k \in Ids : after[k].clientId = calls[k].clientId
                             /\ after[k].answer = calls[k].answer
                             /\ after[k].outcome = IF k = n THEN outcome ELSE calls[k].outcome
<1> DEFINE new == [calls[n] EXCEPT !.outcome = outcome]
<1>1. DOMAIN calls = 1 .. Len(calls)
    BY LenProperties
<1>2. n \in 1 .. Len(calls) /\ Ids = 1 .. Len(calls)
    BY <1>1 DEF Ids
<1>3. calls[n] \in Calls
    BY <1>2, ElementOfSeq
<1>4. calls[n] \in [clientId : Int, outcome : Outcomes,
                    answer : {null} \cup Failures \cup JudgedAnswer]
    BY <1>3 DEF Calls, Sent
<1>5. /\ new \in Calls /\ new.outcome = outcome
      /\ new.clientId = calls[n].clientId /\ new.answer = calls[n].answer
    <2> DEFINE old == calls[n]
    <2>1. old \in [clientId : Int, outcome : Outcomes,
                   answer : {null} \cup Failures \cup JudgedAnswer]
        BY <1>4
    <2>2. new = [old EXCEPT !.outcome = outcome]
        OBVIOUS
    <2> HIDE DEF old, new
    <2> QED BY <2>1, <2>2 DEF Calls, old
<1>6. OutcomeSet(n, outcome) = Put(calls, n, new)
    BY DEF OutcomeSet, Put
<1> DEFINE after == Put(calls, n, new)
<1> HIDE DEF new
<1>7. /\ after \in Seq(Calls) /\ Len(after) = Len(calls) /\ DOMAIN after = Ids
      /\ \A k \in Ids : after[k] = IF k = n THEN new ELSE calls[k]
    <2>1. /\ after \in Seq(Calls) /\ Len(after) = Len(calls) /\ DOMAIN after = 1 .. Len(calls)
          /\ \A k \in 1 .. Len(calls) : after[k] = IF k = n THEN new ELSE calls[k]
        <3>1. new \in Calls /\ n \in 1 .. Len(calls)
            BY <1>2, <1>5
        <3>2. after \in Seq(Calls)
            BY <3>1, Puts
        <3>3. Len(after) = Len(calls)
            BY <3>1, Puts
        <3>4. DOMAIN after = 1 .. Len(calls)
            BY <3>1, Puts
        <3>5. \A k \in 1 .. Len(calls) : after[k] = IF k = n THEN new ELSE calls[k]
            BY <3>1, Puts
        <3> QED BY <3>2, <3>3, <3>4, <3>5
    <2> QED BY <1>2, <2>1
<1> HIDE DEF after
<1>8. ASSUME NEW k \in Ids
      PROVE  /\ after[k].clientId = calls[k].clientId
             /\ after[k].answer = calls[k].answer
             /\ after[k].outcome = IF k = n THEN outcome ELSE calls[k].outcome
    <2>1. CASE k = n
        BY <1>5, <1>7, <2>1
    <2>2. CASE k # n
        BY <1>7, <2>2
    <2> QED BY <2>1, <2>2
<1> QED BY <1>6, <1>7, <1>8 DEF after

\* A list with one more, of which the newest are kept.
LEMMA CappedAppend ==
    ASSUME NEW S, NEW list \in Seq(S), NEW event \in S
    PROVE  LET after == Capped(Append(list, event)) IN
           /\ after \in Seq(S)
           /\ Len(after) = IF Len(list) + 1 < UI_EVENT_CAP THEN Len(list) + 1 ELSE UI_EVENT_CAP
           /\ \A i \in DOMAIN after :
                after[i] = IF Len(list) + 1 - Len(after) + i = Len(list) + 1 THEN event
                           ELSE list[Len(list) + 1 - Len(after) + i]
<1> DEFINE more == Append(list, event)
           n == Len(list)
           cap == UI_EVENT_CAP
           after == Capped(more)
<1>1. /\ more \in Seq(S) /\ Len(more) = n + 1 /\ n \in Nat
      /\ \A i \in 1 .. n : more[i] = list[i]
      /\ more[n + 1] = event
    BY AppendProperties, LenProperties
<1>2. cap \in Nat /\ cap > 0
    BY CapAssumption
<1> HIDE DEF more, n, cap
<1>3. CASE n + 1 <= cap
    <2>1. after = more
        BY <1>1, <1>3 DEF Capped, cap
    <2>2. \A i \in 1 .. n + 1 : i = n + 1 \/ i \in 1 .. n
        BY <1>1
    <2>3. DOMAIN more = 1 .. n + 1
        BY <1>1
    <2>4. Len(after) = IF n + 1 < cap THEN n + 1 ELSE cap
        BY <1>1, <1>2, <1>3, <2>1
    <2>5. \A i \in DOMAIN after : n + 1 - Len(after) + i = i
        BY <1>1, <2>1, <2>3
    <2>6. \A i \in DOMAIN after : after[i] = IF i = n + 1 THEN event ELSE list[i]
        BY <1>1, <2>1, <2>2, <2>3
    <2> QED BY <1>1, <2>1, <2>4, <2>5, <2>6 DEF more, n, cap
<1>4. CASE n + 1 > cap
    <2> DEFINE top == n + 1
               m == top - cap + 1
    <2>1. top \in Int /\ top = n + 1
        BY <1>1
    <2> HIDE DEF top
    <2>2. m \in Int /\ m >= 1 /\ m <= top /\ top - m + 1 = cap
        BY <1>1, <1>2, <1>4, <2>1
    <2>3. m = top - cap + 1
        OBVIOUS
    <2> HIDE DEF m
    <2>4. after = SubSeq(more, m, top)
        BY <1>1, <1>2, <1>4, <2>1, <2>3 DEF Capped, cap
    <2> HIDE DEF after
    <2>5. \A i \in m .. top : more[i] \in S
        BY <1>1, <2>1, <2>2
    <2>6. /\ after \in Seq(S) /\ Len(after) = IF m <= top THEN top - m + 1 ELSE 0
          /\ \A i \in 1 .. top - m + 1 : after[i] = more[m + i - 1]
        BY <2>1, <2>2, <2>4, <2>5, SubSeqProperties
    <2>7. DOMAIN after = 1 .. cap /\ Len(after) = cap
        <3>1. Len(after) = cap
            BY <1>2, <2>1, <2>2, <2>6
        <3> QED BY <2>6, <3>1, LenProperties
    <2>8. Len(after) = IF n + 1 < cap THEN n + 1 ELSE cap
        BY <1>1, <1>2, <1>4, <2>7
    <2>9. ASSUME NEW i \in DOMAIN after
          PROVE  after[i] = IF n + 1 - cap + i = n + 1 THEN event ELSE list[n + 1 - cap + i]
        <3>1. after[i] = more[m + i - 1] /\ m + i - 1 = n + 1 - cap + i
              /\ m + i - 1 \in 1 .. n + 1
            BY <1>1, <1>2, <1>4, <2>1, <2>2, <2>3, <2>6, <2>7
        <3>2. \A k \in 1 .. n + 1 : more[k] = IF k = n + 1 THEN event ELSE list[k]
            BY <1>1
        <3> QED BY <3>1, <3>2
    <2> QED BY <2>6, <2>7, <2>8, <2>9 DEF more, n, cap, after
<1> QED BY <1>1, <1>2, <1>3, <1>4


-----------------------------------------------------------------------------
(***************************************************************************)
(* Calls, and what the steps do to them.                                   *)
(***************************************************************************)

LEMMA CallOfId ==
    ASSUME NEW n \in Int
    PROVE  /\ CallOf(RequestId(n)) = n /\ CallOf(ErrorId(n)) = n
           /\ RequestId(n) \in Int /\ ErrorId(n) \in Int
BY DEF CallOf, RequestId, ErrorId

LEMMA FailureFacts ==
    /\ [kind |-> "none"] \in Failures
    /\ \A kind \in {"non_json", "network_error"} :
        [kind |-> kind] \in Failures /\ [kind |-> kind].kind # "http"
    /\ [kind |-> "http", ok |-> FALSE, status |-> 500, body |-> [detail |-> "error"]] \in Failures
BY DEF Failures

LEMMA JudgedAnswerFacts ==
    ASSUME NEW answer \in JudgedAnswer
    PROVE  answer.kind = "http" /\ answer # null
<1>1. PICK a \in PageNames : answer \in JudgedAnswers(a)
    BY DEF JudgedAnswer
<1> QED BY <1>1, NullIsNothing DEF JudgedAnswers

LEMMA CallFacts ==
    ASSUME calls \in Seq(Calls)
    PROVE  /\ Ids = 1 .. Len(calls) /\ Len(calls) \in Nat
           /\ \A n \in Ids :
                /\ n \in Nat \ {0} /\ n \in Int
                /\ calls[n] \in Calls
                /\ calls[n].answer \in {null} \cup Failures \cup JudgedAnswer
                /\ Sent(n) => calls[n].clientId \in Int /\ calls[n].outcome \in Outcomes
                /\ ~ Sent(n) => calls[n].answer \in Failures /\ calls[n].outcome = "sync failed"
                /\ calls[n].outcome \in Outcomes => Sent(n)
                /\ calls[n].answer = null => Sent(n)
<1>1. Ids = 1 .. Len(calls) /\ Len(calls) \in Nat
    BY LenProperties DEF Ids
<1>2. ASSUME NEW n \in Ids
      PROVE  calls[n] \in Calls
    BY <1>1, ElementOfSeq
<1>3. ASSUME NEW call \in Calls
      PROVE  \/ /\ call.outcome \in Outcomes /\ call.clientId \in Int
                /\ call.outcome # "sync failed"
                /\ call.answer \in {null} \cup Failures \cup JudgedAnswer
             \/ /\ call.outcome = "sync failed" /\ call.answer \in Failures
                /\ call.answer # null /\ ~ (call.outcome \in Outcomes)
    <2>1. CASE call \in [clientId : Int, outcome : Outcomes,
                         answer : {null} \cup Failures \cup JudgedAnswer]
        BY <2>1 DEF Outcomes
    <2>2. CASE call \in [clientId : {null}, outcome : {"sync failed"},
                         answer : [kind : {"none"}]]
        <3>1. call.answer \in Failures /\ call.outcome = "sync failed"
            BY <2>2 DEF Failures
        <3> QED BY <3>1, NullIsNothing DEF Outcomes
    <2> QED BY <2>1, <2>2 DEF Calls
<1>4. ASSUME NEW n \in Ids
      PROVE  n \in Nat \ {0} /\ n \in Int
    BY <1>1
<1> QED BY <1>1, <1>2, <1>3, <1>4 DEF Sent

LEMMA NoKeysAreKeys == AreKeys(NoKeys)
<1>1. IsFiniteSet({})
    BY FS_EmptySet
<1> QED BY <1>1 DEF AreKeys, NoKeys, Number

LEMMA KeysType ==
    ASSUME \A c \in DOMAIN store : AreKeys(store[c]), NEW c
    PROVE  AreKeys(Keys(c))
BY NoKeysAreKeys DEF Keys

\* What a judgement does.
LEMMA Judges ==
    ASSUME Types, NEW n \in Ids, Judge(n)
    PROVE  LET client == calls[n].clientId
               m == Judgement(client, RequestId(n))
               r == [call |-> n, clientId |-> client, algorithm |-> active.algorithm,
                     epoch |-> active.epoch, at |-> now, allowed |-> m.decision.allowed]
               answer == calls'[n].answer
           IN /\ judged' = Append(judged, r) /\ r \in JudgedCalls
              /\ calls[n].answer = null /\ Sent(n) /\ client \in Int
              /\ answer \in JudgedAnswers(active.algorithm) /\ Matches(answer, r)
              /\ answer.body.remaining = m.decision.remaining
              /\ answer.body.algorithm_state = m.decision.algorithm_state
              /\ calls' = AnswerSet(n, answer) /\ answer \in JudgedAnswer
              /\ IsJudgement(m, active.algorithm)
              /\ \A c : Keys(c)' = IF c = client THEN m.keys ELSE Keys(c)
              /\ \A c \in DOMAIN store' : AreKeys(store'[c])
<1> DEFINE client == calls[n].clientId
           token == RequestId(n)
           a == active.algorithm
           m == Judgement(client, token)
           d == m.decision
           r == [call |-> n, clientId |-> client, algorithm |-> a,
                 epoch |-> active.epoch, at |-> now, allowed |-> d.allowed]
           body == Response(d, a, token, now)
           answer == [kind |-> "http", ok |-> d.allowed,
                      status |-> IF d.allowed THEN 200 ELSE 429, body |-> body]
<1>1. /\ calls[n].answer = null
      /\ store' = [c \in DOMAIN store \cup {client} |-> IF c = client THEN m.keys ELSE store[c]]
      /\ judged' = Append(judged, r)
      /\ calls' = AnswerSet(n, answer)
      /\ now' = now /\ active' = active
    BY DEF Judge, AnswerSet
<1>2. /\ a \in PageNames /\ active.epoch \in Nat /\ now \in Int
      /\ calls \in Seq(Calls)
      /\ \A c \in DOMAIN store : AreKeys(store[c])
    BY DEF Types
<1>3. n \in Nat \ {0} /\ Sent(n) /\ client \in Int /\ token \in Int
    BY <1>1, <1>2, CallFacts, CallOfId
<1>4. AreKeys(Keys(client))
    BY <1>2, KeysType
<1>5. m = BuildLimiter(a, Params[a], Keys(client), now, token)
    BY DEF Judgement
<1> HIDE DEF client, token, a, m
<1>6. IsJudgement(m, a)
    BY <1>2, <1>3, <1>4, <1>5, Limiters
<1> HIDE DEF d, answer, r, body
<1>7. /\ d.allowed \in BOOLEAN /\ d.remaining \in Int /\ d.retry_after_ms \in Number
      /\ d.allowed => d.retry_after_ms = null
      /\ d.algorithm_state \in AlgorithmState(a) /\ AreKeys(m.keys)
    BY <1>6 DEF IsJudgement, d
<1>8. r \in JudgedCalls
    BY <1>2, <1>3, <1>7 DEF r, JudgedCalls, a
<1>9. body \in Body(a)
    BY <1>2, <1>3, <1>7 DEF body, Body, Response
<1>10. answer \in JudgedAnswers(a) /\ answer \in JudgedAnswer
    BY <1>2, <1>7, <1>9 DEF answer, JudgedAnswers, JudgedAnswer
<1>11. calls'[n].answer = answer
    <2>1. AnswerSet(n, answer)[n].answer = answer
        BY <1>2, <1>3, <1>10, AnswersSet
    <2> QED BY <1>1, <2>1
<1>12. Matches(answer, r)
    BY <1>7, <1>10 DEF Matches, answer, body, Response, r, a, token
<1>13. answer.body.remaining = d.remaining /\ answer.body.algorithm_state = d.algorithm_state
    BY DEF answer, body, Response
<1>14. \A c : Keys(c)' = IF c = client THEN m.keys ELSE Keys(c)
    BY <1>1 DEF Keys
<1>15. \A c \in DOMAIN store' : AreKeys(store'[c])
    BY <1>1, <1>2, <1>7
<1> QED BY <1>1, <1>3, <1>6, <1>8, <1>10, <1>11, <1>12, <1>13, <1>14, <1>15
        DEF client, token, a, m, d, r

\* What every step but a judgement leaves of the calls: what has been answered
\* stays as it is, a judged answer can only be broken, and no failure becomes one.
Steady ==
    /\ judged' = judged /\ page' = page /\ calls' \in Seq(Calls) /\ Ids \subseteq Ids'
    /\ \A n \in Ids :
        /\ calls'[n].clientId = calls[n].clientId /\ (Sent(n)' <=> Sent(n))
        /\ calls[n].outcome # "open" => calls'[n].outcome = calls[n].outcome
        /\ calls'[n].outcome = "answered" /\ calls[n].outcome = "open" =>
              calls'[n].answer # null
        /\ \/ calls'[n].answer = calls[n].answer
           \/ /\ calls'[n].answer \in Failures
              /\ calls[n].answer # null =>
                    calls[n].outcome = "open" /\ calls'[n].answer.kind # "http"
    /\ \A n \in Ids' \ Ids :
        calls'[n].answer \in {null} \cup Failures /\ calls'[n].outcome # "answered"

LEMMA SameCalls ==
    ASSUME Types, calls' = calls, judged' = judged, page' = page
    PROVE  Steady
BY DEF Types, Steady, Ids, Sent

LEMMA OneMoreCall ==
    ASSUME Types, NEW call \in Calls, call.answer \in {null} \cup Failures,
           call.outcome # "answered", calls' = Append(calls, call),
           judged' = judged, page' = page
    PROVE  Steady
<1>1. calls \in Seq(Calls)
    BY DEF Types
<1>2. /\ calls' \in Seq(Calls) /\ Len(calls') = Len(calls) + 1
      /\ \A k \in 1 .. Len(calls) : calls'[k] = calls[k]
      /\ calls'[Len(calls) + 1] = call
    BY <1>1, AppendProperties
<1>3. Ids = 1 .. Len(calls) /\ Ids' = 1 .. Len(calls) + 1 /\ Len(calls) \in Nat
    BY <1>1, <1>2, LenProperties DEF Ids
<1>4. Ids \subseteq Ids' /\ \A k \in Ids' \ Ids : k = Len(calls) + 1
    BY <1>3
<1>5. \A k \in Ids : calls'[k] = calls[k] /\ (Sent(k)' <=> Sent(k))
    BY <1>2, <1>3 DEF Sent
<1> QED BY <1>2, <1>4, <1>5 DEF Steady

LEMMA AnswerComes ==
    ASSUME Types, NEW n \in Ids, Sent(n), NEW answer \in Failures,
           calls[n].answer # null => calls[n].outcome = "open" /\ answer.kind # "http",
           calls' = AnswerSet(n, answer), judged' = judged, page' = page
    PROVE  Steady
<1>1. /\ calls' \in Seq(Calls) /\ DOMAIN calls' = Ids
      /\ \A k \in Ids : calls'[k].clientId = calls[k].clientId
                        /\ calls'[k].outcome = calls[k].outcome
                        /\ calls'[k].answer = IF k = n THEN answer ELSE calls[k].answer
    <2>1. calls \in Seq(Calls)
        BY DEF Types
    <2> QED BY <2>1, AnswersSet
<1>2. Ids' = Ids
    BY <1>1 DEF Ids
<1>3. \A k \in Ids : Sent(k)' <=> Sent(k)
    BY <1>1 DEF Sent
<1>4. answer # null
    BY NullIsNothing
<1> QED BY <1>1, <1>2, <1>3, <1>4 DEF Steady

LEMMA OutcomeComes ==
    ASSUME Types, NEW n \in Open, NEW outcome \in Outcomes,
           outcome = "answered" => calls[n].answer # null,
           calls' = OutcomeSet(n, outcome), judged' = judged, page' = page
    PROVE  Steady
<1>1. calls \in Seq(Calls) /\ n \in Ids /\ Sent(n)
    BY DEF Types, Open, Sent
<1>2. /\ calls' \in Seq(Calls) /\ DOMAIN calls' = Ids
      /\ \A k \in Ids : calls'[k].clientId = calls[k].clientId
                        /\ calls'[k].answer = calls[k].answer
                        /\ calls'[k].outcome = IF k = n THEN outcome ELSE calls[k].outcome
    BY <1>1, OutcomesSet
<1>3. Ids' = Ids
    BY <1>2 DEF Ids
<1>4. \A k \in Ids : Sent(k)' <=> Sent(k)
    BY <1>1, <1>2 DEF Sent, Outcomes
<1>5. calls[n].outcome = "open"
    BY DEF Open
<1> QED BY <1>2, <1>3, <1>4, <1>5 DEF Steady

LEMMA Dispatches ==
    ASSUME Types, Dispatch
    PROVE  Steady /\ dispatchSequence' \in Nat
<1> DEFINE resolved == resolveSimulationClientId(config, dispatchSequence)
<1>1. resolved.clientId \in Int /\ resolved.dispatchSequence \in Nat
    <2>1. config.singleClientId \in Int /\ config.rotatingPoolSize \in Nat
          /\ config.rotatingPoolSize >= 2 * One
        BY FormsAssumption DEF Types
    <2>2. dispatchSequence \in Nat
        BY DEF Types
    <2>3. config.rotatingPoolSize \div One \in Nat /\ config.rotatingPoolSize \div One > 0
        BY <2>1 DEF One
    <2> DEFINE size == config.rotatingPoolSize \div One
    <2>4. size \in Nat /\ size > 0
        BY <2>3
    <2> HIDE DEF size
    <2>5. dispatchSequence % size \in Int
        BY <2>2, <2>4
    <2> QED BY <2>1, <2>2, <2>5 DEF resolveSimulationClientId, size
<1> DEFINE call == [clientId |-> resolved.clientId, outcome |-> "open", answer |-> null]
<1>2. call \in Calls /\ call.answer = null /\ call.outcome = "open"
    BY <1>1 DEF Calls, Outcomes
<1>3. /\ calls' = Append(calls, call) /\ dispatchSequence' = resolved.dispatchSequence
      /\ judged' = judged /\ page' = page
    BY DEF Dispatch
<1> HIDE DEF call, resolved
<1>4. Steady
    BY <1>2, <1>3, OneMoreCall
<1> QED BY <1>1, <1>3, <1>4

LEMMA StepsAreSteady ==
    ASSUME Types, [Next]_vars
    PROVE  Steady \/ \E n \in Ids : Judge(n)
<1>1. CASE Dispatch
    BY <1>1, Dispatches
<1>2. CASE \E n \in Ids : GatewayError(n)
    <2>1. PICK n \in Ids : GatewayError(n)
        BY <1>2
    <2> DEFINE error == [kind |-> "http", ok |-> FALSE, status |-> 500,
                         body |-> [detail |-> "error"]]
    <2>2. /\ calls[n].answer = null /\ calls' = AnswerSet(n, error)
          /\ judged' = judged /\ page' = page
        BY <2>1 DEF GatewayError, AnswerSet
    <2>3. error \in Failures
        BY FailureFacts
    <2> HIDE DEF error
    <2>4. Sent(n)
        BY <2>2, CallFacts DEF Types
    <2> QED BY <2>2, <2>3, <2>4, AnswerComes
<1>3. CASE \E n \in Ids : Broken(n)
    <2>1. PICK n \in Ids : Broken(n)
        BY <1>3
    <2>2. PICK kind \in {"non_json", "network_error"} :
            calls' = AnswerSet(n, [kind |-> kind])
        BY <2>1 DEF Broken, AnswerSet
    <2>3. calls[n].outcome = "open" /\ judged' = judged /\ page' = page
        BY <2>1 DEF Broken, Open
    <2> DEFINE error == [kind |-> kind]
    <2>4. error \in Failures /\ error.kind # "http" /\ calls' = AnswerSet(n, error)
        BY <2>2, FailureFacts
    <2> HIDE DEF error
    <2>5. Sent(n)
        BY <2>3 DEF Sent
    <2> QED BY <2>3, <2>4, <2>5, AnswerComes
<1>4. CASE \E n \in Ids : Deliver(n)
    <2>1. PICK n \in Ids : Deliver(n)
        BY <1>4
    <2>2. /\ n \in Open /\ calls[n].answer # null /\ calls' = OutcomeSet(n, "answered")
          /\ judged' = judged /\ page' = page
        BY <2>1 DEF Deliver, Settle, OutcomeSet
    <2> QED BY <2>2, OutcomeComes DEF Outcomes
<1>5. CASE \E n \in Ids : Timeout(n)
    <2>1. PICK n \in Ids : Timeout(n)
        BY <1>5
    <2>2. /\ n \in Open /\ calls' = OutcomeSet(n, "timed out")
          /\ judged' = judged /\ page' = page
        BY <2>1 DEF Timeout, Settle, OutcomeSet
    <2> QED BY <2>2, OutcomeComes DEF Outcomes
<1>6. CASE SyncFailed
    <2> DEFINE call == [clientId |-> null, outcome |-> "sync failed", answer |-> [kind |-> "none"]]
    <2>1. calls' = Append(calls, call) /\ judged' = judged /\ page' = page
        BY <1>6 DEF SyncFailed
    <2>2. call \in Calls /\ call.answer \in Failures /\ call.outcome = "sync failed"
        BY FailureFacts DEF Calls
    <2> HIDE DEF call
    <2> QED BY <2>1, <2>2, OneMoreCall
<1>7. CASE resetView \/ Leave \/ Activate \/ Tick \/ UNCHANGED vars
    <2>1. calls' = calls /\ judged' = judged /\ page' = page
        BY <1>7 DEF resetView, Leave, Activate, Tick, vars
    <2> QED BY <2>1, SameCalls
<1> QED BY <1>1, <1>2, <1>3, <1>4, <1>5, <1>6, <1>7 DEF Next

\* Time and the policies go on only with steps of their own.
LEMMA Kinds ==
    ASSUME Types, [Next]_vars
    PROVE  \/ \E n \in Ids : Judge(n)
           \/ Steady /\ (UNCHANGED <<active, store, now>> \/ Activate \/ Tick)
<1>1. CASE \E n \in Ids : Judge(n)
    BY <1>1
<1>2. CASE \E n \in Ids : GatewayError(n) \/ Broken(n) \/ Deliver(n) \/ Timeout(n)
    <2>1. UNCHANGED <<active, store, now>>
        BY <1>2 DEF GatewayError, Broken, Deliver, Timeout
    <2> QED BY <2>1, StepsAreSteady
<1>3. CASE Dispatch \/ SyncFailed \/ resetView \/ Leave \/ UNCHANGED vars
    <2>1. UNCHANGED <<active, store, now>>
        BY <1>3 DEF Dispatch, SyncFailed, resetView, Leave, vars
    <2> QED BY <2>1, StepsAreSteady
<1>4. CASE Activate \/ Tick
    BY <1>4, StepsAreSteady
<1> QED BY <1>1, <1>2, <1>3, <1>4 DEF Next

LEMMA Activates ==
    ASSUME Types, Activate
    PROVE  /\ active' \in [algorithm : PageNames, epoch : Nat]
           /\ active'.epoch = active.epoch + 1 /\ now' = now
           /\ active.epoch \in Nat
           /\ \A c \in DOMAIN store' : AreKeys(store'[c])
<1>1. active.epoch \in Nat
    BY DEF Types
<1>2. PICK a \in PageNames : active' = [algorithm |-> a, epoch |-> active.epoch + 1]
    BY DEF Activate
<1>3. store' = [clientId \in {} |-> NoKeys] /\ now' = now
    BY DEF Activate
<1> QED BY <1>1, <1>2, <1>3

LEMMA Ticks ==
    ASSUME Types, Tick
    PROVE  now' \in Int /\ now' > now /\ active' = active /\ store' = store
BY ClockAssumption DEF Types, Tick, Positive

\* Types, but for the list of events.
LEMMA MostTypesNext ==
    ASSUME Types, [Next]_vars
    PROVE  /\ page' = page /\ config' = config /\ mounted' \in BOOLEAN
           /\ dispatchSequence' \in Nat /\ calls' \in Seq(Calls)
           /\ active' \in [algorithm : PageNames, epoch : Nat]
           /\ judged' \in Seq(JudgedCalls) /\ now' \in Int
           /\ \A c \in DOMAIN store' : AreKeys(store'[c])
<1>1. /\ page' = page /\ config' = config /\ mounted' \in BOOLEAN
    <2>1. CASE \E n \in Ids : \/ Judge(n) \/ GatewayError(n) \/ Broken(n)
                              \/ Deliver(n) \/ Timeout(n)
        BY <2>1 DEF Types, Judge, GatewayError, Broken, Deliver, Timeout
    <2>2. CASE \/ Dispatch \/ SyncFailed \/ resetView \/ Leave \/ Activate \/ Tick
               \/ UNCHANGED vars
        BY <2>2 DEF Types, Dispatch, SyncFailed, resetView, Leave, Activate, Tick, vars
    <2> QED BY <2>1, <2>2 DEF Next
<1>2. dispatchSequence' \in Nat
    <2>1. CASE Dispatch
        BY <2>1, Dispatches
    <2>2. CASE \E n \in Ids : \/ Judge(n) \/ GatewayError(n) \/ Broken(n)
                              \/ Deliver(n) \/ Timeout(n)
        BY <2>2 DEF Types, Judge, GatewayError, Broken, Deliver, Timeout
    <2>3. CASE \/ SyncFailed \/ resetView \/ Leave \/ Activate \/ Tick \/ UNCHANGED vars
        BY <2>3 DEF Types, SyncFailed, resetView, Leave, Activate, Tick, vars
    <2> QED BY <2>1, <2>2, <2>3 DEF Next
<1>3. CASE \E n \in Ids : Judge(n)
    <2>1. PICK n \in Ids : Judge(n)
        BY <1>3
    <2> DEFINE answer == calls'[n].answer
    <2>2. PICK r \in JudgedCalls : judged' = Append(judged, r)
        BY <2>1, Judges
    <2>3. calls' = AnswerSet(n, answer) /\ answer \in JudgedAnswer /\ Sent(n)
          /\ \A c \in DOMAIN store' : AreKeys(store'[c])
        BY <2>1, Judges
    <2> HIDE DEF answer
    <2>4. calls \in Seq(Calls) /\ judged \in Seq(JudgedCalls)
        BY DEF Types
    <2>5. calls' \in Seq(Calls)
        BY <2>3, <2>4, AnswersSet
    <2>6. judged' \in Seq(JudgedCalls)
        BY <2>2, <2>4, AppendProperties
    <2>7. active' = active /\ now' = now
        BY <2>1 DEF Judge
    <2> QED BY <1>1, <1>2, <2>3, <2>5, <2>6, <2>7 DEF Types
<1>4. CASE Steady /\ UNCHANGED <<active, store, now>>
    BY <1>1, <1>2, <1>4 DEF Types, Steady
<1>5. CASE Steady /\ Activate
    BY <1>1, <1>2, <1>5, Activates DEF Types, Steady
<1>6. CASE Steady /\ Tick
    BY <1>1, <1>2, <1>6, Ticks DEF Types, Steady
<1> QED BY <1>3, <1>4, <1>5, <1>6, Kinds

LEMMA JudgedFacts ==
    ASSUME Types
    PROVE  /\ DOMAIN judged = 1 .. Len(judged) /\ Len(judged) \in Nat
           /\ \A j \in DOMAIN judged :
                /\ judged[j] \in JudgedCalls /\ j \in Int
                /\ judged[j].call \in Nat \ {0} /\ judged[j].clientId \in Int
                /\ judged[j].algorithm \in PageNames /\ judged[j].epoch \in Nat
                /\ judged[j].at \in Int /\ judged[j].allowed \in BOOLEAN
<1>1. judged \in Seq(JudgedCalls)
    BY DEF Types
<1>2. DOMAIN judged = 1 .. Len(judged) /\ Len(judged) \in Nat
    BY <1>1, LenProperties
<1>3. \A j \in DOMAIN judged : judged[j] \in JudgedCalls /\ j \in Int
    BY <1>1, <1>2, ElementOfSeq
<1> QED BY <1>2, <1>3 DEF JudgedCalls

\* A judgement comes last in the history, and changes the answer of its call.
LEMMA JudgeKeeps ==
    ASSUME Types, NEW n \in Ids, Judge(n)
    PROVE  LET last == Len(judged) + 1 IN
           /\ DOMAIN judged = 1 .. Len(judged) /\ Len(judged) \in Nat
           /\ DOMAIN judged' = DOMAIN judged \cup {last} /\ Len(judged') = last
           /\ last \notin DOMAIN judged
           /\ \A j \in DOMAIN judged : judged'[j] = judged[j] /\ j < last /\ ~ last < j
           /\ judged'[last].call = n /\ judged'[last].clientId = calls[n].clientId
           /\ judged'[last].algorithm = active.algorithm
           /\ judged'[last].epoch = active.epoch /\ judged'[last].at = now
           /\ Matches(calls'[n].answer, judged'[last])
           /\ active' = active /\ now' = now /\ page' = page
           /\ calls[n].answer = null /\ Sent(n)
           /\ DOMAIN calls' = Ids /\ Ids' = Ids
           /\ calls'[n].answer # null
           /\ \A k \in Ids : /\ calls'[k].clientId = calls[k].clientId
                             /\ calls'[k].outcome = calls[k].outcome
                             /\ k # n => calls'[k].answer = calls[k].answer
<1> DEFINE answer == calls'[n].answer
           m == Judgement(calls[n].clientId, RequestId(n))
           r == [call |-> n, clientId |-> calls[n].clientId, algorithm |-> active.algorithm,
                 epoch |-> active.epoch, at |-> now, allowed |-> m.decision.allowed]
           last == Len(judged) + 1
<1>1. /\ judged' = Append(judged, r) /\ r \in JudgedCalls
      /\ calls[n].answer = null /\ Sent(n)
      /\ Matches(answer, r) /\ calls' = AnswerSet(n, answer) /\ answer \in JudgedAnswer
    BY Judges
<1>2. /\ r.call = n /\ r.clientId = calls[n].clientId /\ r.algorithm = active.algorithm
      /\ r.epoch = active.epoch /\ r.at = now
    OBVIOUS
<1>3. active' = active /\ now' = now /\ page' = page
    BY DEF Judge
<1> HIDE DEF r, answer, m
<1>4. calls \in Seq(Calls) /\ judged \in Seq(JudgedCalls)
    BY DEF Types
<1>5. /\ DOMAIN calls' = Ids
      /\ \A k \in Ids : calls'[k].clientId = calls[k].clientId
                        /\ calls'[k].outcome = calls[k].outcome
                        /\ calls'[k].answer = IF k = n THEN answer ELSE calls[k].answer
    BY <1>1, <1>4, AnswersSet
<1>6. Ids' = Ids
    BY <1>5 DEF Ids
<1>7. /\ DOMAIN judged' = 1 .. Len(judged) + 1 /\ Len(judged) \in Nat
      /\ DOMAIN judged = 1 .. Len(judged) /\ Len(judged') = Len(judged) + 1
    BY <1>1, <1>4, AppendProperties, LenProperties
<1>8. (\A j \in 1 .. Len(judged) : judged'[j] = judged[j]) /\ judged'[last] = r
    BY <1>1, <1>4, AppendProperties
<1>9. answer # null
    BY <1>1, JudgedAnswerFacts
<1>10. /\ DOMAIN judged' = DOMAIN judged \cup {last} /\ Len(judged') = last
       /\ last \notin DOMAIN judged
       /\ \A j \in DOMAIN judged : judged'[j] = judged[j] /\ j < last /\ ~ last < j
    BY <1>7, <1>8
<1> QED BY <1>1, <1>2, <1>3, <1>5, <1>6, <1>7, <1>8, <1>9, <1>10 DEF answer

LEMMA HistoryNext ==
    ASSUME Types, History, Unjudged, [Next]_vars
    PROVE  History'
<1>1. calls \in Seq(Calls) /\ now \in Int /\ active.epoch \in Nat
    BY DEF Types
<1>2. CASE Steady /\ (UNCHANGED <<active, store, now>> \/ Activate \/ Tick)
    <2>1. now <= now' /\ active.epoch <= active'.epoch
          /\ (active'.epoch = active.epoch => active' = active)
        BY <1>1, <1>2, Activates, Ticks
    <2>2. judged' = judged
        BY <1>2 DEF Steady
    <2>3. now' \in Int /\ active'.epoch \in Nat
        BY MostTypesNext
    <2>4. ASSUME NEW j \in DOMAIN judged
          PROVE  /\ judged[j].call \in Ids'
                 /\ Sent(judged[j].call)' /\ calls'[judged[j].call].clientId = judged[j].clientId
                 /\ calls'[judged[j].call].answer # null
                 /\ IsWhole(j)' => Matches(calls'[judged[j].call].answer, judged[j])
        <3> DEFINE n == judged[j].call
        <3>1. /\ n \in Ids /\ Sent(n) /\ calls[n].clientId = judged[j].clientId
              /\ calls[n].answer # null
              /\ calls[n].answer.kind = "http" => Matches(calls[n].answer, judged[j])
            BY DEF History, IsWhole, AnswerOf
        <3>2. /\ n \in Ids' /\ Sent(n)' /\ calls'[n].clientId = calls[n].clientId
              /\ \/ calls'[n].answer = calls[n].answer
                 \/ calls'[n].answer \in Failures /\ calls'[n].answer.kind # "http"
            BY <1>2, <3>1 DEF Steady
        <3>3. IsWhole(j)' <=> calls'[n].answer.kind = "http"
            BY <2>2 DEF IsWhole, AnswerOf
        <3> QED BY <3>1, <3>2, <3>3, NullIsNothing
    <2>5. ASSUME NEW j \in DOMAIN judged
          PROVE  /\ judged[j].at <= now' /\ judged[j].epoch <= active'.epoch
                 /\ judged[j].epoch = active'.epoch => judged[j].algorithm = active'.algorithm
        <3>1. /\ judged[j].at \in Int /\ judged[j].epoch \in Nat
              /\ judged[j].at <= now /\ judged[j].epoch <= active.epoch
              /\ judged[j].epoch = active.epoch => judged[j].algorithm = active.algorithm
            BY JudgedFacts DEF History
        <3> QED BY <1>1, <2>1, <2>3, <3>1
    <2>6. \A j, k \in DOMAIN judged :
            /\ judged[j].call = judged[k].call => j = k
            /\ j < k => judged[j].at <= judged[k].at
            /\ judged[j].epoch = judged[k].epoch => judged[j].algorithm = judged[k].algorithm
        BY DEF History
    <2> QED BY <2>2, <2>4, <2>5, <2>6 DEF History
<1>3. CASE \E n \in Ids : Judge(n)
    <2>1. PICK n \in Ids : Judge(n)
        BY <1>3
    <2> DEFINE last == Len(judged) + 1
    <2>2. /\ DOMAIN judged = 1 .. Len(judged) /\ Len(judged) \in Nat
          /\ DOMAIN judged' = DOMAIN judged \cup {last}
          /\ last \notin DOMAIN judged
          /\ \A j \in DOMAIN judged : judged'[j] = judged[j] /\ j < last /\ ~ last < j
          /\ judged'[last].call = n /\ judged'[last].clientId = calls[n].clientId
          /\ judged'[last].algorithm = active.algorithm
          /\ judged'[last].epoch = active.epoch /\ judged'[last].at = now
          /\ Matches(calls'[n].answer, judged'[last])
          /\ active' = active /\ now' = now
          /\ calls[n].answer = null /\ Sent(n)
          /\ Ids' = Ids /\ calls'[n].answer # null
          /\ \A k \in Ids : /\ calls'[k].clientId = calls[k].clientId
                            /\ calls'[k].outcome = calls[k].outcome
                            /\ k # n => calls'[k].answer = calls[k].answer
        BY <2>1, JudgeKeeps
    <2> HIDE DEF last
    <2>3. ASSUME NEW j \in DOMAIN judged
          PROVE  /\ judged[j].call \in Ids
                 /\ Sent(judged[j].call)
                 /\ calls'[judged[j].call].clientId = judged[j].clientId
                 /\ calls'[judged[j].call].answer # null
                 /\ IsWhole(j)' => Matches(calls'[judged[j].call].answer, judged[j])
                 /\ judged[j].call # n
        <3>1. /\ judged[j].call \in Ids
              /\ calls[judged[j].call].answer # null
              /\ Sent(judged[j].call)
              /\ calls[judged[j].call].clientId = judged[j].clientId
              /\ IsWhole(j) => Matches(calls[judged[j].call].answer, judged[j])
            BY DEF History
        <3>2. judged[j].call # n
            BY <2>2, <3>1
        <3>3. calls'[judged[j].call].answer = calls[judged[j].call].answer
            BY <2>2, <3>1, <3>2
        <3>4. judged'[j] = judged[j]
            BY <2>2
        <3>5. IsWhole(j)' <=> IsWhole(j)
            BY <3>3, <3>4 DEF IsWhole, AnswerOf
        <3>6. calls'[judged[j].call].clientId = judged[j].clientId
            BY <2>2, <3>1
        <3> QED BY <3>1, <3>2, <3>3, <3>5, <3>6
    <2>4. \A j \in DOMAIN judged :
            /\ judged[j].at <= now /\ judged[j].epoch <= active.epoch
            /\ judged[j].epoch = active.epoch => judged[j].algorithm = active.algorithm
        BY DEF History
    <2>5. \A j, k \in DOMAIN judged :
            /\ judged[j].call = judged[k].call => j = k
            /\ j < k => judged[j].at <= judged[k].at
            /\ judged[j].epoch = judged[k].epoch => judged[j].algorithm = judged[k].algorithm
        BY DEF History
    <2>6. ASSUME NEW j \in DOMAIN judged'
          PROVE  /\ judged'[j].call \in Ids'
                 /\ calls'[judged'[j].call].outcome # "sync failed"
                 /\ calls'[judged'[j].call].clientId = judged'[j].clientId
                 /\ calls'[judged'[j].call].answer # null
                 /\ IsWhole(j)' => Matches(calls'[judged'[j].call].answer, judged'[j])
                 /\ judged'[j].at <= now' /\ judged'[j].epoch <= active'.epoch
                 /\ judged'[j].epoch = active'.epoch => judged'[j].algorithm = active'.algorithm
        <3>1. CASE j = last
            <4>1. /\ judged'[j].call = n /\ judged'[j].clientId = calls[n].clientId
                  /\ judged'[j].algorithm = active.algorithm
                  /\ judged'[j].epoch = active.epoch /\ judged'[j].at = now
                  /\ Matches(calls'[n].answer, judged'[j])
                BY <2>2, <3>1
            <4>2. calls'[n].clientId = calls[n].clientId /\ calls'[n].answer # null
                BY <2>2
            <4>3. n \in Ids' /\ calls'[n].outcome # "sync failed"
                BY <2>2 DEF Sent
            <4>4. now <= now /\ active.epoch <= active.epoch
                BY <1>1
            <4>5. active' = active /\ now' = now
                BY <2>2
            <4> QED BY <4>1, <4>2, <4>3, <4>4, <4>5
        <3>2. CASE j \in DOMAIN judged
            <4>1. judged'[j] = judged[j] /\ active' = active /\ now' = now /\ Ids' = Ids
                BY <2>2, <3>2
            <4>2. calls'[judged[j].call].outcome # "sync failed"
                BY <2>2, <2>3, <3>2 DEF Sent
            <4> QED BY <2>3, <2>4, <3>2, <4>1, <4>2
        <3> QED BY <2>2, <3>1, <3>2
    <2>7. ASSUME NEW j \in DOMAIN judged', NEW k \in DOMAIN judged'
          PROVE  /\ judged'[j].call = judged'[k].call => j = k
                 /\ j < k => judged'[j].at <= judged'[k].at
                 /\ judged'[j].epoch = judged'[k].epoch =>
                       judged'[j].algorithm = judged'[k].algorithm
        <3>1. CASE j = last /\ k = last
            BY <1>1, <2>2, <3>1
        <3>2. CASE j \in DOMAIN judged /\ k \in DOMAIN judged
            BY <2>2, <2>5, <3>2
        <3>3. CASE j = last /\ k \in DOMAIN judged
            BY <2>2, <2>3, <2>4, <3>3
        <3>4. CASE k = last /\ j \in DOMAIN judged
            BY <2>2, <2>3, <2>4, <3>4
        <3> QED BY <2>2, <3>1, <3>2, <3>3, <3>4
    <2> QED BY <2>6, <2>7 DEF History, Sent
<1> QED BY <1>2, <1>3, Kinds

LEMMA UnjudgedNext ==
    ASSUME Types, History, Unjudged, [Next]_vars
    PROVE  Unjudged'
<1>1. CASE Steady
    <2>1. ASSUME NEW n \in Ids'
          PROVE  /\ calls'[n].answer # null /\ Judgements(n)' = {} => calls'[n].answer \in Failures
                 /\ calls'[n].outcome = "answered" => calls'[n].answer # null
        <3>1. Judgements(n)' = Judgements(n)
            BY <1>1 DEF Steady, Judgements
        <3>2. CASE n \in Ids
            <4>1. /\ calls[n].answer # null /\ Judgements(n) = {} => calls[n].answer \in Failures
                  /\ calls[n].outcome = "answered" => calls[n].answer # null
                BY <3>2 DEF Unjudged
            <4>2. /\ calls[n].outcome # "open" => calls'[n].outcome = calls[n].outcome
                  /\ calls'[n].outcome = "answered" /\ calls[n].outcome = "open" =>
                        calls'[n].answer # null
                  /\ calls'[n].answer = calls[n].answer \/ calls'[n].answer \in Failures
                BY <1>1, <3>2 DEF Steady
            <4> QED BY <3>1, <4>1, <4>2, NullIsNothing
        <3>3. CASE n \notin Ids
            <4>1. calls'[n].answer \in {null} \cup Failures /\ calls'[n].outcome # "answered"
                BY <1>1, <3>3 DEF Steady
            <4> QED BY <4>1
        <3> QED BY <3>2, <3>3
    <2> QED BY <2>1 DEF Unjudged
<1>2. CASE \E n \in Ids : Judge(n)
    <2>1. PICK n \in Ids : Judge(n)
        BY <1>2
    <2> DEFINE last == Len(judged) + 1
    <2>2. /\ DOMAIN judged' = DOMAIN judged \cup {last}
          /\ \A j \in DOMAIN judged : judged'[j] = judged[j]
          /\ judged'[last].call = n
          /\ Ids' = Ids /\ calls'[n].answer # null
          /\ \A k \in Ids : /\ calls'[k].outcome = calls[k].outcome
                            /\ k # n => calls'[k].answer = calls[k].answer
        BY <2>1, JudgeKeeps
    <2> HIDE DEF last
    <2>3. Judgements(n)' # {}
        BY <2>2 DEF Judgements
    <2>4. \A k \in Ids : Judgements(k)' = {} => Judgements(k) = {}
        BY <2>2 DEF Judgements
    <2>5. \A k \in Ids :
            /\ calls[k].answer # null /\ Judgements(k) = {} => calls[k].answer \in Failures
            /\ calls[k].outcome = "answered" => calls[k].answer # null
        BY DEF Unjudged
    <2>6. ASSUME NEW k \in Ids
          PROVE  /\ calls'[k].answer # null /\ Judgements(k)' = {} => calls'[k].answer \in Failures
                 /\ calls'[k].outcome = "answered" => calls'[k].answer # null
        <3>1. CASE k = n
            BY <2>2, <2>3, <3>1
        <3>2. CASE k # n
            BY <2>2, <2>4, <2>5, <3>2
        <3> QED BY <3>1, <3>2
    <2> QED BY <2>2, <2>6 DEF Unjudged
<1> QED BY <1>1, <1>2, StepsAreSteady

-----------------------------------------------------------------------------
(***************************************************************************)
(* The list of events.                                                     *)
(***************************************************************************)

LEMMA SyntheticFacts ==
    ASSUME NEW id \in Int, NEW t \in Int
    PROVE  /\ SyntheticError(id, t) \in Events
           /\ SyntheticError(id, t).id = id
           /\ SyntheticError(id, t).kind = "synthetic_error"
           /\ SyntheticError(id, t).issues = <<"request_error">>
<1>1. <<"request_error">> \in {<<"request_error">>} \cup Seq(Codes)
    OBVIOUS
<1> QED BY <1>1 DEF SyntheticError, Events

\* What is closed stays as it is, if it was answered.
LEMMA Closed ==
    ASSUME Types, History, Unjudged, [Next]_vars, NEW n \in Ids \ Open
    PROVE  /\ n \in Ids' \ Open' /\ calls'[n].outcome = calls[n].outcome /\ page' = page
           /\ calls[n].outcome = "answered" =>
                /\ calls'[n].answer = calls[n].answer /\ calls'[n].clientId = calls[n].clientId
                /\ Judgements(n)' = Judgements(n)
                /\ \A j \in Judgements(n) : judged'[j] = judged[j]
<1>1. n \in Ids /\ calls[n].outcome # "open"
    BY DEF Open
<1>2. calls[n].outcome = "answered" => calls[n].answer # null
    BY <1>1 DEF Unjudged
<1>3. CASE Steady
    <2>1. /\ n \in Ids' /\ calls'[n].outcome = calls[n].outcome /\ page' = page
          /\ calls'[n].clientId = calls[n].clientId /\ judged' = judged
          /\ calls[n].answer # null => calls'[n].answer = calls[n].answer
        BY <1>1, <1>3 DEF Steady
    <2>2. n \notin Open'
        BY <1>1, <2>1 DEF Open
    <2>3. Judgements(n)' = Judgements(n)
        BY <2>1 DEF Judgements
    <2> QED BY <1>2, <2>1, <2>2, <2>3
<1>4. CASE \E k \in Ids : Judge(k)
    <2>1. PICK k \in Ids : Judge(k)
        BY <1>4
    <2> DEFINE last == Len(judged) + 1
    <2>2. /\ DOMAIN judged' = DOMAIN judged \cup {last} /\ last \notin DOMAIN judged
          /\ \A j \in DOMAIN judged : judged'[j] = judged[j]
          /\ judged'[last].call = k
          /\ page' = page /\ Ids' = Ids /\ calls[k].answer = null
          /\ calls'[n].clientId = calls[n].clientId /\ calls'[n].outcome = calls[n].outcome
          /\ n # k => calls'[n].answer = calls[n].answer
        BY <1>1, <2>1, JudgeKeeps
    <2> HIDE DEF last
    <2>3. n \in Ids' \ Open'
        BY <1>1, <2>2 DEF Open
    <2>4. n # k => Judgements(n)' = Judgements(n)
        BY <2>2 DEF Judgements
    <2>5. \A j \in Judgements(n) : judged'[j] = judged[j]
        BY <2>2 DEF Judgements
    <2> QED BY <1>2, <2>2, <2>3, <2>4, <2>5
<1> QED BY <1>3, <1>4, StepsAreSteady

LEMMA StillShown ==
    ASSUME Types, History, Unjudged, [Next]_vars, NEW event,
           CallOf(event.id) \in Ids \ Open, IsShown(event)
    PROVE  IsShown(event)'
<1> DEFINE n == CallOf(event.id)
<1>1. /\ calls'[n].outcome = calls[n].outcome /\ page' = page
      /\ calls[n].outcome = "answered" =>
            /\ calls'[n].answer = calls[n].answer /\ calls'[n].clientId = calls[n].clientId
            /\ Judgements(n)' = Judgements(n)
            /\ \A j \in Judgements(n) : judged'[j] = judged[j]
    BY Closed
<1>2. CASE calls[n].outcome = "answered"
    <2>1. /\ calls'[n].outcome = calls[n].outcome /\ page' = page
          /\ calls'[n].answer = calls[n].answer /\ calls'[n].clientId = calls[n].clientId
          /\ Judgements(n)' = Judgements(n)
          /\ \A j \in Judgements(n) : judged'[j] = judged[j]
        BY <1>1, <1>2
    <2> QED BY <2>1 DEF IsShown
<1>3. CASE calls[n].outcome # "answered"
    BY <1>1, <1>3 DEF IsShown
<1> QED BY <1>2, <1>3

\* An event comes of a call that has just been closed.
Comes(event) ==
    /\ event \in Events
    /\ events' = Capped(Append(events, event)) /\ arrived' = Append(arrived, event.id)
    /\ CallOf(event.id) \in Ids' \ Open'
    /\ CallOf(event.id) \in Open \/ CallOf(event.id) \notin Ids
    /\ IsShown(event)'

LEMMA Delivers ==
    ASSUME Types, History, Unjudged, NEW n \in Ids, Deliver(n)
    PROVE  UNCHANGED <<events, arrived>> \/ \E event \in Events : Comes(event)
<1> DEFINE answer == calls[n].answer
           event == simulateRequest(page, answer, calls[n].clientId, ErrorId(n), now)
<1>1. /\ n \in Open /\ answer # null /\ calls' = OutcomeSet(n, "answered")
      /\ judged' = judged /\ page' = page /\ now' = now
      /\ IF mounted THEN events' = appendEvent(page, events, event)
                         /\ arrived' = Append(arrived, event.id)
         ELSE UNCHANGED <<events, arrived>>
    BY DEF Deliver, Settle, OutcomeSet
<1>2. page \in PageNames /\ calls \in Seq(Calls) /\ now \in Int
    BY DEF Types
<1>3. Sent(n) /\ n \in Int /\ calls[n].clientId \in Int
      /\ answer \in Failures \cup JudgedAnswer
    <2>1. calls[n].outcome = "open"
        BY <1>1 DEF Open
    <2>2. Sent(n)
        BY <2>1 DEF Sent
    <2> QED BY <1>1, <1>2, <2>2, CallFacts
<1>4. /\ DOMAIN calls' = Ids /\ calls'[n].outcome = "answered"
      /\ calls'[n].answer = answer /\ calls'[n].clientId = calls[n].clientId
    BY <1>1, <1>2, <1>3, OutcomesSet DEF Outcomes
<1>5. n \in Ids' \ Open' /\ Judgements(n)' = Judgements(n)
    BY <1>1, <1>4 DEF Ids, Open, Judgements
<1>6. CASE ~ mounted
    BY <1>1, <1>6
<1>7. CASE mounted
    <2>1. events' = Capped(Append(events, event)) /\ arrived' = Append(arrived, event.id)
        BY <1>1, <1>2, <1>7, Appended
    <2>2. CASE answer \in Failures /\ ~ (answer.kind = "http" /\ Judgements(n) # {})
        <3> DEFINE it == SyntheticError(ErrorId(n), now)
        <3>1. event = it
            BY <1>2, <2>2, FailureShown
        <3>2. it \in Events /\ it.id = ErrorId(n)
              /\ it.kind = "synthetic_error" /\ it.issues = <<"request_error">>
            BY <1>2, <1>3, CallOfId, SyntheticFacts
        <3> HIDE DEF it, event
        <3>3. PICK error : error = it
            OBVIOUS
        <3>4. CallOf(error.id) = n
            BY <1>3, <3>2, <3>3, CallOfId
        <3>5. IsShown(error)'
            BY <1>4, <1>5, <2>2, <3>2, <3>3, <3>4 DEF IsShown
        <3>6. events' = Capped(Append(events, error)) /\ arrived' = Append(arrived, error.id)
            BY <2>1, <3>1, <3>3
        <3>7. Comes(error)
            BY <1>1, <1>5, <3>2, <3>3, <3>4, <3>5, <3>6 DEF Comes
        <3> QED BY <3>2, <3>3, <3>7
    <2>3. CASE answer.kind = "http" /\ Judgements(n) # {}
        <3>1. PICK j \in Judgements(n) : TRUE
            BY <2>3
        <3>2. j \in DOMAIN judged /\ judged[j].call = n
            BY DEF Judgements
        <3>3. judged[j].algorithm \in PageNames
            BY <3>2, JudgedFacts
        <3>4. IsWhole(j) /\ AnswerOf(j) = answer
            BY <2>3, <3>2 DEF IsWhole, AnswerOf
        <3>5. Matches(answer, judged[j])
            BY <3>2, <3>4 DEF History
        <3> DEFINE a == judged[j].algorithm
                   client == calls[n].clientId
        <3>6. /\ answer \in JudgedAnswers(a) /\ answer.body.request_id = RequestId(n)
              /\ answer.ok \/ answer.status = 429
              /\ answer.body.allowed => answer.body.retry_after_ms = null
            BY <3>2, <3>5 DEF Matches
        <3>7. a \in PageNames /\ client \in Int
            BY <1>3, <3>3
        <3> HIDE DEF a, client, answer
        <3> HIDE DEF event
        <3>8. PICK e : e = event
            OBVIOUS
        <3>9. e = simulateRequest(page, answer, client, ErrorId(n), now)
            BY <3>8 DEF event, answer, client
        <3>10. /\ e \in Events
               /\ e.kind = "decision" /\ e.id = answer.body.request_id
               /\ Says(e.decision, answer.body, client)
               /\ e.issues = <<>> <=> a = page
               /\ a = page => OwnFigure(page, e.decision.algorithmState,
                                        answer.body.algorithm_state)
            BY <1>2, <3>6, <3>7, <3>9, JudgedShown
        <3>11. CallOf(e.id) = n
            BY <1>3, <3>6, <3>10, CallOfId
        <3>12. IsShown(e)'
            <4>1. /\ calls'[n].outcome = "answered" /\ calls'[n].answer = answer
                  /\ calls'[n].clientId = client /\ judged'[j].algorithm = a
                  /\ j \in Judgements(n)' /\ page' = page
                BY <1>1, <1>4, <1>5, <3>1 DEF a, client, answer
            <4>2. answer.kind = "http" /\ IsDecision(e)
                BY <2>3, <3>10 DEF answer, IsDecision
            <4> QED BY <3>10, <3>11, <4>1, <4>2 DEF IsShown
        <3>13. Comes(e)
            BY <1>1, <1>5, <2>1, <3>8, <3>10, <3>11, <3>12 DEF Comes
        <3> QED BY <3>10, <3>13
    <2>4. answer \in Failures \/ Judgements(n) # {}
        BY <1>1 DEF Unjudged
    <2>5. answer.kind = "http" \/ answer \in Failures
        BY <1>3, JudgedAnswerFacts
    <2> QED BY <2>2, <2>3, <2>4, <2>5
<1> QED BY <1>6, <1>7

LEMMA Timeouts ==
    ASSUME Types, History, Unjudged, NEW n \in Ids, Timeout(n)
    PROVE  UNCHANGED <<events, arrived>> \/ \E event \in Events : Comes(event)
<1> DEFINE event == simulateRequest(page, [kind |-> "timeout"], calls[n].clientId, ErrorId(n), now)
           it == SyntheticError(ErrorId(n), now)
<1>1. /\ n \in Open /\ calls' = OutcomeSet(n, "timed out")
      /\ judged' = judged /\ page' = page /\ now' = now
      /\ IF mounted THEN events' = appendEvent(page, events, event)
                         /\ arrived' = Append(arrived, event.id)
         ELSE UNCHANGED <<events, arrived>>
    BY DEF Timeout, Settle, OutcomeSet
<1>2. page \in PageNames /\ calls \in Seq(Calls) /\ now \in Int
    BY DEF Types
<1>3. Sent(n) /\ n \in Int
    <2>1. calls[n].outcome = "open"
        BY <1>1 DEF Open
    <2>2. Sent(n)
        BY <2>1 DEF Sent
    <2> QED BY <1>2, <2>2, CallFacts
<1>4. DOMAIN calls' = Ids /\ calls'[n].outcome = "timed out"
    BY <1>1, <1>2, <1>3, OutcomesSet DEF Outcomes
<1>5. n \in Ids' \ Open'
    BY <1>1, <1>4 DEF Ids, Open
<1>6. event = it
    BY <1>2, FailureShown
<1>7. PICK error : error = it
    OBVIOUS
<1>8. /\ error \in Events /\ error.id = ErrorId(n)
      /\ error.kind = "synthetic_error" /\ error.issues = <<"request_error">>
    BY <1>2, <1>3, <1>7, CallOfId, SyntheticFacts
<1> HIDE DEF it, event
<1>9. CallOf(error.id) = n
    BY <1>3, <1>8, CallOfId
<1>10. IsShown(error)'
    BY <1>4, <1>8, <1>9 DEF IsShown
<1>11. CASE mounted
    <2>1. events' = appendEvent(page, events, error) /\ arrived' = Append(arrived, error.id)
        BY <1>1, <1>6, <1>7, <1>11
    <2>2. events' = Capped(Append(events, error))
        BY <1>2, <2>1, Appended
    <2>3. Comes(error)
        BY <1>1, <1>5, <1>8, <1>9, <1>10, <2>1, <2>2 DEF Comes
    <2> QED BY <1>8, <2>3
<1> QED BY <1>1, <1>11

LEMMA SyncFails ==
    ASSUME Types, SyncFailed
    PROVE  \E event \in Events : Comes(event)
<1> DEFINE call == [clientId |-> null, outcome |-> "sync failed", answer |-> [kind |-> "none"]]
<1>1. page \in PageNames /\ calls \in Seq(Calls) /\ now \in Int
    BY DEF Types
<1>2. Ids = 1 .. Len(calls) /\ Len(calls) \in Nat
    BY <1>1, CallFacts
<1>3. PICK n \in Nat : n = Len(calls) + 1
    BY <1>2
<1>4. /\ calls' = Append(calls, call) /\ arrived' = Append(arrived, ErrorId(n))
      /\ events' = appendSyntheticError(page, events, ErrorId(n), now)
    BY <1>3 DEF SyncFailed
<1>5. call.outcome = "sync failed"
    OBVIOUS
<1> HIDE DEF call
<1>6. Ids' = 1 .. n /\ calls'[n] = call
    BY <1>1, <1>3, <1>4, AppendProperties DEF Ids
<1>7. n \in Int /\ n \in Ids' \ Open' /\ n \notin Ids /\ calls'[n].outcome = "sync failed"
    <2>1. n \in Int /\ n \in Ids' /\ n \notin Ids
        BY <1>2, <1>3, <1>6
    <2>2. calls'[n].outcome = "sync failed"
        BY <1>5, <1>6
    <2> QED BY <2>1, <2>2 DEF Open
<1> DEFINE it == SyntheticError(ErrorId(n), now)
<1>8. PICK error : error = it
    OBVIOUS
<1>9. /\ error \in Events /\ error.id = ErrorId(n)
      /\ error.kind = "synthetic_error" /\ error.issues = <<"request_error">>
    BY <1>1, <1>7, <1>8, CallOfId, SyntheticFacts
<1>10. events' = Capped(Append(events, error))
    BY <1>1, <1>4, <1>8, Appended
<1> HIDE DEF it
<1>11. CallOf(error.id) = n
    BY <1>7, <1>9, CallOfId
<1>12. IsShown(error)'
    BY <1>7, <1>9, <1>11 DEF IsShown
<1>13. Comes(error)
    BY <1>4, <1>7, <1>9, <1>10, <1>11, <1>12 DEF Comes
<1> QED BY <1>9, <1>13

LEMMA EventSteps ==
    ASSUME Types, History, Unjudged, [Next]_vars
    PROVE  \/ UNCHANGED <<events, arrived>>
           \/ events' = <<>> /\ arrived' = <<>>
           \/ \E event \in Events : Comes(event)
<1>1. CASE \E n \in Ids : Judge(n) \/ GatewayError(n) \/ Broken(n)
    BY <1>1 DEF Judge, GatewayError, Broken
<1>2. CASE \E n \in Ids : Deliver(n) \/ Timeout(n)
    BY <1>2, Delivers, Timeouts
<1>3. CASE SyncFailed
    BY <1>3, SyncFails
<1>4. CASE Dispatch \/ resetView \/ Leave \/ Activate \/ Tick \/ UNCHANGED vars
    BY <1>4 DEF Dispatch, resetView, Leave, Activate, Tick, vars
<1> QED BY <1>1, <1>2, <1>3, <1>4 DEF Next

\* Every event in the list is one of what has arrived.
LEMMA Arrived ==
    ASSUME Types, ListInv, NEW i \in DOMAIN events
    PROVE  /\ i \in 1 .. Len(events) /\ Len(events) \in Nat /\ Len(arrived) \in Nat
           /\ Len(events) <= Len(arrived)
           /\ Len(arrived) - Len(events) + i \in DOMAIN arrived
           /\ DOMAIN arrived = 1 .. Len(arrived)
           /\ events[i].id = arrived[Len(arrived) - Len(events) + i]
           /\ events[i] \in Events
<1>1. events \in Seq(Events) /\ arrived \in Seq(Int)
    BY DEF Types
<1>2. /\ DOMAIN events = 1 .. Len(events) /\ DOMAIN arrived = 1 .. Len(arrived)
      /\ Len(events) \in Nat /\ Len(arrived) \in Nat
    BY <1>1, LenProperties
<1>3. Len(events) <= Len(arrived)
    BY <1>2, CapAssumption DEF ListInv
<1>4. Len(arrived) - Len(events) + i \in 1 .. Len(arrived)
    BY <1>2, <1>3
<1>5. events[i] \in Events
    BY <1>1, <1>2, ElementOfSeq
<1> QED BY <1>2, <1>3, <1>4, <1>5 DEF ListInv

LEMMA ArrivalsNext ==
    ASSUME Types, History, Unjudged, Arrivals, [Next]_vars
    PROVE  arrived' \in Seq(Int) /\ Arrivals'
<1>1. arrived \in Seq(Int) /\ DOMAIN arrived = 1 .. Len(arrived) /\ Len(arrived) \in Nat
    BY LenProperties DEF Types
<1>2. \A i \in DOMAIN arrived : CallOf(arrived[i]) \in Ids \ Open
    BY DEF Arrivals
<1>3. \A i \in DOMAIN arrived : CallOf(arrived[i]) \in Ids' \ Open'
    BY <1>2, Closed
<1>4. \A i, k \in DOMAIN arrived : CallOf(arrived[i]) = CallOf(arrived[k]) => i = k
    BY DEF Arrivals
<1>5. CASE UNCHANGED <<events, arrived>>
    BY <1>1, <1>3, <1>4, <1>5 DEF Arrivals, CallOf
<1>6. CASE events' = <<>> /\ arrived' = <<>>
    BY <1>6 DEF Arrivals
<1>7. CASE \E event \in Events : Comes(event)
    <2>1. PICK event \in Events : Comes(event)
        BY <1>7
    <2> DEFINE id == event.id
               last == Len(arrived) + 1
    <2>2. /\ arrived' = Append(arrived, id) /\ CallOf(id) \in Ids' \ Open'
          /\ CallOf(id) \in Open \/ CallOf(id) \notin Ids
        BY <2>1 DEF Comes
    <2>3. id \in Int
        BY DEF Events
    <2> HIDE DEF id
    <2>4. /\ arrived' \in Seq(Int) /\ DOMAIN arrived' = DOMAIN arrived \cup {last}
          /\ \A i \in DOMAIN arrived : arrived'[i] = arrived[i]
          /\ arrived'[last] = id
        BY <1>1, <2>2, <2>3, AppendProperties
    <2>5. \A i \in DOMAIN arrived : CallOf(arrived[i]) # CallOf(id)
        BY <1>2, <2>2
    <2> HIDE DEF last
    <2>6. ASSUME NEW i \in DOMAIN arrived'
          PROVE  CallOf(arrived'[i]) \in Ids' \ Open'
        BY <1>3, <2>2, <2>4
    <2>7. ASSUME NEW i \in DOMAIN arrived', NEW k \in DOMAIN arrived',
                 CallOf(arrived'[i]) = CallOf(arrived'[k])
          PROVE  i = k
        <3>1. CASE i = last /\ k \in DOMAIN arrived
            BY <2>4, <2>5, <2>7, <3>1
        <3>2. CASE k = last /\ i \in DOMAIN arrived
            BY <2>4, <2>5, <2>7, <3>2
        <3>3. CASE i \in DOMAIN arrived /\ k \in DOMAIN arrived
            BY <1>4, <2>4, <2>7, <3>3
        <3> QED BY <2>4, <3>1, <3>2, <3>3
    <2> QED BY <2>4, <2>6, <2>7 DEF Arrivals, CallOf
<1> QED BY <1>5, <1>6, <1>7, EventSteps

\* An event that comes is the newest; the others move to the left.
LEMMA NewList ==
    ASSUME Types, ListInv, NEW event \in Events, Comes(event)
    PROVE  /\ events' \in Seq(Events) /\ ListInv'
           /\ \A i \in DOMAIN events' :
                events'[i] = event \/ \E k \in DOMAIN events : events'[i] = events[k]
<1> DEFINE cap == UI_EVENT_CAP
           all == Len(arrived)
           had == Len(events)
           has == Len(events')
<1>1. events \in Seq(Events) /\ arrived \in Seq(Int) /\ event.id \in Int
    BY DEF Types, Events
<1>2. events' = Capped(Append(events, event)) /\ arrived' = Append(arrived, event.id)
    BY DEF Comes
<1>3. /\ events' \in Seq(Events)
      /\ has = IF had + 1 < cap THEN had + 1 ELSE cap
      /\ \A i \in DOMAIN events' :
            events'[i] = IF had + 1 - has + i = had + 1 THEN event
                         ELSE events[had + 1 - has + i]
    <2> DEFINE after == Capped(Append(events, event))
    <2>1. after \in Seq(Events)
        BY <1>1, CappedAppend
    <2>2. Len(after) = IF had + 1 < cap THEN had + 1 ELSE cap
        BY <1>1, CappedAppend
    <2>3. \A i \in DOMAIN after :
            after[i] = IF had + 1 - Len(after) + i = had + 1 THEN event
                       ELSE events[had + 1 - Len(after) + i]
        BY <1>1, CappedAppend
    <2> HIDE DEF after
    <2>4. events' = after
        BY <1>2 DEF after
    <2> QED BY <2>1, <2>2, <2>3, <2>4
<1>4. /\ Len(arrived') = all + 1 /\ arrived'[all + 1] = event.id
      /\ \A i \in 1 .. all : arrived'[i] = arrived[i]
    BY <1>1, <1>2, AppendProperties
<1>5. /\ DOMAIN events' = 1 .. has /\ has \in Nat /\ all \in Nat
      /\ DOMAIN events = 1 .. had /\ had \in Nat
    BY <1>1, <1>3, LenProperties
<1>6. cap \in Nat /\ cap > 0
    BY CapAssumption
<1>7. had = IF all < cap THEN all ELSE cap
    BY DEF ListInv
<1>8. \A k \in DOMAIN events : events[k].id = arrived[all - had + k]
    BY DEF ListInv
<1> HIDE DEF cap, all, had, has
<1>9. has = IF all + 1 < cap THEN all + 1 ELSE cap
    BY <1>3, <1>5, <1>6, <1>7
<1>10. ASSUME NEW i \in DOMAIN events'
       PROVE  /\ events'[i].id = arrived'[all + 1 - has + i]
              /\ events'[i] = event \/ \E k \in DOMAIN events : events'[i] = events[k]
    <2> DEFINE k == had + 1 - has + i
    <2>1. CASE k = had + 1
        <3>1. events'[i] = event /\ all + 1 - has + i = all + 1
            BY <1>3, <1>5, <2>1
        <3> QED BY <1>4, <3>1
    <2>2. CASE k # had + 1
        <3>1. events'[i] = events[k]
            BY <1>3, <2>2
        <3>2. k \in 1 .. had /\ all - had + k = all + 1 - has + i /\ all - had + k \in 1 .. all
            <4>1. i \in Int /\ i >= 1 /\ i <= has
                BY <1>5
            <4>2. has <= had + 1 /\ had <= all /\ has \in Int
                BY <1>3, <1>5, <1>6, <1>7
            <4>3. k \in Int /\ k >= 1 /\ k <= had
                BY <1>5, <2>2, <4>1, <4>2
            <4> QED BY <1>5, <4>1, <4>2, <4>3
        <3>3. events[k].id = arrived[all - had + k]
            BY <1>5, <1>8, <3>2
        <3>4. arrived'[all - had + k] = arrived[all - had + k]
            BY <1>4, <3>2
        <3> QED BY <1>5, <3>1, <3>2, <3>3, <3>4
    <2> QED BY <2>1, <2>2
<1>11. ListInv'
    BY <1>4, <1>9, <1>10 DEF ListInv, cap, all, has
<1> QED BY <1>3, <1>10, <1>11

LEMMA ListNext ==
    ASSUME Types, History, Unjudged, Arrivals, ListInv, Shown, [Next]_vars
    PROVE  events' \in Seq(Events) /\ ListInv' /\ Shown'
<1>1. ASSUME NEW i \in DOMAIN events
      PROVE  IsShown(events[i]) /\ CallOf(events[i].id) \in Ids \ Open
    BY Arrived DEF Arrivals, Shown
<1>2. ASSUME NEW i \in DOMAIN events, NEW event, event = events[i]
      PROVE  IsShown(event)'
    BY <1>1, <1>2, StillShown
<1>3. CASE UNCHANGED <<events, arrived>>
    <2>1. ListInv' /\ events' \in Seq(Events)
        BY <1>3 DEF Types, ListInv
    <2>2. ASSUME NEW i \in DOMAIN events'
          PROVE  IsShown(events[i])'
        <3>1. PICK event : event = events[i]
            OBVIOUS
        <3>2. IsShown(event)' /\ events'[i] = event
            BY <1>2, <1>3, <3>1
        <3> QED BY <3>2 DEF IsShown
    <2> QED BY <2>1, <2>2 DEF Shown
<1>4. CASE events' = <<>> /\ arrived' = <<>>
    BY <1>4, CapAssumption DEF ListInv, Shown
<1>5. CASE \E event \in Events : Comes(event)
    <2>1. PICK new \in Events : Comes(new)
        BY <1>5
    <2>2. /\ events' \in Seq(Events) /\ ListInv'
          /\ \A i \in DOMAIN events' :
                events'[i] = new \/ \E k \in DOMAIN events : events'[i] = events[k]
        BY <2>1, NewList
    <2>3. IsShown(new)'
        BY <2>1 DEF Comes
    <2>4. ASSUME NEW i \in DOMAIN events'
          PROVE  IsShown(events[i])'
        <3>1. PICK event : event = events'[i]
            OBVIOUS
        <3>2. event = new \/ \E k \in DOMAIN events : event = events[k]
            BY <2>2, <3>1
        <3>3. IsShown(event)'
            <4>1. CASE event = new
                BY <2>3, <4>1
            <4>2. CASE \E k \in DOMAIN events : event = events[k]
                BY <1>2, <4>2
            <4> QED BY <3>2, <4>1, <4>2
        <3> QED BY <3>1, <3>3 DEF IsShown
    <2> QED BY <2>2, <2>4 DEF Shown
<1> QED BY <1>3, <1>4, <1>5, EventSteps

-----------------------------------------------------------------------------
(***************************************************************************)
(* What the answers promise, and what the charts draw.                     *)
(***************************************************************************)

LEMMA LevelType ==
    ASSUME NEW a \in Charted, NEW keys, AreKeys(keys), NEW t \in Int
    PROVE  Level(a, keys, t) \in Int
<1>1. CASE a = "token_bucket"
    <2>1. Floor(Full(keys, t)) \in Int
        BY TokenBucketJudges
    <2> QED BY <1>1, <2>1 DEF Level
<1>2. CASE a = "leaky_bucket"
    <2> DEFINE rate == Params["leaky_bucket"].leak_rate_per_sec
    <2>1. rate \in Int
        BY ParamsOf DEF Positive
    <2>2. Water(keys, t) = AtLeast(0, OrElse(keys.level, 0) - Drift(keys, rate, t))
        BY DEF Water
    <2> HIDE DEF rate
    <2>3. Drift(keys, rate, t) \in Int
        BY <2>1, Drifts
    <2>4. OrElse(keys.level, 0) \in Int
        BY DEF AreKeys, Number, OrElse
    <2>5. Water(keys, t) \in Int
        BY <2>2, <2>3, <2>4 DEF AtLeast
    <2>6. Floor(Water(keys, t)) \in Int
        BY <2>5, Floors
    <2> QED BY <1>2, <2>6 DEF Level
<1>3. CASE a = "sliding_log"
    <2> DEFINE recent == Recent(keys, t, Params["sliding_log"].window_size_sec)
    <2>1. IsFiniteSet(keys.log) /\ recent \subseteq keys.log
        BY DEF AreKeys, Recent
    <2>2. Cardinality(recent) \in Nat
        BY <2>1, FS_Subset, FS_CardinalityType
    <2>3. One * Cardinality(recent) \in Int
        BY <2>2 DEF One
    <2> QED BY <1>3, <2>3 DEF Level
<1> QED BY <1>1, <1>2, <1>3 DEF Charted

\* The figure of a whole answer is a number.
LEMMA FigureType ==
    ASSUME Types, History, NEW j \in DOMAIN judged, IsWhole(j), judged[j].algorithm \in Charted
    PROVE  FigureOf(j) \in Int
<1> DEFINE a == judged[j].algorithm
           state == AnswerOf(j).body.algorithm_state
<1>1. AnswerOf(j) \in JudgedAnswers(a) /\ a \in PageNames
    BY JudgedFacts DEF History, Matches, AnswerOf
<1>2. AnswerOf(j).body \in Body(a)
    BY <1>1 DEF JudgedAnswers
<1>3. state \in AlgorithmState(a)
    BY <1>1, <1>2, BodyOf
<1>4. a \in Charted
    OBVIOUS
<1>5. Figure(a, state) \in Int
    <2> HIDE DEF a, state
    <2>1. CASE a = "token_bucket"
        BY <1>3, <2>1 DEF AlgorithmState, Figure
    <2>2. CASE a = "leaky_bucket"
        BY <1>3, <2>2 DEF AlgorithmState, Figure
    <2>3. CASE a = "sliding_log"
        BY <1>3, <2>3 DEF AlgorithmState, Figure
    <2> QED BY <1>4, <2>1, <2>2, <2>3 DEF Charted
<1> QED BY <1>5 DEF FigureOf

\* A judgement that is whole was whole before, and is what it was.
LEMMA WholeBefore ==
    ASSUME Types, History, [Next]_vars, NEW j \in DOMAIN judged
    PROVE  /\ j \in DOMAIN judged' /\ judged'[j] = judged[j]
           /\ IsWhole(j)' => IsWhole(j) /\ AnswerOf(j)' = AnswerOf(j)
           /\ IsWhole(j)' => FigureOf(j)' = FigureOf(j)
<1> DEFINE n == judged[j].call
<1>1. n \in Ids /\ calls[n].answer # null
    BY DEF History
<1>2. CASE Steady
    <2>1. /\ judged' = judged
          /\ calls'[n].answer = calls[n].answer \/ calls'[n].answer.kind # "http"
        BY <1>1, <1>2 DEF Steady
    <2> QED BY <2>1 DEF IsWhole, AnswerOf, FigureOf
<1>3. CASE \E k \in Ids : Judge(k)
    <2>1. PICK k \in Ids : Judge(k)
        BY <1>3
    <2>2. /\ j \in DOMAIN judged' /\ judged'[j] = judged[j] /\ calls[k].answer = null
          /\ n # k => calls'[n].answer = calls[n].answer
        BY <1>1, <2>1, JudgeKeeps
    <2>3. calls'[n].answer = calls[n].answer
        BY <1>1, <2>2
    <2> QED BY <2>2, <2>3 DEF IsWhole, AnswerOf, FigureOf
<1> QED BY <1>2, <1>3, StepsAreSteady

\* The answer of a new judgement is true of what the limiter has then.
LEMMA JudgesTruly ==
    ASSUME Types, NEW n \in Ids, Judge(n),
           NEW last, last = Len(judged) + 1, NEW client, client = calls[n].clientId
    PROVE  LET a == active.algorithm IN
           /\ \A left : left = calls'[n].answer.body.remaining => Promised(client, left)'
           /\ \A c : c # client => Keys(c)' = Keys(c)
           /\ \A c : AreKeys(Keys(c)) /\ AreKeys(Keys(c)')
           /\ a \in Charted =>
                /\ FigureOf(last)' \in Int
                /\ Level(a, Keys(client), now) <= FigureOf(last)'
                /\ FigureOf(last)' = Level(a, Keys(client)', now)
<1>1. active.algorithm \in PageNames /\ now \in Int
      /\ \A c \in DOMAIN store : AreKeys(store[c])
    BY DEF Types
<1>2. PICK a \in PageNames : a = active.algorithm
    BY <1>1
<1>3. PICK token \in Int : token = RequestId(n)
    BY CallFacts, CallOfId DEF Types
<1>4. PICK m : m = Judgement(client, token)
    OBVIOUS
<1>5. PICK t \in Int : t = now
    BY <1>1
<1>6. PICK before : before = Keys(client)
    OBVIOUS
<1>7. m = BuildLimiter(a, Params[a], before, t, token)
    BY <1>2, <1>4, <1>5, <1>6 DEF Judgement
<1>8. \A c : AreKeys(Keys(c))
    BY <1>1, KeysType
<1>9. /\ calls'[n].answer.body.remaining = m.decision.remaining
      /\ calls'[n].answer.body.algorithm_state = m.decision.algorithm_state
      /\ \A c : Keys(c)' = IF c = client THEN m.keys ELSE Keys(c)
      /\ IsJudgement(m, a)
    BY <1>2, <1>3, <1>4, Judges
<1>10. AreKeys(before) /\ AreKeys(m.keys)
    BY <1>6, <1>8, <1>9 DEF IsJudgement
<1>11. /\ judged'[last].call = n /\ judged'[last].algorithm = a
       /\ active' = active /\ now' = now
    BY <1>2, JudgeKeeps
<1>12. ASSUME NEW other \in Int
       PROVE  LET isAllowed == BuildLimiter(a, Params[a], m.keys, t, other).decision.allowed
                  left == m.decision.remaining
                  figure == Figure(a, m.decision.algorithm_state)
              IN /\ isAllowed => left > 0
                 /\ left > 0 /\ a \notin {"sliding_window_counter", "leaky_bucket"} => isAllowed
                 /\ a \in Charted =>
                      /\ figure \in Int
                      /\ Level(a, before, t) <= figure
                      /\ figure = Level(a, m.keys, t)
    BY <1>3, <1>7, <1>10, Limiters
<1>13. ASSUME NEW left, left = m.decision.remaining
       PROVE  Promised(client, left)'
    <2>1. \A other : Judgement(client, other)'
                        = BuildLimiter(a, Params[a], m.keys, t, other)
        BY <1>2, <1>5, <1>9, <1>11 DEF Judgement
    <2> QED BY <1>2, <1>11, <1>12, <1>13, <2>1 DEF Promised
<1>14. a \in Charted =>
         /\ FigureOf(last)' \in Int
         /\ Level(a, before, t) <= FigureOf(last)'
         /\ FigureOf(last)' = Level(a, m.keys, t)
    <2>1. FigureOf(last)' = Figure(a, m.decision.algorithm_state)
        BY <1>9, <1>11 DEF FigureOf, AnswerOf
    <2> QED BY <1>12, <2>1
<1>15. \A c : AreKeys(Keys(c)')
    BY <1>8, <1>9, <1>10
<1>16. \A c : c # client => Keys(c)' = Keys(c)
    BY <1>9
<1>17. Keys(client)' = m.keys
    BY <1>9
<1> QED BY <1>2, <1>5, <1>6, <1>8, <1>9, <1>13, <1>14, <1>15, <1>16, <1>17

\* A step that passes no judgement leaves what a client would be told, or it
\* leaves this instant or this policy.
LEMMA Lasting ==
    ASSUME Types, History, Steady, UNCHANGED <<active, store, now>> \/ Activate \/ Tick,
           NEW j \in DOMAIN judged, Current(j)'
    PROVE  UNCHANGED <<active, store, now>> /\ Current(j)
<1>1. /\ judged[j].at \in Int /\ judged[j].epoch \in Nat
      /\ judged[j].at <= now /\ judged[j].epoch <= active.epoch
    BY JudgedFacts DEF History
<1>2. now \in Int /\ active.epoch \in Nat /\ judged' = judged
    BY DEF Types, Steady
<1>3. judged[j].epoch = active'.epoch /\ judged[j].at = now'
    BY <1>2 DEF Current
<1>4. ~ Activate
    BY <1>1, <1>2, <1>3, Activates
<1>5. ~ Tick
    BY <1>1, <1>2, <1>3, Ticks
<1> QED BY <1>3, <1>4, <1>5 DEF Current

LEMMA PromisesNext ==
    ASSUME Types, History, Promises, [Next]_vars
    PROVE  Promises'
<1>1. SUFFICES ASSUME NEW j \in DOMAIN judged', IsWhole(j)', Current(j)', Latest(j)',
                      NEW client, client = judged'[j].clientId,
                      NEW left, left = calls'[judged'[j].call].answer.body.remaining
               PROVE  Promised(client, left)'
    BY DEF Promises, Promised, Judgement, Keys, AnswerOf
<1>2. ASSUME j \in DOMAIN judged, Current(j), Latest(j)
      PROVE  client = judged[j].clientId /\ Promised(client, left)
    <2>1. judged'[j] = judged[j] /\ IsWhole(j) /\ AnswerOf(j)' = AnswerOf(j)
        BY <1>1, <1>2, WholeBefore
    <2>2. client = judged[j].clientId /\ left = AnswerOf(j).body.remaining
        BY <1>1, <2>1 DEF AnswerOf
    <2>3. Promised(judged[j].clientId, AnswerOf(j).body.remaining)
        BY <1>2, <2>1 DEF Promises
    <2> QED BY <2>2, <2>3
<1>3. CASE Steady /\ (UNCHANGED <<active, store, now>> \/ Activate \/ Tick)
    <2>1. judged' = judged
        BY <1>3 DEF Steady
    <2>2. UNCHANGED <<active, store, now>> /\ Current(j)
        BY <1>1, <1>3, <2>1, Lasting
    <2>3. Latest(j)
        BY <1>1, <2>1 DEF Latest
    <2>4. Promised(client, left)
        BY <1>2, <2>1, <2>2, <2>3
    <2>5. \A token : Judgement(client, token)' = Judgement(client, token)
        BY <2>2 DEF Judgement, Keys
    <2> QED BY <2>2, <2>4, <2>5 DEF Promised
<1>4. CASE \E n \in Ids : Judge(n)
    <2>1. PICK n \in Ids : Judge(n)
        BY <1>4
    <2>2. PICK last \in Nat : last = Len(judged) + 1
        BY JudgedFacts
    <2>3. PICK judgedClient : judgedClient = calls[n].clientId
        OBVIOUS
    <2>4. /\ DOMAIN judged = 1 .. Len(judged) /\ Len(judged) \in Nat
          /\ DOMAIN judged' = DOMAIN judged \cup {last} /\ Len(judged') = last
          /\ \A i \in DOMAIN judged : judged'[i] = judged[i]
          /\ judged'[last].call = n /\ judged'[last].clientId = judgedClient
          /\ active' = active /\ now' = now
        BY <2>1, <2>2, <2>3, JudgeKeeps
    <2>5. /\ \A l : l = calls'[n].answer.body.remaining => Promised(judgedClient, l)'
          /\ \A c : c # judgedClient => Keys(c)' = Keys(c)
        BY <2>1, <2>2, <2>3, JudgesTruly
    <2>6. CASE j = last
        BY <1>1, <2>4, <2>5, <2>6
    <2>7. CASE j \in DOMAIN judged
        <3>1. Current(j)
            BY <1>1, <2>4, <2>7 DEF Current
        <3>2. last \in j + 1 .. Len(judged')
            BY <2>2, <2>4, <2>7
        <3>3. client # judgedClient
            BY <1>1, <2>4, <3>2 DEF Latest
        <3>4. Latest(j)
            <4>1. \A k \in j + 1 .. Len(judged) : k \in DOMAIN judged /\ k \in j + 1 .. Len(judged')
                BY <2>2, <2>4, <2>7
            <4> QED BY <1>1, <2>4, <2>7, <4>1 DEF Latest
        <3>5. Promised(client, left)
            BY <1>2, <2>7, <3>1, <3>4
        <3>6. \A token : Judgement(client, token)' = Judgement(client, token)
            BY <2>4, <2>5, <3>3 DEF Judgement
        <3> QED BY <2>4, <3>5, <3>6 DEF Promised
    <2> QED BY <1>1, <2>4, <2>6, <2>7
<1> QED BY <1>3, <1>4, Kinds

LEMMA LevelsNext ==
    ASSUME Types, History, Levels, [Next]_vars
    PROVE  Levels'
<1>1. SUFFICES ASSUME NEW j \in DOMAIN judged', IsWhole(j)', Current(j)',
                      judged'[j].algorithm \in Charted,
                      NEW client, client = judged'[j].clientId
               PROVE  FigureOf(j)' <= Level(active'.algorithm, Keys(client)', now')
    BY DEF Levels, Keys
<1>2. ASSUME j \in DOMAIN judged, Current(j)
      PROVE  /\ client = judged[j].clientId /\ judged[j].algorithm \in Charted
             /\ judged[j].algorithm = active.algorithm
             /\ FigureOf(j)' = FigureOf(j) /\ FigureOf(j) \in Int
             /\ FigureOf(j) <= Level(active.algorithm, Keys(client), now)
    <2>1. /\ judged'[j] = judged[j] /\ IsWhole(j)
          /\ FigureOf(j)' = FigureOf(j)
        BY <1>1, <1>2, WholeBefore
    <2>2. client = judged[j].clientId /\ judged[j].algorithm \in Charted
        BY <1>1, <2>1
    <2>3. FigureOf(j) \in Int
        BY <1>2, <2>1, <2>2, FigureType
    <2>4. judged[j].algorithm = active.algorithm
        BY <1>2 DEF Current, History
    <2>5. FigureOf(j) <= Level(active.algorithm, Keys(judged[j].clientId), now)
        BY <1>2, <2>1, <2>2 DEF Levels
    <2> QED BY <2>1, <2>2, <2>3, <2>4, <2>5
<1>3. CASE Steady /\ (UNCHANGED <<active, store, now>> \/ Activate \/ Tick)
    <2>1. judged' = judged
        BY <1>3 DEF Steady
    <2>2. UNCHANGED <<active, store, now>> /\ Current(j)
        BY <1>1, <1>3, <2>1, Lasting
    <2>3. Keys(client)' = Keys(client)
        BY <2>2 DEF Keys
    <2> QED BY <1>2, <2>1, <2>2, <2>3
<1>4. CASE \E n \in Ids : Judge(n)
    <2>1. PICK n \in Ids : Judge(n)
        BY <1>4
    <2>2. PICK last \in Nat : last = Len(judged) + 1
        BY JudgedFacts
    <2>3. PICK judgedClient : judgedClient = calls[n].clientId
        OBVIOUS
    <2>4. /\ DOMAIN judged' = DOMAIN judged \cup {last}
          /\ \A i \in DOMAIN judged : judged'[i] = judged[i]
          /\ judged'[last].clientId = judgedClient
          /\ judged'[last].algorithm = active.algorithm
          /\ active' = active /\ now' = now
        BY <2>1, <2>2, <2>3, JudgeKeeps
    <2>5. /\ \A c : c # judgedClient => Keys(c)' = Keys(c)
          /\ \A c : AreKeys(Keys(c)) /\ AreKeys(Keys(c)')
          /\ active.algorithm \in Charted =>
                /\ FigureOf(last)' \in Int
                /\ Level(active.algorithm, Keys(judgedClient), now) <= FigureOf(last)'
                /\ FigureOf(last)' = Level(active.algorithm, Keys(judgedClient)', now)
        BY <2>1, <2>2, <2>3, JudgesTruly
    <2>6. CASE j = last
        BY <1>1, <2>4, <2>5, <2>6
    <2>7. CASE j \in DOMAIN judged
        <3>1. Current(j)
            BY <1>1, <2>4, <2>7 DEF Current
        <3>2. CASE client # judgedClient
            BY <1>2, <2>4, <2>5, <2>7, <3>1, <3>2
        <3>3. CASE client = judgedClient
            <4>1. active.algorithm \in Charted
                BY <1>2, <2>7, <3>1
            <4>2. Level(active.algorithm, Keys(client), now) \in Int
                <5>1. now \in Int /\ AreKeys(Keys(client))
                    BY <2>5 DEF Types
                <5> QED BY <4>1, <5>1, LevelType
            <4> QED BY <1>2, <2>4, <2>5, <2>7, <3>1, <3>3, <4>1, <4>2
        <3> QED BY <3>2, <3>3
    <2> QED BY <2>4, <2>6, <2>7
<1> QED BY <1>3, <1>4, Kinds

LEMMA NoFallNext ==
    ASSUME Types, History, Levels, NoFall, [Next]_vars
    PROVE  NoFall'
<1>1. SUFFICES ASSUME NEW j \in DOMAIN judged', NEW k \in DOMAIN judged', j < k,
                      IsWhole(j)', IsWhole(k)',
                      judged'[j].clientId = judged'[k].clientId,
                      judged'[j].epoch = judged'[k].epoch, judged'[j].at = judged'[k].at,
                      judged'[j].algorithm \in Charted
               PROVE  FigureOf(j)' <= FigureOf(k)'
    BY DEF NoFall
<1>2. CASE j \in DOMAIN judged /\ k \in DOMAIN judged
    <2>1. /\ judged'[j] = judged[j] /\ IsWhole(j) /\ FigureOf(j)' = FigureOf(j)
          /\ judged'[k] = judged[k] /\ IsWhole(k) /\ FigureOf(k)' = FigureOf(k)
        BY <1>1, <1>2, WholeBefore
    <2> QED BY <1>1, <1>2, <2>1 DEF NoFall
<1>3. CASE Steady
    BY <1>2, <1>3 DEF Steady
<1>4. CASE \E n \in Ids : Judge(n)
    <2>1. PICK n \in Ids : Judge(n)
        BY <1>4
    <2>2. PICK last \in Nat : last = Len(judged) + 1
        BY JudgedFacts
    <2>3. PICK client : client = calls[n].clientId
        OBVIOUS
    <2>4. /\ DOMAIN judged = 1 .. Len(judged) /\ Len(judged) \in Nat
          /\ DOMAIN judged' = DOMAIN judged \cup {last}
          /\ \A i \in DOMAIN judged : judged'[i] = judged[i] /\ ~ last < i
          /\ judged'[last].clientId = client /\ judged'[last].algorithm = active.algorithm
          /\ judged'[last].epoch = active.epoch /\ judged'[last].at = now
        BY <2>1, <2>2, <2>3, JudgeKeeps
    <2>5. /\ AreKeys(Keys(client))
          /\ active.algorithm \in Charted =>
                /\ FigureOf(last)' \in Int
                /\ Level(active.algorithm, Keys(client), now) <= FigureOf(last)'
        BY <2>1, <2>2, <2>3, JudgesTruly
    <2>6. CASE j \in DOMAIN judged /\ k = last
        <3>1. /\ judged'[j] = judged[j] /\ IsWhole(j) /\ FigureOf(j)' = FigureOf(j)
            BY <1>1, <2>6, WholeBefore
        <3>2. Current(j) /\ judged[j].algorithm \in Charted /\ judged[j].clientId = client
            BY <1>1, <2>4, <2>6, <3>1 DEF Current
        <3>3. judged[j].algorithm = active.algorithm
            BY <2>6, <3>2 DEF Current, History
        <3>4. FigureOf(j) \in Int
            BY <2>6, <3>1, <3>2, FigureType
        <3>5. FigureOf(j) <= Level(active.algorithm, Keys(client), now)
            BY <2>6, <3>1, <3>2 DEF Levels
        <3>6. Level(active.algorithm, Keys(client), now) \in Int
            <4>1. now \in Int
                BY DEF Types
            <4> QED BY <2>5, <3>2, <3>3, <4>1, LevelType
        <3> QED BY <2>5, <2>6, <3>1, <3>2, <3>3, <3>4, <3>5, <3>6
    <2>7. j # last
        BY <1>1, <2>2, <2>4
    <2> QED BY <1>2, <2>4, <2>6, <2>7
<1> QED BY <1>3, <1>4, StepsAreSteady

-----------------------------------------------------------------------------
(***************************************************************************)
(* The invariant, and what follows from it.                                *)
(***************************************************************************)

LEMMA InitInv ==
    ASSUME Init
    PROVE  IInv
<1>1. /\ calls = <<>> /\ events = <<>> /\ judged = <<>> /\ arrived = <<>> /\ now = 0
      /\ store = [clientId \in {} |-> NoKeys] /\ active = [algorithm |-> page, epoch |-> 0]
      /\ page \in PageNames /\ config \in Forms /\ mounted = TRUE /\ dispatchSequence = 0
    BY DEF Init
<1>2. /\ DOMAIN calls = {} /\ DOMAIN events = {} /\ DOMAIN judged = {} /\ DOMAIN arrived = {}
      /\ Len(events) = 0 /\ Len(arrived) = 0
    BY <1>1
<1>3. Types
    BY <1>1 DEF Types
<1>4. History /\ Unjudged /\ Arrivals /\ Shown /\ Promises /\ Levels /\ NoFall
    BY <1>2 DEF History, Unjudged, Arrivals, Shown, Promises, Levels, NoFall, Ids
<1>5. ListInv
    BY <1>2, CapAssumption DEF ListInv
<1> QED BY <1>3, <1>4, <1>5 DEF IInv

LEMMA NextInv ==
    ASSUME IInv, [Next]_vars
    PROVE  IInv'
<1>1. Types /\ History /\ Unjudged /\ Arrivals /\ ListInv /\ Shown /\ Promises /\ Levels /\ NoFall
    BY DEF IInv
<1>2. Types'
    <2>1. arrived' \in Seq(Int) /\ events' \in Seq(Events)
        BY <1>1, ArrivalsNext, ListNext
    <2>2. page' \in PageNames /\ config' \in Forms
        BY <1>1, MostTypesNext DEF Types
    <2> QED BY <1>1, <2>1, <2>2, MostTypesNext DEF Types
<1>3. History' /\ Unjudged' /\ Arrivals'
    BY <1>1, HistoryNext, UnjudgedNext, ArrivalsNext
<1>4. ListInv' /\ Shown'
    BY <1>1, ListNext
<1>5. Promises' /\ Levels' /\ NoFall'
    BY <1>1, PromisesNext, LevelsNext, NoFallNext
<1> QED BY <1>2, <1>3, <1>4, <1>5 DEF IInv

\* The invariant holds of every run.
THEOREM Invariant == Spec => []IInv
<1>1. Init => IInv
    BY InitInv
<1>2. IInv /\ [Next]_vars => IInv'
    BY NextInv
<1> QED BY <1>1, <1>2, PTL DEF Spec

\* Nothing is lost, repeated or out of place on the way into a page's list of
\* events, whatever the capacity of the list, the number of requests in flight
\* and the order of their answers (appendEvent, handleReset).
THEOREM EventsAreAccounted == Spec => []EventsAccounted
<1>1. IInv => EventsAccounted
    <2> SUFFICES ASSUME IInv
                 PROVE  EventsAccounted
        OBVIOUS
    <2>1. Types /\ Arrivals /\ ListInv
        BY DEF IInv
    <2> DEFINE dropped == Len(arrived) - Len(events)
    <2>2. ASSUME NEW i \in DOMAIN events
          PROVE  /\ events[i].id = arrived[dropped + i] /\ dropped + i \in DOMAIN arrived
                 /\ i \in Int /\ dropped \in Int
        BY <2>1, Arrived
    <2>3. ASSUME NEW i \in DOMAIN events
          PROVE  CallOf(events[i].id) \notin Open
        BY <2>1, <2>2 DEF Arrivals
    <2>4. ASSUME NEW i \in DOMAIN events, NEW k \in DOMAIN events, events[k].id = events[i].id
          PROVE  k = i
        <3>1. dropped + k = dropped + i
            BY <2>1, <2>2, <2>4 DEF Arrivals
        <3>2. i \in Int /\ k \in Int /\ dropped \in Int
            BY <2>2
        <3> HIDE DEF dropped
        <3> QED BY <3>1, <3>2
    <2> QED BY <2>1, <2>2, <2>3, <2>4 DEF EventsAccounted, ListInv
<1> QED BY <1>1, Invariant, PTL

\* The judgement of a decision that is shown.
LEMMA DecisionFacts ==
    ASSUME Types, History, NEW event, IsShown(event), IsDecision(event)
    PROVE  LET j == JudgementOf(event)
               n == CallOf(event.id)
           IN /\ j \in DOMAIN judged /\ judged[j].call = n
              /\ Judgements(n) # {} /\ calls[n].outcome = "answered"
              /\ calls[n].answer.kind = "http"
              /\ IsWhole(j) /\ Matches(AnswerOf(j), judged[j])
              /\ Says(event.decision, AnswerOf(j).body, judged[j].clientId)
              /\ event.issues = <<>> <=> judged[j].algorithm = page
              /\ judged[j].algorithm = page =>
                    OwnFigure(page, event.decision.algorithmState, AnswerOf(j).body.algorithm_state)
<1> DEFINE n == CallOf(event.id)
           j == JudgementOf(event)
<1>1. /\ calls[n].outcome = "answered" /\ calls[n].answer.kind = "http"
      /\ \E i \in Judgements(n) :
            /\ Says(event.decision, calls[n].answer.body, calls[n].clientId)
            /\ event.issues = <<>> <=> judged[i].algorithm = page
            /\ judged[i].algorithm = page =>
                  OwnFigure(page, event.decision.algorithmState,
                            calls[n].answer.body.algorithm_state)
    BY DEF IsShown, IsDecision
<1>2. PICK i \in Judgements(n) :
            /\ Says(event.decision, calls[n].answer.body, calls[n].clientId)
            /\ event.issues = <<>> <=> judged[i].algorithm = page
            /\ judged[i].algorithm = page =>
                  OwnFigure(page, event.decision.algorithmState,
                            calls[n].answer.body.algorithm_state)
    BY <1>1
<1>3. \A k \in Judgements(n) : k = i
    BY DEF Judgements, History
<1>4. j = i
    BY <1>3 DEF JudgementOf
<1>5. i \in DOMAIN judged /\ judged[i].call = n /\ AnswerOf(i) = calls[n].answer
    BY DEF Judgements, AnswerOf
<1>6. IsWhole(i)
    BY <1>1, <1>5 DEF IsWhole
<1>7. Matches(AnswerOf(i), judged[i]) /\ judged[i].clientId = calls[n].clientId
    BY <1>5, <1>6 DEF History
<1> HIDE DEF n, j
<1> QED BY <1>1, <1>2, <1>4, <1>5, <1>6, <1>7 DEF n, j

\* The encoders of the gateway and the decoders of the pages agree, whatever
\* the params, the forms and the order of the answers: a page shows a decision
\* exactly for what was judged and came whole, shows what was judged, and warns
\* exactly of what another algorithm judged (mapDecision, parseSimulateResult).
THEOREM IssuesAreExplained == Spec => []IssuesExplained
<1>1. IInv => IssuesExplained
    <2> SUFFICES ASSUME IInv
                 PROVE  IssuesExplained
        OBVIOUS
    <2>1. Types /\ History /\ Shown
        BY DEF IInv
    <2> SUFFICES ASSUME NEW i \in DOMAIN events
                 PROVE  LET n == CallOf(events[i].id) IN
                        /\ IsDecision(events[i]) <=> /\ calls[n].outcome = "answered"
                                                     /\ calls[n].answer.kind = "http"
                                                     /\ Judgements(n) # {}
                        /\ IF IsDecision(events[i])
                           THEN LET j == judged[JudgementOf(events[i])] IN
                                /\ events[i].decision.allowed = j.allowed
                                /\ events[i].decision.clientId = j.clientId
                                /\ events[i].issues = <<>> <=> j.algorithm = page
                           ELSE events[i].issues = <<"request_error">>
        BY DEF IssuesExplained
    <2> DEFINE event == events[i]
               j == JudgementOf(event)
               n == CallOf(event.id)
    <2>2. IsShown(event)
        BY <2>1 DEF Shown
    <2>3. CASE IsDecision(event)
        <3>1. /\ Judgements(n) # {} /\ calls[n].outcome = "answered"
              /\ calls[n].answer.kind = "http"
              /\ Matches(AnswerOf(j), judged[j])
              /\ Says(event.decision, AnswerOf(j).body, judged[j].clientId)
              /\ event.issues = <<>> <=> judged[j].algorithm = page
            BY <2>1, <2>2, <2>3, DecisionFacts
        <3>2. event.decision.allowed = judged[j].allowed
              /\ event.decision.clientId = judged[j].clientId
            BY <3>1 DEF Matches, Says
        <3> QED BY <2>3, <3>1, <3>2
    <2>4. CASE ~ IsDecision(event)
        BY <2>2, <2>4 DEF IsShown
    <2> QED BY <2>3, <2>4
<1> QED BY <1>1, Invariant, PTL

-----------------------------------------------------------------------------
(***************************************************************************)
(* What a page draws and promises.                                         *)
(***************************************************************************)

\* What is kept of a list are elements of it, at the indexes given.
LEMMA KeptOnes ==
    ASSUME NEW S, NEW list \in Seq(S), NEW I, I \subseteq DOMAIN list
    PROVE  LET kept == Kept(list, I) IN
           /\ kept \in Seq(S) /\ DOMAIN kept = 1 .. Len(kept) /\ Len(kept) \in Nat
           /\ Len(kept) = Cardinality(I)
           /\ \A k \in DOMAIN kept : \E i \in I : kept[k] = list[i]
<1> DEFINE kept == Kept(list, I)
           size == Cardinality(I)
<1>1. DOMAIN list = 1 .. Len(list) /\ Len(list) \in Nat
    BY LenProperties
<1>2. IsFiniteSet(I) /\ I \subseteq Int
    <2>1. IsFiniteSet(1 .. Len(list))
        BY <1>1, FS_Interval
    <2> QED BY <1>1, <2>1, FS_Subset
<1>3. size \in Nat
    BY <1>2, FS_CardinalityType
<1>4. \A k \in 1 .. size : Ascending(I)[k] \in I
    BY <1>2, Ranked
<1>5. kept = [k \in 1 .. size |-> list[Ascending(I)[k]]]
    BY DEF Kept
<1> HIDE DEF kept, size
<1>6. \A k \in 1 .. size : \E i \in I : kept[k] = list[i]
    BY <1>4, <1>5
<1>7. \A i \in I : list[i] \in S
    BY <1>1, ElementOfSeq
<1>8. kept \in Seq(S)
    <2>1. kept \in [1 .. size -> S]
        BY <1>4, <1>5, <1>7
    <2> QED BY <1>3, <2>1, SeqDef
<1>9. DOMAIN kept = 1 .. size
    BY <1>5
<1>10. DOMAIN kept = 1 .. Len(kept) /\ Len(kept) \in Nat
    BY <1>8, LenProperties
<1>11. Len(kept) = size
    BY <1>3, <1>9, <1>10
<1> QED BY <1>6, <1>8, <1>9, <1>10, <1>11 DEF kept, size

LEMMA Points ==
    ASSUME NEW list \in Seq(Events)
    PROVE  LET points == WithState(list) IN
           /\ Len(points) \in Nat /\ DOMAIN points = 1 .. Len(points)
           /\ \A k \in DOMAIN points : \E i \in DOMAIN list :
                points[k] = list[i] /\ IsDecision(points[k])
<1> DEFINE I == {i \in DOMAIN list :
                    IsDecision(list[i]) /\ list[i].decision.algorithmState # null}
           kept == Kept(list, I)
<1>1. I \subseteq DOMAIN list /\ \A i \in I : IsDecision(list[i])
    OBVIOUS
<1>2. WithState(list) = kept
    BY DEF WithState
<1> HIDE DEF I
<1>3. /\ DOMAIN kept = 1 .. Len(kept) /\ Len(kept) \in Nat
      /\ \A k \in DOMAIN kept : \E i \in I : kept[k] = list[i]
    BY <1>1, KeptOnes
<1> HIDE DEF kept
<1> QED BY <1>1, <1>2, <1>3

LEMMA Decisive ==
    ASSUME NEW list \in Seq(Events), Decided(list) # <<>>
    PROVE  /\ list # <<>>
           /\ \E i \in DOMAIN list : Last(Decided(list)) = list[i] /\ IsDecision(list[i])
<1> DEFINE I == {i \in DOMAIN list : IsDecision(list[i])}
           kept == Kept(list, I)
<1>1. I \subseteq DOMAIN list /\ \A i \in I : IsDecision(list[i])
    OBVIOUS
<1>2. Decided(list) = kept
    BY DEF Decided
<1> HIDE DEF I
<1>3. /\ kept \in Seq(Events) /\ DOMAIN kept = 1 .. Len(kept) /\ Len(kept) \in Nat
      /\ \A k \in DOMAIN kept : \E i \in I : kept[k] = list[i]
    BY <1>1, KeptOnes
<1>4. kept # <<>>
    BY <1>2
<1> HIDE DEF kept
<1>5. Len(kept) > 0
    BY <1>3, <1>4, EmptySeq
<1>6. PICK i \in I : kept[Len(kept)] = list[i]
    BY <1>3, <1>5
<1>7. list # <<>>
    BY <1>1, <1>6
<1> QED BY <1>1, <1>2, <1>6, <1>7 DEF Last

LEMMA SlidingLogMarkers ==
    ASSUME NEW list, NEW form,
           NEW i \in Markers("sliding_log", Dashboard("sliding_log", list, form, FALSE))
    PROVE  LET points == WithState(list) IN
           /\ i \in 2 .. Len(points)
           /\ points[i].decision.algorithmState.count < points[i - 1].decision.algorithmState.count
<1> DEFINE view == SL!SlidingLogDashboard(list, form, FALSE)
<1>1. Dashboard("sliding_log", list, form, FALSE) = view
    BY DEF Dashboard
<1>2. \A v : Markers("sliding_log", v) = v.chart.expiryPoints
    BY DEF Markers
<1>3. SL!WithState(list) = WithState(list)
    BY DEF SL!WithState, SL!Kept, SL!Ascending, SL!IsDecision, SL!Cardinality,
           WithState, Kept, Ascending, IsDecision, Cardinality
<1>4. view.chart.expiryPoints = SL!WindowOccupancyChart(list, form).expiryPoints
    BY DEF SL!SlidingLogDashboard
<1>5. SL!WindowOccupancyChart(list, form).expiryPoints
        = {k \in 2 .. Len(WithState(list)) :
            WithState(list)[k].decision.algorithmState.count
                < WithState(list)[k - 1].decision.algorithmState.count}
    BY <1>3 DEF SL!WindowOccupancyChart, SL!Shifts, SL!Fell
<1> HIDE DEF view
<1>6. i \in {k \in 2 .. Len(WithState(list)) :
            WithState(list)[k].decision.algorithmState.count
                < WithState(list)[k - 1].decision.algorithmState.count}
    BY <1>1, <1>2, <1>4, <1>5
<1> QED BY <1>6

LEMMA TokenBucketMarkers ==
    ASSUME NEW list, NEW form,
           NEW i \in Markers("token_bucket", Dashboard("token_bucket", list, form, FALSE))
    PROVE  LET points == WithState(list) IN
           /\ i \in 2 .. Len(points)
           /\ points[i].decision.algorithmState.tokens
                > points[i - 1].decision.algorithmState.tokens
<1> DEFINE view == TB!TokenBucketDashboard(list, form, FALSE)
<1>1. Dashboard("token_bucket", list, form, FALSE) = view
    BY DEF Dashboard
<1>2. \A v : Markers("token_bucket", v) = v.chart.refillPoints
    BY DEF Markers
<1>3. TB!WithState(list) = WithState(list)
    BY DEF TB!WithState, TB!Kept, TB!Ascending, TB!IsDecision, TB!Cardinality,
           WithState, Kept, Ascending, IsDecision, Cardinality
<1>4. view.chart.refillPoints = TB!TokensOverTimeChart(list).refillPoints
    BY DEF TB!TokenBucketDashboard
<1>5. TB!TokensOverTimeChart(list).refillPoints
        = {k \in 2 .. Len(WithState(list)) :
            WithState(list)[k].decision.algorithmState.tokens
                > WithState(list)[k - 1].decision.algorithmState.tokens}
    BY <1>3 DEF TB!TokensOverTimeChart, TB!Shifts, TB!Rose
<1> HIDE DEF view
<1>6. i \in {k \in 2 .. Len(WithState(list)) :
            WithState(list)[k].decision.algorithmState.tokens
                > WithState(list)[k - 1].decision.algorithmState.tokens}
    BY <1>1, <1>2, <1>4, <1>5
<1> QED BY <1>6

LEMMA LeakyBucketMarkers ==
    ASSUME NEW list, NEW form,
           NEW i \in Markers("leaky_bucket", Dashboard("leaky_bucket", list, form, FALSE))
    PROVE  LET points == WithState(list) IN
           /\ i \in 2 .. Len(points)
           /\ points[i].decision.algorithmState.waterLevel
                < points[i - 1].decision.algorithmState.waterLevel
<1> DEFINE view == LB!LeakyBucketDashboard(list, form, FALSE)
<1>1. Dashboard("leaky_bucket", list, form, FALSE) = view
    BY DEF Dashboard
<1>2. \A v : Markers("leaky_bucket", v) = v.chart.leakShiftPoints
    BY DEF Markers
<1>3. LB!WithState(list) = WithState(list)
    BY DEF LB!WithState, LB!Kept, LB!Ascending, LB!IsDecision, LB!Cardinality,
           WithState, Kept, Ascending, IsDecision, Cardinality
<1>4. view.chart.leakShiftPoints = LB!WaterLevelChart(list).leakShiftPoints
    BY DEF LB!LeakyBucketDashboard
<1>5. LB!WaterLevelChart(list).leakShiftPoints
        = {k \in 2 .. Len(WithState(list)) :
            WithState(list)[k].decision.algorithmState.waterLevel
                < WithState(list)[k - 1].decision.algorithmState.waterLevel}
    BY <1>3 DEF LB!WaterLevelChart, LB!Shifts, LB!Fell
<1> HIDE DEF view
<1>6. i \in {k \in 2 .. Len(WithState(list)) :
            WithState(list)[k].decision.algorithmState.waterLevel
                < WithState(list)[k - 1].decision.algorithmState.waterLevel}
    BY <1>1, <1>2, <1>4, <1>5
<1> QED BY <1>6

LEMMA FixedWindowBudget ==
    ASSUME NEW list \in Seq(Events), NEW form, Decided(list) # <<>>,
           NEW d, d = Last(Decided(list)).decision, d # null,
           "remaining" \in DOMAIN d, d.remaining \in Int
    PROVE  Budget("fixed_window", Dashboard("fixed_window", list, form, FALSE)) = d.remaining
<1> DEFINE view == FW!FixedWindowDashboard(list, form, FALSE)
<1>1. Dashboard("fixed_window", list, form, FALSE) = view
    BY DEF Dashboard
<1>2. \A v : Budget("fixed_window", v) = v.kpi.currentRemaining
    BY DEF Budget
<1>3. FW!Decided(list) = Decided(list)
    BY DEF FW!Decided, FW!Kept, FW!Ascending, FW!IsDecision, FW!Cardinality,
           Decided, Kept, Ascending, IsDecision, Cardinality
<1>4. view.kpi = FW!deriveKpi(list, form)
    BY Decisive DEF FW!FixedWindowDashboard, FW!kpi
<1>5. FW!deriveBaseKpiStats(list).latestDecision = d
    BY <1>3 DEF FW!deriveBaseKpiStats, FW!LatestOf, FW!Last, Last
<1>6. FW!Field(d, "remaining") = d.remaining /\ d.remaining # null
    BY NullIsNothing DEF FW!Field, FW!isRecord
<1>7. FW!deriveKpi(list, form).currentRemaining = d.remaining
    BY <1>5, <1>6 DEF FW!deriveKpi
<1> HIDE DEF view
<1> QED BY <1>1, <1>2, <1>4, <1>7

LEMMA SlidingLogBudget ==
    ASSUME NEW list \in Seq(Events), NEW form, Decided(list) # <<>>,
           NEW d, d = Last(Decided(list)).decision, d # null,
           "remaining" \in DOMAIN d, d.remaining \in Int
    PROVE  Budget("sliding_log", Dashboard("sliding_log", list, form, FALSE)) = d.remaining
<1> DEFINE view == SL!SlidingLogDashboard(list, form, FALSE)
<1>1. Dashboard("sliding_log", list, form, FALSE) = view
    BY DEF Dashboard
<1>2. \A v : Budget("sliding_log", v) = v.kpi.currentRemaining
    BY DEF Budget
<1>3. SL!Decided(list) = Decided(list)
    BY DEF SL!Decided, SL!Kept, SL!Ascending, SL!IsDecision, SL!Cardinality,
           Decided, Kept, Ascending, IsDecision, Cardinality
<1>4. view.kpi = SL!deriveKpi(list, form)
    BY Decisive DEF SL!SlidingLogDashboard, SL!kpi
<1>5. SL!deriveBaseKpiStats(list).latestDecision = d
    BY <1>3 DEF SL!deriveBaseKpiStats, SL!LatestOf, SL!Last, Last
<1>6. SL!Field(d, "remaining") = d.remaining /\ d.remaining # null
    BY NullIsNothing DEF SL!Field, SL!isRecord
<1>7. SL!deriveKpi(list, form).currentRemaining = d.remaining
    BY <1>5, <1>6 DEF SL!deriveKpi
<1> HIDE DEF view
<1> QED BY <1>1, <1>2, <1>4, <1>7

LEMMA SlidingWindowCounterBudget ==
    ASSUME NEW list \in Seq(Events), NEW form, Decided(list) # <<>>,
           NEW d, d = Last(Decided(list)).decision, d # null,
           "remaining" \in DOMAIN d, d.remaining \in Int
    PROVE  Budget("sliding_window_counter",
                  Dashboard("sliding_window_counter", list, form, FALSE)) = d.remaining
<1> DEFINE view == SWC!SlidingWindowCounterDashboard(list, form, FALSE)
<1>1. Dashboard("sliding_window_counter", list, form, FALSE) = view
    BY DEF Dashboard
<1>2. \A v : Budget("sliding_window_counter", v) = v.kpi.currentRemaining
    BY DEF Budget
<1>3. SWC!Decided(list) = Decided(list)
    BY DEF SWC!Decided, SWC!Kept, SWC!Ascending, SWC!IsDecision, SWC!Cardinality,
           Decided, Kept, Ascending, IsDecision, Cardinality
<1>4. view.kpi = SWC!deriveKpi(list, form)
    BY Decisive DEF SWC!SlidingWindowCounterDashboard, SWC!kpi
<1>5. SWC!deriveBaseKpiStats(list).latestDecision = d
    BY <1>3 DEF SWC!deriveBaseKpiStats, SWC!LatestOf, SWC!Last, Last
<1>6. SWC!Field(d, "remaining") = d.remaining /\ d.remaining # null
    BY NullIsNothing DEF SWC!Field, SWC!isRecord
<1>7. SWC!deriveKpi(list, form).currentRemaining = d.remaining
    BY <1>5, <1>6 DEF SWC!deriveKpi
<1> HIDE DEF view
<1> QED BY <1>1, <1>2, <1>4, <1>7

LEMMA TokenBucketBudget ==
    ASSUME NEW list \in Seq(Events), NEW form, Decided(list) # <<>>,
           NEW d, d = Last(Decided(list)).decision, d # null,
           "remaining" \in DOMAIN d, d.remaining \in Int
    PROVE  Budget("token_bucket", Dashboard("token_bucket", list, form, FALSE)) = d.remaining
<1> DEFINE view == TB!TokenBucketDashboard(list, form, FALSE)
<1>1. Dashboard("token_bucket", list, form, FALSE) = view
    BY DEF Dashboard
<1>2. \A v : Budget("token_bucket", v) = v.kpi.currentRequestBudget
    BY DEF Budget
<1>3. TB!Decided(list) = Decided(list)
    BY DEF TB!Decided, TB!Kept, TB!Ascending, TB!IsDecision, TB!Cardinality,
           Decided, Kept, Ascending, IsDecision, Cardinality
<1>4. view.kpi = TB!deriveKpi(list, form)
    BY Decisive DEF TB!TokenBucketDashboard, TB!kpi
<1>5. TB!deriveBaseKpiStats(list).latestDecision = d
    BY <1>3 DEF TB!deriveBaseKpiStats, TB!LatestOf, TB!Last, Last
<1>6. TB!Field(d, "remaining") = d.remaining /\ d.remaining # null
    BY NullIsNothing DEF TB!Field, TB!isRecord
<1>7. TB!deriveKpi(list, form).currentRequestBudget = d.remaining
    BY <1>5, <1>6 DEF TB!deriveKpi, TB!OrElse
<1> HIDE DEF view
<1> QED BY <1>1, <1>2, <1>4, <1>7

LEMMA LeakyBucketBudget ==
    ASSUME NEW list \in Seq(Events), NEW form, Decided(list) # <<>>,
           NEW d, d = Last(Decided(list)).decision, d # null,
           "remaining" \in DOMAIN d, d.remaining \in Int
    PROVE  Budget("leaky_bucket", Dashboard("leaky_bucket", list, form, FALSE)) = d.remaining
<1> DEFINE view == LB!LeakyBucketDashboard(list, form, FALSE)
<1>1. Dashboard("leaky_bucket", list, form, FALSE) = view
    BY DEF Dashboard
<1>2. \A v : Budget("leaky_bucket", v) = v.kpi.currentHeadroom
    BY DEF Budget
<1>3. LB!Decided(list) = Decided(list)
    BY DEF LB!Decided, LB!Kept, LB!Ascending, LB!IsDecision, LB!Cardinality,
           Decided, Kept, Ascending, IsDecision, Cardinality
<1>4. view.kpi = LB!deriveKpi(list, form)
    BY Decisive DEF LB!LeakyBucketDashboard, LB!kpi
<1>5. LB!deriveBaseKpiStats(list).latestDecision = d
    BY <1>3 DEF LB!deriveBaseKpiStats, LB!LatestOf, LB!Last, Last
<1>6. LB!Field(d, "remaining") = d.remaining /\ d.remaining # null
    BY NullIsNothing DEF LB!Field, LB!isRecord
<1>7. LB!deriveKpi(list, form).currentHeadroom = d.remaining
    BY <1>5, <1>6 DEF LB!deriveKpi, LB!OrElse
<1> HIDE DEF view
<1> QED BY <1>1, <1>2, <1>4, <1>7
\* The figure that a page draws of its own algorithm's decision.
LEMMA Drawn ==
    ASSUME Types, History, NEW event, IsShown(event), IsDecision(event),
           NEW j, j = JudgementOf(event), judged[j].algorithm = page
    PROVE  LET state == event.decision.algorithmState IN
           /\ page = "sliding_log" => state.count \in Int /\ FigureOf(j) = state.count
           /\ page = "token_bucket" => state.tokens \in Int /\ FigureOf(j) = - state.tokens
           /\ page = "leaky_bucket" =>
                 state.waterLevel \in Int /\ FigureOf(j) = state.waterLevel
<1> DEFINE state == event.decision.algorithmState
           raw == AnswerOf(j).body.algorithm_state
<1>1. /\ Matches(AnswerOf(j), judged[j]) /\ OwnFigure(page, state, raw)
      /\ page \in PageNames
    BY DecisionFacts DEF Types
<1>2. raw \in AlgorithmState(page)
    <2>1. AnswerOf(j) \in JudgedAnswers(page)
        BY <1>1 DEF Matches
    <2>2. AnswerOf(j).body \in Body(page)
        BY <2>1 DEF JudgedAnswers
    <2> QED BY <1>1, <2>2, BodyOf
<1>3. FigureOf(j) = Figure(page, raw)
    BY DEF FigureOf
<1> HIDE DEF state, raw
<1>4. CASE page = "sliding_log"
    <2>1. raw.count \in Int
        BY <1>2, <1>4 DEF AlgorithmState
    <2> QED BY <1>1, <1>3, <1>4, <2>1 DEF OwnFigure, Windowed, Figure, state
<1>5. CASE page = "token_bucket"
    <2>1. raw.tokens \in Int
        BY <1>2, <1>5 DEF AlgorithmState
    <2> QED BY <1>1, <1>3, <1>5, <2>1 DEF OwnFigure, Figure, state
<1>6. CASE page = "leaky_bucket"
    <2>1. raw.water_level \in Int
        BY <1>2, <1>6 DEF AlgorithmState
    <2> QED BY <1>1, <1>3, <1>6, <2>1 DEF OwnFigure, Figure, state
<1> QED BY <1>4, <1>5, <1>6 DEF state

\* A chart marks a refill, a leak or an expiry of a client only where time has
\* passed: the limiters never give back within an instant, whatever their
\* params and whatever else happens to the client's keys (derive*Points).
THEOREM MarkersAreSound == Spec => []MarkersSound
<1>1. IInv => MarkersSound
    <2> SUFFICES ASSUME IInv
                 PROVE  MarkersSound
        OBVIOUS
    <2>1. Types /\ History /\ Shown /\ NoFall
        BY DEF IInv
    <2> DEFINE points == WithState(events)
    <2> SUFFICES ASSUME NEW i \in Markers(page, View(FALSE)),
                        NEW p, p = JudgementOf(points[i - 1]),
                        NEW c, c = JudgementOf(points[i]),
                        judged[p].clientId = judged[c].clientId,
                        judged[p].epoch = judged[c].epoch,
                        judged[p].algorithm = page, p < c
                 PROVE  judged[c].at > judged[p].at
        BY DEF MarkersSound
    <2>2. events \in Seq(Events) /\ page \in PageNames
        BY <2>1 DEF Types
    <2>3. /\ Len(points) \in Nat /\ DOMAIN points = 1 .. Len(points)
          /\ \A k \in DOMAIN points : \E n \in DOMAIN events :
                points[k] = events[n] /\ IsDecision(points[k])
        BY <2>2, Points
    <2>4. View(FALSE) = Dashboard(page, events, config, FALSE)
        BY DEF View
    <2> DEFINE before == points[i - 1].decision.algorithmState
               after == points[i].decision.algorithmState
    <2>5. /\ page \in Charted /\ i \in 2 .. Len(points)
          /\ page = "sliding_log" => after.count < before.count
          /\ page = "token_bucket" => after.tokens > before.tokens
          /\ page = "leaky_bucket" => after.waterLevel < before.waterLevel
        <3>1. CASE page = "sliding_log"
            BY <2>4, <3>1, SlidingLogMarkers DEF Charted
        <3>2. CASE page = "token_bucket"
            BY <2>4, <3>2, TokenBucketMarkers DEF Charted
        <3>3. CASE page = "leaky_bucket"
            BY <2>4, <3>3, LeakyBucketMarkers DEF Charted
        <3>4. CASE page \in {"fixed_window", "sliding_window_counter"}
            <4>1. Markers(page, View(FALSE)) = {}
                BY <3>4 DEF Markers
            <4> QED BY <4>1
        <3> QED BY <2>2, <3>1, <3>2, <3>3, <3>4 DEF PageNames
    <2>6. i \in DOMAIN points /\ i - 1 \in DOMAIN points
        BY <2>3, <2>5
    <2> HIDE DEF points
    <2>7. /\ IsShown(points[i]) /\ IsDecision(points[i])
          /\ IsShown(points[i - 1]) /\ IsDecision(points[i - 1])
        BY <2>1, <2>3, <2>6 DEF Shown
    <2>8. /\ p \in DOMAIN judged /\ c \in DOMAIN judged /\ IsWhole(p) /\ IsWhole(c)
        BY <2>1, <2>7, DecisionFacts
    <2>9. judged[c].algorithm = page
        BY <2>1, <2>8 DEF History
    <2>10. FigureOf(c) < FigureOf(p) /\ FigureOf(c) \in Int /\ FigureOf(p) \in Int
        <3>1. /\ page = "sliding_log" => before.count \in Int /\ FigureOf(p) = before.count
              /\ page = "token_bucket" => before.tokens \in Int /\ FigureOf(p) = - before.tokens
              /\ page = "leaky_bucket" =>
                    before.waterLevel \in Int /\ FigureOf(p) = before.waterLevel
            BY <2>1, <2>7, Drawn
        <3>2. /\ page = "sliding_log" => after.count \in Int /\ FigureOf(c) = after.count
              /\ page = "token_bucket" => after.tokens \in Int /\ FigureOf(c) = - after.tokens
              /\ page = "leaky_bucket" =>
                    after.waterLevel \in Int /\ FigureOf(c) = after.waterLevel
            BY <2>1, <2>7, <2>9, Drawn
        <3> HIDE DEF before, after
        <3> QED BY <2>5, <3>1, <3>2 DEF Charted
    <2>11. judged[p].at # judged[c].at
        <3> SUFFICES ASSUME judged[p].at = judged[c].at PROVE FALSE
            OBVIOUS
        <3>1. FigureOf(p) <= FigureOf(c)
            BY <2>1, <2>5, <2>8 DEF NoFall
        <3> QED BY <2>10, <3>1
    <2>12. judged[p].at <= judged[c].at
        BY <2>1, <2>8 DEF History
    <2>13. judged[p].at \in Int /\ judged[c].at \in Int
        BY <2>1, <2>8, JudgedFacts
    <2> QED BY <2>11, <2>12, <2>13
<1> QED BY <1>1, Invariant, PTL

LEMMA Budgets ==
    ASSUME NEW p \in PageNames, NEW list \in Seq(Events), NEW form, Decided(list) # <<>>,
           NEW d, d = Last(Decided(list)).decision, d # null,
           "remaining" \in DOMAIN d, d.remaining \in Int
    PROVE  Budget(p, Dashboard(p, list, form, FALSE)) = d.remaining
<1>1. CASE p = "fixed_window"
    BY <1>1, FixedWindowBudget
<1>2. CASE p = "sliding_log"
    BY <1>2, SlidingLogBudget
<1>3. CASE p = "sliding_window_counter"
    BY <1>3, SlidingWindowCounterBudget
<1>4. CASE p = "token_bucket"
    BY <1>4, TokenBucketBudget
<1>5. CASE p = "leaky_bucket"
    BY <1>5, LeakyBucketBudget
<1> QED BY <1>1, <1>2, <1>3, <1>4, <1>5 DEF PageNames

\* When the last answer shown is the last word that client has had, the cards
\* promise what the gateway would do at that instant, whatever the params; the
\* sliding window counter never promises too little (deriveKpi).
THEOREM BudgetIsHonest == Spec => []BudgetHonest
<1>1. IInv => BudgetHonest
    <2> SUFFICES ASSUME IInv
                 PROVE  BudgetHonest
        OBVIOUS
    <2>1. Types /\ History /\ Shown /\ Promises
        BY DEF IInv
    <2> DEFINE event == Last(Decided(events))
               last == JudgementOf(event)
               left == Budget(page, View(FALSE))
               token == RequestId(Len(calls) + 1)
               isAllowed == Judgement(judged[last].clientId, token).decision.allowed
    <2> SUFFICES ASSUME Decided(events) # <<>>,
                        judged[last].at = now, judged[last].epoch = active.epoch,
                        active.algorithm = page,
                        \A j \in last + 1 .. Len(judged) :
                            judged[j].clientId # judged[last].clientId
                 PROVE  /\ isAllowed => left > 0
                        /\ left > 0 /\ page \notin {"sliding_window_counter", "leaky_bucket"}
                             => isAllowed
        BY DEF BudgetHonest
    <2>2. events \in Seq(Events) /\ page \in PageNames
        BY <2>1 DEF Types
    <2>3. PICK i \in DOMAIN events : event = events[i] /\ IsDecision(events[i])
        BY <2>2, Decisive
    <2>4. IsShown(event) /\ IsDecision(event)
        BY <2>1, <2>3 DEF Shown
    <2> HIDE DEF event
    <2>5. /\ last \in DOMAIN judged /\ IsWhole(last)
          /\ Matches(AnswerOf(last), judged[last])
          /\ Says(event.decision, AnswerOf(last).body, judged[last].clientId)
        BY <2>1, <2>4, DecisionFacts
    <2> DEFINE remaining == AnswerOf(last).body.remaining
    <2>6. Promised(judged[last].clientId, remaining)
        <3>1. Current(last) /\ Latest(last)
            BY DEF Current, Latest
        <3> QED BY <2>1, <2>5, <3>1 DEF Promises
    <2>7. remaining \in Int
        <3> DEFINE a == judged[last].algorithm
        <3>1. a \in PageNames
            BY <2>1, <2>5, JudgedFacts
        <3>2. AnswerOf(last) \in JudgedAnswers(a)
            BY <2>5 DEF Matches
        <3>3. AnswerOf(last).body \in Body(a)
            BY <3>2 DEF JudgedAnswers
        <3> QED BY <3>1, <3>3, BodyOf
    <2>8. left = remaining
        <3> DEFINE d == event.decision
        <3>1. d \in Decisions /\ d.remaining = remaining
            BY <2>5 DEF Says
        <3>2. d # null /\ "remaining" \in DOMAIN d /\ d.remaining \in Int
            BY <2>7, <3>1, NullIsNothing DEF Decisions
        <3>3. View(FALSE) = Dashboard(page, events, config, FALSE)
            BY DEF View
        <3>4. d = Last(Decided(events)).decision
            BY DEF event
        <3> HIDE DEF d
        <3>5. Budget(page, Dashboard(page, events, config, FALSE)) = d.remaining
            BY <2>2, <3>2, <3>4, Budgets
        <3> QED BY <3>1, <3>3, <3>5
    <2>9. token \in Int
        <3>1. Len(calls) + 1 \in Int
            BY <2>1, LenProperties DEF Types
        <3> QED BY <3>1, CallOfId
    <2> HIDE DEF last, left, remaining, token
    <2> QED BY <2>6, <2>8, <2>9 DEF Promised
<1> QED BY <1>1, Invariant, PTL

-----------------------------------------------------------------------------
(***************************************************************************)
(* Lists that are filtered.                                                *)
(***************************************************************************)
\* What is in order is in order once.
LEMMA InOrder ==
    ASSUME NEW S, S \subseteq Int, IsFiniteSet(S)
    PROVE  LET at == Ascending(S)
               size == Cardinality(S) IN
           /\ size \in Nat /\ at \in [1 .. size -> S]
           /\ \A i, k \in 1 .. size : i < k => at[i] < at[k]
           /\ \A i, k \in 1 .. size : at[i] = at[k] => i = k
           /\ \A x \in S : \E k \in 1 .. size : at[k] = x
<1> DEFINE at == Ascending(S)
           size == Cardinality(S)
           UpTo(x) == {y \in S : y <= x}
<1>1. size \in Nat
    BY FS_CardinalityType
<1>2. \A k \in 1 .. size : at[k] \in S /\ Cardinality(UpTo(at[k])) = k
    BY Ranked
<1>3. at \in [1 .. size -> S]
    <2>1. at = [k \in 1 .. size |-> at[k]]
        BY DEF Ascending
    <2> HIDE DEF at
    <2> QED BY <1>2, <2>1
<1> HIDE DEF at
<1>4. \A i, k \in 1 .. size : i < k => at[i] < at[k]
    <2> SUFFICES ASSUME NEW i \in 1 .. size, NEW k \in 1 .. size, i < k, ~ at[i] < at[k]
                 PROVE  FALSE
        OBVIOUS
    <2>1. at[i] \in Int /\ at[k] \in Int
        BY <1>2
    <2>2. \A y \in S : y <= at[k] => y <= at[i]
        BY <2>1
    <2>3. UpTo(at[k]) \subseteq UpTo(at[i])
        BY <2>2
    <2>4. IsFiniteSet(UpTo(at[i]))
        BY FS_Subset
    <2>5. Cardinality(UpTo(at[k])) <= Cardinality(UpTo(at[i]))
        <3> HIDE DEF UpTo
        <3> QED BY <2>3, <2>4, FS_Subset
    <2> HIDE DEF UpTo, size
    <2> QED BY <1>1, <1>2, <2>5
<1>5. \A i, k \in 1 .. size : at[i] = at[k] => i = k
    BY <1>1, <1>2
<1>6. at \in Surjection(1 .. size, S)
    <2>1. at \in Injection(1 .. size, S)
        BY <1>3, <1>5 DEF Injection, IsInjective
    <2>2. Cardinality(1 .. size) = size
        BY <1>1, FS_Interval
    <2> QED BY <2>1, <2>2, FS_Injection
<1>7. \A x \in S : \E k \in 1 .. size : at[k] = x
    BY <1>6 DEF Surjection
<1> QED BY <1>1, <1>3, <1>4, <1>5, <1>7 DEF at

\* As many of the elements that are kept lie at indexes of J as J has.
LEMMA KeptCount ==
    ASSUME NEW S, NEW list \in Seq(S), NEW I, I \subseteq DOMAIN list, NEW J, J \subseteq I,
           NEW K, K \subseteq 1 .. Cardinality(I),
           \A k \in 1 .. Cardinality(I) : k \in K <=> Ascending(I)[k] \in J
    PROVE  Cardinality(K) = Cardinality(J)
<1> DEFINE at == Ascending(I)
           size == Cardinality(I)
<1>1. I \subseteq Int /\ IsFiniteSet(I)
    <2>1. DOMAIN list = 1 .. Len(list) /\ Len(list) \in Nat
        BY LenProperties
    <2>2. IsFiniteSet(1 .. Len(list))
        BY <2>1, FS_Interval
    <2> QED BY <2>1, <2>2, FS_Subset
<1>2. /\ size \in Nat /\ at \in [1 .. size -> I]
      /\ \A i, k \in 1 .. size : at[i] = at[k] => i = k
      /\ \A x \in I : \E k \in 1 .. size : at[k] = x
    BY <1>1, InOrder
<1>3. IsFiniteSet(K)
    <2>1. IsFiniteSet(1 .. size)
        BY <1>2, FS_Interval
    <2> QED BY <2>1, FS_Subset
<1> DEFINE f == [k \in K |-> at[k]]
<1>4. f \in Bijection(K, J)
    <2> HIDE DEF at, size
    <2>1. \A k \in K : k \in 1 .. size /\ at[k] \in J
        BY DEF at, size
    <2>2. \A x \in J : \E k \in K : at[k] = x
        BY <1>2 DEF at, size
    <2> QED BY <1>2, <2>1, <2>2 DEF Bijection, Injection, Surjection, IsInjective
<1> QED BY <1>3, <1>4, FS_Bijection DEF ExistsBijection

-----------------------------------------------------------------------------
(***************************************************************************)
(* What the issues of an answer tell of its state.                         *)
(***************************************************************************)
Stateless == {"missing_algorithm_state", "partial_algorithm_state"}
Warnings == Codes \ Stateless

\* A state that is missing is the first issue, and no other issue says so; a
\* state that is there has the start of its window.
Tells(state, issues) ==
    /\ \A k \in DOMAIN issues : issues[k] \in Stateless <=> (k = 1 /\ state = null)
    /\ state = null => 1 \in DOMAIN issues
    /\ state # null => state.windowStartMs \in Int
WellIssued(event) == IsDecision(event) => Tells(event.decision.algorithmState, event.issues)

LEMMA WarningLists ==
    /\ <<>> \in Seq(Warnings)
    /\ <<"missing_state_schema_version">> \in Seq(Warnings)
    /\ <<"unexpected_algorithm">> \in Seq(Warnings)
    /\ <<"unexpected_retry_after_on_allow">> \in Seq(Warnings)
<1>1. {"missing_state_schema_version", "unexpected_algorithm", "unexpected_retry_after_on_allow"}
        \subseteq Warnings
    BY DEF Warnings, Codes, Stateless
<1> QED BY <1>1, Singleton

\* A state that cannot be read, and one that can.
LEMMA Untold ==
    ASSUME NEW code \in Stateless
    PROVE  Tells(null, <<code>>) /\ <<code>> \in Seq(Codes)
<1>1. code \in Codes
    BY DEF Stateless, Codes
<1>2. DOMAIN <<code>> = {1} /\ <<code>>[1] = code
    OBVIOUS
<1>3. <<code>> \in Seq(Codes)
    BY <1>1, Singleton
<1>4. Tells(null, <<code>>)
    <2> DEFINE issues == <<code>>
    <2>1. DOMAIN issues = {1} /\ issues[1] = code
        BY <1>2
    <2> HIDE DEF issues
    <2>2. Tells(null, issues)
        BY <2>1 DEF Tells
    <2> QED BY <2>2 DEF issues
<1> QED BY <1>3, <1>4

LEMMA Told ==
    ASSUME NEW state, state # null, state.windowStartMs \in Int, NEW issues \in Seq(Warnings)
    PROVE  Tells(state, issues) /\ issues \in Seq(Codes)
<1>1. \A k \in DOMAIN issues : issues[k] \in Warnings
    BY ElementOfSeq, LenProperties
<1>2. issues \in Seq(Codes)
    <2>1. DOMAIN issues = 1 .. Len(issues) /\ Len(issues) \in Nat
        BY LenProperties
    <2>2. issues \in [1 .. Len(issues) -> Codes]
        BY <1>1, <2>1 DEF Warnings
    <2> QED BY <2>1, <2>2, SeqDef
<1> QED BY <1>1, <1>2 DEF Tells, Warnings

\* Warnings change nothing of it.
LEMMA Joined ==
    ASSUME NEW state, NEW issues \in Seq(Codes), Tells(state, issues),
           NEW warnings \in Seq(Warnings)
    PROVE  Tells(state, issues \o warnings)
<1> DEFINE all == issues \o warnings
<1>1. \A k \in DOMAIN warnings : warnings[k] \in Warnings
    BY ElementOfSeq, LenProperties
<1>2. /\ Len(issues) \in Nat /\ DOMAIN issues = 1 .. Len(issues)
      /\ Len(warnings) \in Nat /\ DOMAIN warnings = 1 .. Len(warnings)
    BY LenProperties
<1>3. warnings \in Seq(Codes)
    BY <1>1, <1>2, SeqDef DEF Warnings
<1>4. /\ DOMAIN all = 1 .. Len(issues) + Len(warnings)
      /\ \A k \in 1 .. Len(issues) + Len(warnings) :
            all[k] = IF k <= Len(issues) THEN issues[k] ELSE warnings[k - Len(issues)]
    <2>1. /\ all \in Seq(Codes) /\ Len(all) = Len(issues) + Len(warnings)
          /\ \A k \in 1 .. Len(issues) + Len(warnings) :
                all[k] = IF k <= Len(issues) THEN issues[k] ELSE warnings[k - Len(issues)]
        BY <1>3, ConcatProperties
    <2> HIDE DEF all
    <2> QED BY <2>1, LenProperties
<1> HIDE DEF all
<1>5. ASSUME NEW k \in DOMAIN all
      PROVE  all[k] \in Stateless <=> (k = 1 /\ state = null)
    <2>1. CASE k <= Len(issues)
        <3>1. k \in DOMAIN issues /\ all[k] = issues[k]
            BY <1>2, <1>4, <2>1
        <3> QED BY <3>1 DEF Tells
    <2>2. CASE k > Len(issues)
        <3>1. k - Len(issues) \in DOMAIN warnings /\ all[k] = warnings[k - Len(issues)]
            BY <1>2, <1>4, <2>2
        <3>2. all[k] \notin Stateless
            BY <1>1, <3>1 DEF Warnings
        <3>3. ~ (k = 1 /\ state = null)
            BY <1>2, <2>2 DEF Tells
        <3> QED BY <3>2, <3>3
    <2> QED BY <1>2, <1>4, <2>1, <2>2
<1>6. 1 \in DOMAIN issues => 1 \in DOMAIN all
    BY <1>2, <1>4
<1> QED BY <1>5, <1>6 DEF Tells, all

LEMMA FixedWindowTells ==
    ASSUME NEW raw, NEW clientId
    PROVE  LET mapped == FW!mapDecision(raw, clientId) IN
           mapped.decision # null => Tells(mapped.decision.algorithmState, mapped.issues)
<1>1. ASSUME NEW s
      PROVE  LET mapped == FW!mapAlgorithmState(s) IN
             Tells(mapped.state, mapped.issues) /\ mapped.issues \in Seq(Codes)
    <2> DEFINE decoded == FW!Decoded(s)
               schema == <<>>
               mapped == FW!mapAlgorithmState(s)
    <2>1. decoded \in FW!AlgorithmStates /\ decoded # null
        BY FixedWindowStates, NullIsNothing DEF PageStates
    <2>2. schema \in Seq(Warnings)
        BY WarningLists
    <2> HIDE DEF decoded, schema
    <2>3. \/ \E code \in Stateless : mapped = [state |-> null, issues |-> <<code>>]
          \/ /\ FW!Present(decoded, FW!Baseline)
             /\ mapped = [state |-> decoded, issues |-> schema]
        <3>1. "missing_algorithm_state" \in Stateless /\ "partial_algorithm_state" \in Stateless
            BY DEF Stateless
        <3> QED BY <3>1 DEF FW!mapAlgorithmState, FW!StateOf, decoded, schema
    <2> HIDE DEF mapped
    <2>4. FW!Present(decoded, FW!Baseline) => decoded.windowStartMs \in Int
        BY <2>1 DEF FW!Present, FW!Baseline, FW!AlgorithmStates, FW!Number
    <2>5. ASSUME NEW code \in Stateless, mapped = [state |-> null, issues |-> <<code>>]
          PROVE  Tells(mapped.state, mapped.issues) /\ mapped.issues \in Seq(Codes)
        BY <2>5, Untold
    <2>6. ASSUME FW!Present(decoded, FW!Baseline), mapped = [state |-> decoded, issues |-> schema]
          PROVE  Tells(mapped.state, mapped.issues) /\ mapped.issues \in Seq(Codes)
        BY <2>1, <2>2, <2>4, <2>6, Told
    <2>7. Tells(mapped.state, mapped.issues) /\ mapped.issues \in Seq(Codes)
        BY <2>3, <2>5, <2>6
    <2> QED BY <2>7 DEF mapped
<1> DEFINE state == FW!mapAlgorithmState(FW!Field(raw, "algorithm_state"))
           warnings == FW!AlgorithmWarning(raw, "fixed_window")
<1>2. warnings \in Seq(Warnings)
    BY WarningLists DEF FW!AlgorithmWarning
<1>3. Tells(state.state, state.issues \o warnings)
    <2>1. Tells(state.state, state.issues) /\ state.issues \in Seq(Codes)
        BY <1>1
    <2> HIDE DEF state, warnings
    <2> QED BY <1>2, <2>1, Joined
<1> HIDE DEF state, warnings
<1> DEFINE mapped == FW!mapDecision(raw, clientId)
<1>4. mapped.decision # null =>
        mapped.decision.algorithmState = state.state /\ mapped.issues = state.issues \o warnings
    BY DEF FW!mapDecision, FW!DecisionOf, state, warnings
<1> HIDE DEF mapped
<1>5. mapped.decision # null => Tells(mapped.decision.algorithmState, mapped.issues)
    BY <1>3, <1>4
<1> QED BY <1>5 DEF mapped

LEMMA SlidingLogTells ==
    ASSUME NEW raw, NEW clientId
    PROVE  LET mapped == SL!mapDecision(raw, clientId) IN
           mapped.decision # null => Tells(mapped.decision.algorithmState, mapped.issues)
<1>1. ASSUME NEW s
      PROVE  LET mapped == SL!mapAlgorithmState(s) IN
             Tells(mapped.state, mapped.issues) /\ mapped.issues \in Seq(Codes)
    <2> DEFINE decoded == SL!Decoded(s)
               schema == SL!SchemaWarning(s)
               mapped == SL!mapAlgorithmState(s)
    <2>1. decoded \in SL!AlgorithmStates /\ decoded # null
        BY SlidingLogStates, NullIsNothing DEF PageStates
    <2>2. schema \in Seq(Warnings)
        BY WarningLists DEF SL!SchemaWarning
    <2> HIDE DEF decoded, schema
    <2>3. \/ \E code \in Stateless : mapped = [state |-> null, issues |-> <<code>>]
          \/ /\ SL!Present(decoded, SL!Baseline)
             /\ mapped = [state |-> decoded, issues |-> schema]
        <3>1. "missing_algorithm_state" \in Stateless /\ "partial_algorithm_state" \in Stateless
            BY DEF Stateless
        <3> QED BY <3>1 DEF SL!mapAlgorithmState, SL!StateOf, decoded, schema
    <2> HIDE DEF mapped
    <2>4. SL!Present(decoded, SL!Baseline) => decoded.windowStartMs \in Int
        BY <2>1 DEF SL!Present, SL!Baseline, SL!AlgorithmStates, SL!Number
    <2>5. ASSUME NEW code \in Stateless, mapped = [state |-> null, issues |-> <<code>>]
          PROVE  Tells(mapped.state, mapped.issues) /\ mapped.issues \in Seq(Codes)
        BY <2>5, Untold
    <2>6. ASSUME SL!Present(decoded, SL!Baseline), mapped = [state |-> decoded, issues |-> schema]
          PROVE  Tells(mapped.state, mapped.issues) /\ mapped.issues \in Seq(Codes)
        BY <2>1, <2>2, <2>4, <2>6, Told
    <2>7. Tells(mapped.state, mapped.issues) /\ mapped.issues \in Seq(Codes)
        BY <2>3, <2>5, <2>6
    <2> QED BY <2>7 DEF mapped
<1> DEFINE state == SL!mapAlgorithmState(SL!Field(raw, "algorithm_state"))
           warnings == SL!AlgorithmWarning(raw, "sliding_log") \o SL!RetryWarning(raw)
<1>2. warnings \in Seq(Warnings)
    <2>1. SL!AlgorithmWarning(raw, "sliding_log") \in Seq(Warnings)
        BY WarningLists DEF SL!AlgorithmWarning
    <2>2. SL!RetryWarning(raw) \in Seq(Warnings)
        BY WarningLists DEF SL!RetryWarning
    <2> QED BY <2>1, <2>2, ConcatProperties
<1>3. Tells(state.state, state.issues \o warnings)
    <2>1. Tells(state.state, state.issues) /\ state.issues \in Seq(Codes)
        BY <1>1
    <2> HIDE DEF state, warnings
    <2> QED BY <1>2, <2>1, Joined
<1> HIDE DEF state, warnings
<1> DEFINE mapped == SL!mapDecision(raw, clientId)
<1>4. mapped.decision # null =>
        mapped.decision.algorithmState = state.state /\ mapped.issues = state.issues \o warnings
    BY DEF SL!mapDecision, SL!DecisionOf, state, warnings
<1> HIDE DEF mapped
<1>5. mapped.decision # null => Tells(mapped.decision.algorithmState, mapped.issues)
    BY <1>3, <1>4
<1> QED BY <1>5 DEF mapped

LEMMA SlidingWindowCounterTells ==
    ASSUME NEW raw, NEW clientId
    PROVE  LET mapped == SWC!mapDecision(raw, clientId) IN
           mapped.decision # null => Tells(mapped.decision.algorithmState, mapped.issues)
<1>1. ASSUME NEW s
      PROVE  LET mapped == SWC!mapAlgorithmState(s) IN
             Tells(mapped.state, mapped.issues) /\ mapped.issues \in Seq(Codes)
    <2> DEFINE decoded == SWC!Decoded(s)
               schema == SWC!SchemaWarning(s)
               mapped == SWC!mapAlgorithmState(s)
    <2>1. decoded \in SWC!AlgorithmStates /\ decoded # null
        BY SlidingWindowCounterStates, NullIsNothing DEF PageStates
    <2>2. schema \in Seq(Warnings)
        BY WarningLists DEF SWC!SchemaWarning
    <2> HIDE DEF decoded, schema
    <2>3. \/ \E code \in Stateless : mapped = [state |-> null, issues |-> <<code>>]
          \/ /\ SWC!Present(decoded, SWC!Baseline)
             /\ mapped = [state |-> decoded, issues |-> schema]
        <3>1. "missing_algorithm_state" \in Stateless /\ "partial_algorithm_state" \in Stateless
            BY DEF Stateless
        <3> QED BY <3>1 DEF SWC!mapAlgorithmState, SWC!StateOf, decoded, schema
    <2> HIDE DEF mapped
    <2>4. SWC!Present(decoded, SWC!Baseline) => decoded.windowStartMs \in Int
        BY <2>1 DEF SWC!Present, SWC!Baseline, SWC!AlgorithmStates, SWC!Number
    <2>5. ASSUME NEW code \in Stateless, mapped = [state |-> null, issues |-> <<code>>]
          PROVE  Tells(mapped.state, mapped.issues) /\ mapped.issues \in Seq(Codes)
        BY <2>5, Untold
    <2>6. ASSUME SWC!Present(decoded, SWC!Baseline), mapped = [state |-> decoded, issues |-> schema]
          PROVE  Tells(mapped.state, mapped.issues) /\ mapped.issues \in Seq(Codes)
        BY <2>1, <2>2, <2>4, <2>6, Told
    <2>7. Tells(mapped.state, mapped.issues) /\ mapped.issues \in Seq(Codes)
        BY <2>3, <2>5, <2>6
    <2> QED BY <2>7 DEF mapped
<1> DEFINE state == SWC!mapAlgorithmState(SWC!Field(raw, "algorithm_state"))
           warnings == SWC!AlgorithmWarning(raw, "sliding_window_counter") \o SWC!RetryWarning(raw)
<1>2. warnings \in Seq(Warnings)
    <2>1. SWC!AlgorithmWarning(raw, "sliding_window_counter") \in Seq(Warnings)
        BY WarningLists DEF SWC!AlgorithmWarning
    <2>2. SWC!RetryWarning(raw) \in Seq(Warnings)
        BY WarningLists DEF SWC!RetryWarning
    <2> QED BY <2>1, <2>2, ConcatProperties
<1>3. Tells(state.state, state.issues \o warnings)
    <2>1. Tells(state.state, state.issues) /\ state.issues \in Seq(Codes)
        BY <1>1
    <2> HIDE DEF state, warnings
    <2> QED BY <1>2, <2>1, Joined
<1> HIDE DEF state, warnings
<1> DEFINE mapped == SWC!mapDecision(raw, clientId)
<1>4. mapped.decision # null =>
        mapped.decision.algorithmState = state.state /\ mapped.issues = state.issues \o warnings
    BY DEF SWC!mapDecision, SWC!DecisionOf, state, warnings
<1> HIDE DEF mapped
<1>5. mapped.decision # null => Tells(mapped.decision.algorithmState, mapped.issues)
    BY <1>3, <1>4
<1> QED BY <1>5 DEF mapped

LEMMA TokenBucketTells ==
    ASSUME NEW raw, NEW clientId
    PROVE  LET mapped == TB!mapDecision(raw, clientId) IN
           mapped.decision # null => Tells(mapped.decision.algorithmState, mapped.issues)
<1>1. ASSUME NEW s
      PROVE  LET mapped == TB!mapAlgorithmState(s) IN
             Tells(mapped.state, mapped.issues) /\ mapped.issues \in Seq(Codes)
    <2> DEFINE decoded == TB!Decoded(s)
               schema == TB!SchemaWarning(s)
               mapped == TB!mapAlgorithmState(s)
    <2>1. decoded \in TB!AlgorithmStates /\ decoded # null
        BY TokenBucketStates, NullIsNothing DEF PageStates
    <2>2. schema \in Seq(Warnings)
        BY WarningLists DEF TB!SchemaWarning
    <2> HIDE DEF decoded, schema
    <2>3. \/ \E code \in Stateless : mapped = [state |-> null, issues |-> <<code>>]
          \/ /\ TB!Present(decoded, TB!Baseline)
             /\ mapped = [state |-> decoded, issues |-> schema]
        <3>1. "missing_algorithm_state" \in Stateless /\ "partial_algorithm_state" \in Stateless
            BY DEF Stateless
        <3> QED BY <3>1 DEF TB!mapAlgorithmState, TB!StateOf, decoded, schema
    <2> HIDE DEF mapped
    <2>4. TB!Present(decoded, TB!Baseline) => decoded.windowStartMs \in Int
        BY <2>1 DEF TB!Present, TB!Baseline, TB!AlgorithmStates, TB!Number
    <2>5. ASSUME NEW code \in Stateless, mapped = [state |-> null, issues |-> <<code>>]
          PROVE  Tells(mapped.state, mapped.issues) /\ mapped.issues \in Seq(Codes)
        BY <2>5, Untold
    <2>6. ASSUME TB!Present(decoded, TB!Baseline), mapped = [state |-> decoded, issues |-> schema]
          PROVE  Tells(mapped.state, mapped.issues) /\ mapped.issues \in Seq(Codes)
        BY <2>1, <2>2, <2>4, <2>6, Told
    <2>7. Tells(mapped.state, mapped.issues) /\ mapped.issues \in Seq(Codes)
        BY <2>3, <2>5, <2>6
    <2> QED BY <2>7 DEF mapped
<1> DEFINE state == TB!mapAlgorithmState(TB!Field(raw, "algorithm_state"))
           warnings == TB!AlgorithmWarning(raw, "token_bucket") \o TB!RetryWarning(raw)
<1>2. warnings \in Seq(Warnings)
    <2>1. TB!AlgorithmWarning(raw, "token_bucket") \in Seq(Warnings)
        BY WarningLists DEF TB!AlgorithmWarning
    <2>2. TB!RetryWarning(raw) \in Seq(Warnings)
        BY WarningLists DEF TB!RetryWarning
    <2> QED BY <2>1, <2>2, ConcatProperties
<1>3. Tells(state.state, state.issues \o warnings)
    <2>1. Tells(state.state, state.issues) /\ state.issues \in Seq(Codes)
        BY <1>1
    <2> HIDE DEF state, warnings
    <2> QED BY <1>2, <2>1, Joined
<1> HIDE DEF state, warnings
<1> DEFINE mapped == TB!mapDecision(raw, clientId)
<1>4. mapped.decision # null =>
        mapped.decision.algorithmState = state.state /\ mapped.issues = state.issues \o warnings
    BY DEF TB!mapDecision, TB!DecisionOf, state, warnings
<1> HIDE DEF mapped
<1>5. mapped.decision # null => Tells(mapped.decision.algorithmState, mapped.issues)
    BY <1>3, <1>4
<1> QED BY <1>5 DEF mapped

LEMMA LeakyBucketTells ==
    ASSUME NEW raw, NEW clientId
    PROVE  LET mapped == LB!mapDecision(raw, clientId) IN
           mapped.decision # null => Tells(mapped.decision.algorithmState, mapped.issues)
<1>1. ASSUME NEW s
      PROVE  LET mapped == LB!mapAlgorithmState(s) IN
             Tells(mapped.state, mapped.issues) /\ mapped.issues \in Seq(Codes)
    <2> DEFINE decoded == LB!Decoded(s)
               schema == LB!SchemaWarning(s)
               mapped == LB!mapAlgorithmState(s)
    <2>1. decoded \in LB!AlgorithmStates /\ decoded # null
        BY LeakyBucketStates, NullIsNothing DEF PageStates
    <2>2. schema \in Seq(Warnings)
        BY WarningLists DEF LB!SchemaWarning
    <2> HIDE DEF decoded, schema
    <2>3. \/ \E code \in Stateless : mapped = [state |-> null, issues |-> <<code>>]
          \/ /\ LB!Present(decoded, LB!Baseline)
             /\ mapped = [state |-> decoded, issues |-> schema]
        <3>1. "missing_algorithm_state" \in Stateless /\ "partial_algorithm_state" \in Stateless
            BY DEF Stateless
        <3> QED BY <3>1 DEF LB!mapAlgorithmState, LB!StateOf, decoded, schema
    <2> HIDE DEF mapped
    <2>4. LB!Present(decoded, LB!Baseline) => decoded.windowStartMs \in Int
        BY <2>1 DEF LB!Present, LB!Baseline, LB!AlgorithmStates, LB!Number
    <2>5. ASSUME NEW code \in Stateless, mapped = [state |-> null, issues |-> <<code>>]
          PROVE  Tells(mapped.state, mapped.issues) /\ mapped.issues \in Seq(Codes)
        BY <2>5, Untold
    <2>6. ASSUME LB!Present(decoded, LB!Baseline), mapped = [state |-> decoded, issues |-> schema]
          PROVE  Tells(mapped.state, mapped.issues) /\ mapped.issues \in Seq(Codes)
        BY <2>1, <2>2, <2>4, <2>6, Told
    <2>7. Tells(mapped.state, mapped.issues) /\ mapped.issues \in Seq(Codes)
        BY <2>3, <2>5, <2>6
    <2> QED BY <2>7 DEF mapped
<1> DEFINE state == LB!mapAlgorithmState(LB!Field(raw, "algorithm_state"))
           warnings == LB!AlgorithmWarning(raw, "leaky_bucket") \o LB!RetryWarning(raw)
<1>2. warnings \in Seq(Warnings)
    <2>1. LB!AlgorithmWarning(raw, "leaky_bucket") \in Seq(Warnings)
        BY WarningLists DEF LB!AlgorithmWarning
    <2>2. LB!RetryWarning(raw) \in Seq(Warnings)
        BY WarningLists DEF LB!RetryWarning
    <2> QED BY <2>1, <2>2, ConcatProperties
<1>3. Tells(state.state, state.issues \o warnings)
    <2>1. Tells(state.state, state.issues) /\ state.issues \in Seq(Codes)
        BY <1>1
    <2> HIDE DEF state, warnings
    <2> QED BY <1>2, <2>1, Joined
<1> HIDE DEF state, warnings
<1> DEFINE mapped == LB!mapDecision(raw, clientId)
<1>4. mapped.decision # null =>
        mapped.decision.algorithmState = state.state /\ mapped.issues = state.issues \o warnings
    BY DEF LB!mapDecision, LB!DecisionOf, state, warnings
<1> HIDE DEF mapped
<1>5. mapped.decision # null => Tells(mapped.decision.algorithmState, mapped.issues)
    BY <1>3, <1>4
<1> QED BY <1>5 DEF mapped

\* Whatever a call comes to, its event says truly whether it has a state.
LEMMA EventTells ==
    ASSUME NEW p \in PageNames, NEW call, NEW clientId, NEW id, NEW t
    PROVE  WellIssued(simulateRequest(p, call, clientId, id, t))
<1>1. CASE p = "fixed_window"
    <2> DEFINE mapped == FW!mapDecision(FW!Field(call, "body"), clientId)
               event == FW!simulateFixedWindowRequest(call, clientId, id, t)
    <2>1. simulateRequest(p, call, clientId, id, t) = event
        BY <1>1 DEF simulateRequest
    <2>2. mapped.decision # null => Tells(mapped.decision.algorithmState, mapped.issues)
        BY FixedWindowTells
    <2> HIDE DEF mapped
    <2>3. IsDecision(event) => /\ mapped.decision # null
                               /\ event.decision = mapped.decision
                               /\ event.issues = mapped.issues
        BY DEF FW!simulateFixedWindowRequest, FW!SimulateResult, FW!createSyntheticErrorResult,
               FW!SyntheticError, IsDecision, mapped
    <2> HIDE DEF event
    <2> QED BY <2>1, <2>2, <2>3 DEF WellIssued
<1>2. CASE p = "sliding_log"
    <2> DEFINE mapped == SL!mapDecision(SL!Field(call, "body"), clientId)
               event == SL!simulateSlidingLogRequest(call, clientId, id, t)
    <2>1. simulateRequest(p, call, clientId, id, t) = event
        BY <1>2 DEF simulateRequest
    <2>2. mapped.decision # null => Tells(mapped.decision.algorithmState, mapped.issues)
        BY SlidingLogTells
    <2> HIDE DEF mapped
    <2>3. IsDecision(event) => /\ mapped.decision # null
                               /\ event.decision = mapped.decision
                               /\ event.issues = mapped.issues
        BY DEF SL!simulateSlidingLogRequest, SL!SimulateResult, SL!createSyntheticErrorResult,
               SL!SyntheticError, IsDecision, mapped
    <2> HIDE DEF event
    <2> QED BY <2>1, <2>2, <2>3 DEF WellIssued
<1>3. CASE p = "sliding_window_counter"
    <2> DEFINE mapped == SWC!mapDecision(SWC!Field(call, "body"), clientId)
               event == SWC!simulateSlidingWindowCounterRequest(call, clientId, id, t)
    <2>1. simulateRequest(p, call, clientId, id, t) = event
        BY <1>3 DEF simulateRequest
    <2>2. mapped.decision # null => Tells(mapped.decision.algorithmState, mapped.issues)
        BY SlidingWindowCounterTells
    <2> HIDE DEF mapped
    <2>3. IsDecision(event) => /\ mapped.decision # null
                               /\ event.decision = mapped.decision
                               /\ event.issues = mapped.issues
        BY DEF SWC!simulateSlidingWindowCounterRequest, SWC!SimulateResult,
               SWC!createSyntheticErrorResult, SWC!SyntheticError, IsDecision, mapped
    <2> HIDE DEF event
    <2> QED BY <2>1, <2>2, <2>3 DEF WellIssued
<1>4. CASE p = "token_bucket"
    <2> DEFINE mapped == TB!mapDecision(TB!Field(call, "body"), clientId)
               event == TB!simulateTokenBucketRequest(call, clientId, id, t)
    <2>1. simulateRequest(p, call, clientId, id, t) = event
        BY <1>4 DEF simulateRequest
    <2>2. mapped.decision # null => Tells(mapped.decision.algorithmState, mapped.issues)
        BY TokenBucketTells
    <2> HIDE DEF mapped
    <2>3. IsDecision(event) => /\ mapped.decision # null
                               /\ event.decision = mapped.decision
                               /\ event.issues = mapped.issues
        BY DEF TB!simulateTokenBucketRequest, TB!SimulateResult, TB!createSyntheticErrorResult,
               TB!SyntheticError, IsDecision, mapped
    <2> HIDE DEF event
    <2> QED BY <2>1, <2>2, <2>3 DEF WellIssued
<1>5. CASE p = "leaky_bucket"
    <2> DEFINE mapped == LB!mapDecision(LB!Field(call, "body"), clientId)
               event == LB!simulateLeakyBucketRequest(call, clientId, id, t)
    <2>1. simulateRequest(p, call, clientId, id, t) = event
        BY <1>5 DEF simulateRequest
    <2>2. mapped.decision # null => Tells(mapped.decision.algorithmState, mapped.issues)
        BY LeakyBucketTells
    <2> HIDE DEF mapped
    <2>3. IsDecision(event) => /\ mapped.decision # null
                               /\ event.decision = mapped.decision
                               /\ event.issues = mapped.issues
        BY DEF LB!simulateLeakyBucketRequest, LB!SimulateResult, LB!createSyntheticErrorResult,
               LB!SyntheticError, IsDecision, mapped
    <2> HIDE DEF event
    <2> QED BY <2>1, <2>2, <2>3 DEF WellIssued
<1> QED BY <1>1, <1>2, <1>3, <1>4, <1>5 DEF PageNames

\* Every event of the list says truly whether it has a state.
Issued == \A i \in DOMAIN events : WellIssued(events[i])

LEMMA IssuedAppend ==
    ASSUME Types, Issued, NEW event, WellIssued(event), events' = Capped(Append(events, event))
    PROVE  Issued'
<1> DEFINE S == Events \cup {event}
           after == Capped(Append(events, event))
<1>1. events \in Seq(S)
    <2>1. events \in Seq(Events)
        BY DEF Types
    <2>2. DOMAIN events = 1 .. Len(events) /\ Len(events) \in Nat
        BY <2>1, LenProperties
    <2>3. events \in [1 .. Len(events) -> S]
        BY <2>1, <2>2, ElementOfSeq
    <2> QED BY <2>2, <2>3, SeqDef
<1>2. event \in S
    OBVIOUS
<1> HIDE DEF S
<1>3. /\ after \in Seq(S)
      /\ Len(after) = IF Len(events) + 1 < UI_EVENT_CAP THEN Len(events) + 1 ELSE UI_EVENT_CAP
      /\ \A i \in DOMAIN after :
            after[i] = IF Len(events) + 1 - Len(after) + i = Len(events) + 1 THEN event
                       ELSE events[Len(events) + 1 - Len(after) + i]
    BY <1>1, <1>2, CappedAppend
<1> HIDE DEF after
<1>4. ASSUME NEW i \in DOMAIN after
      PROVE  after[i] = event \/ \E k \in DOMAIN events : after[i] = events[k]
    <2>1. /\ Len(after) \in Nat /\ DOMAIN after = 1 .. Len(after)
          /\ Len(events) \in Nat /\ DOMAIN events = 1 .. Len(events)
        BY <1>1, <1>3, LenProperties
    <2>2. Len(after) <= Len(events) + 1
        BY <1>3, <2>1, CapAssumption
    <2> DEFINE k == Len(events) + 1 - Len(after) + i
    <2>3. after[i] = IF k = Len(events) + 1 THEN event ELSE events[k]
        BY <1>3
    <2>4. k = Len(events) + 1 \/ k \in DOMAIN events
        BY <2>1, <2>2
    <2> HIDE DEF k
    <2> QED BY <2>3, <2>4
<1>5. \A i \in DOMAIN after : WellIssued(after[i])
    BY <1>4 DEF Issued
<1>6. events' = after
    BY DEF after
<1> QED BY <1>5, <1>6 DEF Issued

LEMMA IssuedNext ==
    ASSUME Types, Issued, [Next]_vars
    PROVE  Issued'
<1>1. page \in PageNames
    BY DEF Types
<1>2. CASE \E n \in Ids : Deliver(n) \/ Timeout(n)
    <2>1. PICK n, call, outcome : Settle(n, call, outcome)
        BY <1>2 DEF Deliver, Timeout
    <2>2. PICK event : event = simulateRequest(page, call, calls[n].clientId, ErrorId(n), now)
        OBVIOUS
    <2>3. WellIssued(event)
        BY <1>1, <2>2, EventTells
    <2>4. events' = events \/ events' = Capped(Append(events, event))
        BY <1>1, <2>1, <2>2, Appended DEF Settle
    <2> QED BY <2>3, <2>4, IssuedAppend DEF Issued
<1>3. CASE SyncFailed
    <2>1. PICK error : error = SyntheticError(ErrorId(Len(calls) + 1), now)
        OBVIOUS
    <2>2. WellIssued(error)
        BY <2>1 DEF WellIssued, IsDecision, SyntheticError
    <2>3. events' = appendSyntheticError(page, events, ErrorId(Len(calls) + 1), now)
        BY <1>3 DEF SyncFailed
    <2>4. events' = Capped(Append(events, error))
        BY <1>1, <2>1, <2>3, Appended
    <2> QED BY <2>2, <2>4, IssuedAppend
<1>4. CASE resetView
    <2>1. DOMAIN events' = {}
        BY <1>4 DEF resetView
    <2> QED BY <2>1 DEF Issued
<1>5. CASE \/ Dispatch \/ Leave \/ Activate \/ Tick \/ UNCHANGED vars
           \/ \E n \in Ids : Judge(n) \/ GatewayError(n) \/ Broken(n)
    <2>1. events' = events
        BY <1>5 DEF Dispatch, Leave, Activate, Tick, vars, Judge, GatewayError, Broken
    <2> QED BY <2>1 DEF Issued
<1> QED BY <1>2, <1>3, <1>4, <1>5 DEF Next

\* An event says truly whether it has a state, whatever came of its call.
LEMMA AlwaysIssued == Spec => []Issued
<1>1. Init => Issued
    BY DEF Init, Issued
<1>2. IInv /\ Issued /\ [Next]_vars => Issued'
    BY IssuedNext DEF IInv
<1> QED BY <1>1, <1>2, Invariant, PTL DEF Spec

-----------------------------------------------------------------------------
(***************************************************************************)
(* What the views of the pages have in common.                             *)
(***************************************************************************)
TotalsOf(list) == IF list = <<>> THEN NoTotals ELSE Totals(deriveBaseKpiStats(list))
HasLength(f, n) == f = [k \in 1 .. n |-> f[k]]
Shares(v, list, rejectedOnly) ==
    /\ v.kpi.totals = TotalsOf(list)
    /\ \E fields : v.timeline = Timeline(list, fields)
    /\ HasLength(v.chart.series, Len(WithState(list)))
    /\ \E fields : v.log = LogTable(list, rejectedOnly, fields)
    /\ v.diagnostics = Diagnostics(list, 8)

LEMMA FixedWindowShares ==
    ASSUME NEW list, NEW form, NEW rejectedOnly
    PROVE  LET v == Dashboard("fixed_window", list, form, rejectedOnly) IN
           /\ Shares(v, list, rejectedOnly)
           /\ v.chart.boundaryLines = Ascending(FW!WindowStarts(list))
<1> DEFINE v == FW!FixedWindowDashboard(list, form, rejectedOnly)
<1>1. Dashboard("fixed_window", list, form, rejectedOnly) = v
    BY DEF Dashboard
<1>2. FW!deriveBaseKpiStats(list) = deriveBaseKpiStats(list)
    BY DEF FW!deriveBaseKpiStats, FW!Decided, FW!Kept, FW!Ascending, FW!IsDecision,
           FW!Cardinality, FW!LatestOf, FW!Field, FW!isRecord, FW!Last,
           deriveBaseKpiStats, Decided, Kept, Ascending, IsDecision, Cardinality,
           LatestOf, Field, isRecord, Last
<1>3. v.kpi.totals = TotalsOf(list)
    <2>1. v.kpi = FW!kpi(list, form)
        BY DEF FW!FixedWindowDashboard
    <2>2. FW!INITIAL_KPI(form).totals = NoTotals
        BY DEF FW!INITIAL_KPI, FW!NoTotals, NoTotals
    <2>3. FW!deriveKpi(list, form).totals = Totals(deriveBaseKpiStats(list))
        BY <1>2 DEF FW!deriveKpi, FW!Totals, Totals
    <2> HIDE DEF v
    <2> QED BY <2>1, <2>2, <2>3 DEF FW!kpi, TotalsOf
<1>4. FW!WithState(list) = WithState(list)
    BY DEF FW!WithState, FW!Kept, FW!Ascending, FW!IsDecision, FW!Cardinality,
           WithState, Kept, Ascending, IsDecision, Cardinality
<1>5. \E fields : v.timeline = Timeline(list, fields)
    <2>1. \A fields : FW!Timeline(list, fields) = Timeline(list, fields)
        BY DEF FW!Timeline, FW!Series, FW!Kept, FW!Ascending, FW!IsDecision,
               FW!Cardinality, FW!Figures, FW!Field, FW!isRecord,
               Timeline, Series, Kept, Ascending, IsDecision, Cardinality,
               Figures, Field, isRecord
    <2> QED BY <2>1 DEF FW!FixedWindowDashboard, FW!OutcomeTimeline
<1>6. \E fields : v.log = LogTable(list, rejectedOnly, fields)
    <2>1. \A fields : FW!LogTable(list, rejectedOnly, fields)
                        = LogTable(list, rejectedOnly, fields)
        BY DEF FW!LogTable, FW!LogRow, FW!IsLogged, FW!Kept, FW!Ascending, FW!IsDecision,
               FW!Cardinality, FW!Figures, FW!Field, FW!isRecord,
               LogTable, LogRow, IsLogged, Kept, Ascending, IsDecision,
               Cardinality, Figures, Field, isRecord
    <2> QED BY <2>1 DEF FW!FixedWindowDashboard, FW!RequestLogTable
<1>7. v.diagnostics = Diagnostics(list, 8)
    BY DEF FW!FixedWindowDashboard, FW!diagnostics, FW!Diagnostics, FW!IssuePlaces, FW!IssueAt,
           FW!NotBefore, FW!AtMost, FW!Cardinality,
           Diagnostics, IssuePlaces, IssueAt, NotBefore, AtMost, Cardinality
<1>8. HasLength(v.chart.series, Len(WithState(list)))
    BY <1>4 DEF FW!FixedWindowDashboard, FW!WindowOccupancyChart, FW!Series, HasLength
<1>9. v.chart.boundaryLines = Ascending(FW!WindowStarts(list))
    <2> DEFINE starts == FW!Ascending(FW!WindowStarts(list))
               bounds == FW!deriveBoundaries(list)
    <2>1. starts = Ascending(FW!WindowStarts(list))
        BY DEF FW!Ascending, FW!Cardinality, Ascending, Cardinality
    <2> DEFINE S == FW!WindowStarts(list)
               At(k) == CHOOSE x \in S : FW!Cardinality({y \in S : y <= x}) = k
    <2>2. starts = [k \in DOMAIN starts |-> starts[k]]
        <3>1. starts = [k \in 1 .. FW!Cardinality(S) |-> At(k)]
            BY DEF FW!Ascending
        <3> HIDE DEF starts, At, S
        <3> QED BY <3>1
    <2>3. DOMAIN bounds = DOMAIN starts
        BY DEF FW!deriveBoundaries
    <2>4. \A k \in DOMAIN starts : bounds[k].windowStartMs = starts[k]
        BY DEF FW!deriveBoundaries
    <2>5. v.chart.boundaryLines = [k \in DOMAIN bounds |-> bounds[k].windowStartMs]
        BY DEF FW!FixedWindowDashboard, FW!WindowOccupancyChart
    <2> HIDE DEF starts, bounds, v
    <2> QED BY <2>1, <2>2, <2>3, <2>4, <2>5
<1> HIDE DEF v
<1> QED BY <1>1, <1>3, <1>5, <1>6, <1>7, <1>8, <1>9 DEF Shares

LEMMA SlidingLogShares ==
    ASSUME NEW list, NEW form, NEW rejectedOnly
    PROVE  LET v == Dashboard("sliding_log", list, form, rejectedOnly) IN
           /\ Shares(v, list, rejectedOnly)
           /\ v.contract = ContractSummary(list)
<1> DEFINE v == SL!SlidingLogDashboard(list, form, rejectedOnly)
<1>1. Dashboard("sliding_log", list, form, rejectedOnly) = v
    BY DEF Dashboard
<1>2. SL!deriveBaseKpiStats(list) = deriveBaseKpiStats(list)
    BY DEF SL!deriveBaseKpiStats, SL!Decided, SL!Kept, SL!Ascending, SL!IsDecision,
           SL!Cardinality, SL!LatestOf, SL!Field, SL!isRecord, SL!Last,
           deriveBaseKpiStats, Decided, Kept, Ascending, IsDecision, Cardinality,
           LatestOf, Field, isRecord, Last
<1>3. v.kpi.totals = TotalsOf(list)
    <2>1. v.kpi = SL!kpi(list, form)
        BY DEF SL!SlidingLogDashboard
    <2>2. SL!INITIAL_KPI(form).totals = NoTotals
        BY DEF SL!INITIAL_KPI, SL!NoTotals, NoTotals
    <2>3. SL!deriveKpi(list, form).totals = Totals(deriveBaseKpiStats(list))
        BY <1>2 DEF SL!deriveKpi, SL!Totals, Totals
    <2> HIDE DEF v
    <2> QED BY <2>1, <2>2, <2>3 DEF SL!kpi, TotalsOf
<1>4. SL!WithState(list) = WithState(list)
    BY DEF SL!WithState, SL!Kept, SL!Ascending, SL!IsDecision, SL!Cardinality,
           WithState, Kept, Ascending, IsDecision, Cardinality
<1>5. \E fields : v.timeline = Timeline(list, fields)
    <2>1. \A fields : SL!Timeline(list, fields) = Timeline(list, fields)
        BY DEF SL!Timeline, SL!Series, SL!Kept, SL!Ascending, SL!IsDecision,
               SL!Cardinality, SL!Figures, SL!Field, SL!isRecord,
               Timeline, Series, Kept, Ascending, IsDecision, Cardinality,
               Figures, Field, isRecord
    <2> QED BY <2>1 DEF SL!SlidingLogDashboard, SL!OutcomeTimeline
<1>6. \E fields : v.log = LogTable(list, rejectedOnly, fields)
    <2>1. \A fields : SL!LogTable(list, rejectedOnly, fields)
                        = LogTable(list, rejectedOnly, fields)
        BY DEF SL!LogTable, SL!LogRow, SL!IsLogged, SL!Kept, SL!Ascending, SL!IsDecision,
               SL!Cardinality, SL!Figures, SL!Field, SL!isRecord,
               LogTable, LogRow, IsLogged, Kept, Ascending, IsDecision,
               Cardinality, Figures, Field, isRecord
    <2> QED BY <2>1 DEF SL!SlidingLogDashboard, SL!RequestLogTable
<1>7. v.diagnostics = Diagnostics(list, 8)
    BY DEF SL!SlidingLogDashboard, SL!diagnostics, SL!Diagnostics, SL!IssuePlaces, SL!IssueAt,
           SL!NotBefore, SL!AtMost, SL!Cardinality,
           Diagnostics, IssuePlaces, IssueAt, NotBefore, AtMost, Cardinality
<1>8. HasLength(v.chart.series, Len(WithState(list)))
    BY <1>4 DEF SL!SlidingLogDashboard, SL!WindowOccupancyChart, SL!Series, HasLength
<1>9. v.contract = ContractSummary(list)
    BY DEF SL!SlidingLogDashboard, SL!contractSummary, SL!ContractSummary,
           SL!IssueCount, SL!IssuePlaces, SL!IssueAt, SL!Cardinality,
           ContractSummary, IssueCount, IssuePlaces, IssueAt, Cardinality
<1> HIDE DEF v
<1> QED BY <1>1, <1>3, <1>5, <1>6, <1>7, <1>8, <1>9 DEF Shares

LEMMA SlidingWindowCounterShares ==
    ASSUME NEW list, NEW form, NEW rejectedOnly
    PROVE  LET v == Dashboard("sliding_window_counter", list, form, rejectedOnly) IN
           /\ Shares(v, list, rejectedOnly)
           /\ v.contract = ContractSummary(list)
<1> DEFINE v == SWC!SlidingWindowCounterDashboard(list, form, rejectedOnly)
<1>1. Dashboard("sliding_window_counter", list, form, rejectedOnly) = v
    BY DEF Dashboard
<1>2. SWC!deriveBaseKpiStats(list) = deriveBaseKpiStats(list)
    BY DEF SWC!deriveBaseKpiStats, SWC!Decided, SWC!Kept, SWC!Ascending, SWC!IsDecision,
           SWC!Cardinality, SWC!LatestOf, SWC!Field, SWC!isRecord, SWC!Last,
           deriveBaseKpiStats, Decided, Kept, Ascending, IsDecision, Cardinality,
           LatestOf, Field, isRecord, Last
<1>3. v.kpi.totals = TotalsOf(list)
    <2>1. v.kpi = SWC!kpi(list, form)
        BY DEF SWC!SlidingWindowCounterDashboard
    <2>2. SWC!INITIAL_KPI(form).totals = NoTotals
        BY DEF SWC!INITIAL_KPI, SWC!NoTotals, NoTotals
    <2>3. SWC!deriveKpi(list, form).totals = Totals(deriveBaseKpiStats(list))
        BY <1>2 DEF SWC!deriveKpi, SWC!Totals, Totals
    <2> HIDE DEF v
    <2> QED BY <2>1, <2>2, <2>3 DEF SWC!kpi, TotalsOf
<1>4. SWC!WithState(list) = WithState(list)
    BY DEF SWC!WithState, SWC!Kept, SWC!Ascending, SWC!IsDecision, SWC!Cardinality,
           WithState, Kept, Ascending, IsDecision, Cardinality
<1>5. \E fields : v.timeline = Timeline(list, fields)
    <2>1. \A fields : SWC!Timeline(list, fields) = Timeline(list, fields)
        BY DEF SWC!Timeline, SWC!Series, SWC!Kept, SWC!Ascending, SWC!IsDecision,
               SWC!Cardinality, SWC!Figures, SWC!Field, SWC!isRecord,
               Timeline, Series, Kept, Ascending, IsDecision, Cardinality,
               Figures, Field, isRecord
    <2> QED BY <2>1 DEF SWC!SlidingWindowCounterDashboard, SWC!OutcomeTimeline
<1>6. \E fields : v.log = LogTable(list, rejectedOnly, fields)
    <2>1. \A fields : SWC!LogTable(list, rejectedOnly, fields)
                        = LogTable(list, rejectedOnly, fields)
        BY DEF SWC!LogTable, SWC!LogRow, SWC!IsLogged, SWC!Kept, SWC!Ascending, SWC!IsDecision,
               SWC!Cardinality, SWC!Figures, SWC!Field, SWC!isRecord,
               LogTable, LogRow, IsLogged, Kept, Ascending, IsDecision,
               Cardinality, Figures, Field, isRecord
    <2> QED BY <2>1 DEF SWC!SlidingWindowCounterDashboard, SWC!RequestLogTable
<1>7. v.diagnostics = Diagnostics(list, 8)
    BY DEF SWC!SlidingWindowCounterDashboard, SWC!diagnostics, SWC!Diagnostics,
           SWC!IssuePlaces, SWC!IssueAt,
           SWC!NotBefore, SWC!AtMost, SWC!Cardinality,
           Diagnostics, IssuePlaces, IssueAt, NotBefore, AtMost, Cardinality
<1>8. HasLength(v.chart.series, Len(WithState(list)))
    BY <1>4 DEF SWC!SlidingWindowCounterDashboard, SWC!EstimatedCountChart, SWC!Series, HasLength
<1>9. v.contract = ContractSummary(list)
    BY DEF SWC!SlidingWindowCounterDashboard, SWC!contractSummary, SWC!ContractSummary,
           SWC!IssueCount, SWC!IssuePlaces, SWC!IssueAt, SWC!Cardinality,
           ContractSummary, IssueCount, IssuePlaces, IssueAt, Cardinality
<1> HIDE DEF v
<1> QED BY <1>1, <1>3, <1>5, <1>6, <1>7, <1>8, <1>9 DEF Shares

LEMMA TokenBucketShares ==
    ASSUME NEW list, NEW form, NEW rejectedOnly
    PROVE  LET v == Dashboard("token_bucket", list, form, rejectedOnly) IN
           /\ Shares(v, list, rejectedOnly)
           /\ v.contract = ContractSummary(list)
<1> DEFINE v == TB!TokenBucketDashboard(list, form, rejectedOnly)
<1>1. Dashboard("token_bucket", list, form, rejectedOnly) = v
    BY DEF Dashboard
<1>2. TB!deriveBaseKpiStats(list) = deriveBaseKpiStats(list)
    BY DEF TB!deriveBaseKpiStats, TB!Decided, TB!Kept, TB!Ascending, TB!IsDecision,
           TB!Cardinality, TB!LatestOf, TB!Field, TB!isRecord, TB!Last,
           deriveBaseKpiStats, Decided, Kept, Ascending, IsDecision, Cardinality,
           LatestOf, Field, isRecord, Last
<1>3. v.kpi.totals = TotalsOf(list)
    <2>1. v.kpi = TB!kpi(list, form)
        BY DEF TB!TokenBucketDashboard
    <2>2. TB!INITIAL_KPI(form).totals = NoTotals
        BY DEF TB!INITIAL_KPI, TB!NoTotals, NoTotals
    <2>3. TB!deriveKpi(list, form).totals = Totals(deriveBaseKpiStats(list))
        BY <1>2 DEF TB!deriveKpi, TB!Totals, Totals
    <2> HIDE DEF v
    <2> QED BY <2>1, <2>2, <2>3 DEF TB!kpi, TotalsOf
<1>4. TB!WithState(list) = WithState(list)
    BY DEF TB!WithState, TB!Kept, TB!Ascending, TB!IsDecision, TB!Cardinality,
           WithState, Kept, Ascending, IsDecision, Cardinality
<1>5. \E fields : v.timeline = Timeline(list, fields)
    <2>1. \A fields : TB!Timeline(list, fields) = Timeline(list, fields)
        BY DEF TB!Timeline, TB!Series, TB!Kept, TB!Ascending, TB!IsDecision,
               TB!Cardinality, TB!Figures, TB!Field, TB!isRecord,
               Timeline, Series, Kept, Ascending, IsDecision, Cardinality,
               Figures, Field, isRecord
    <2> QED BY <2>1 DEF TB!TokenBucketDashboard, TB!OutcomeTimeline
<1>6. \E fields : v.log = LogTable(list, rejectedOnly, fields)
    <2>1. \A fields : TB!LogTable(list, rejectedOnly, fields)
                        = LogTable(list, rejectedOnly, fields)
        BY DEF TB!LogTable, TB!LogRow, TB!IsLogged, TB!Kept, TB!Ascending, TB!IsDecision,
               TB!Cardinality, TB!Figures, TB!Field, TB!isRecord,
               LogTable, LogRow, IsLogged, Kept, Ascending, IsDecision,
               Cardinality, Figures, Field, isRecord
    <2> QED BY <2>1 DEF TB!TokenBucketDashboard, TB!RequestLogTable
<1>7. v.diagnostics = Diagnostics(list, 8)
    BY DEF TB!TokenBucketDashboard, TB!diagnostics, TB!Diagnostics, TB!IssuePlaces, TB!IssueAt,
           TB!NotBefore, TB!AtMost, TB!Cardinality,
           Diagnostics, IssuePlaces, IssueAt, NotBefore, AtMost, Cardinality
<1>8. HasLength(v.chart.series, Len(WithState(list)))
    BY <1>4 DEF TB!TokenBucketDashboard, TB!TokensOverTimeChart, TB!Series, HasLength
<1>9. v.contract = ContractSummary(list)
    BY DEF TB!TokenBucketDashboard, TB!contractSummary, TB!ContractSummary,
           TB!IssueCount, TB!IssuePlaces, TB!IssueAt, TB!Cardinality,
           ContractSummary, IssueCount, IssuePlaces, IssueAt, Cardinality
<1> HIDE DEF v
<1> QED BY <1>1, <1>3, <1>5, <1>6, <1>7, <1>8, <1>9 DEF Shares

LEMMA LeakyBucketShares ==
    ASSUME NEW list, NEW form, NEW rejectedOnly
    PROVE  LET v == Dashboard("leaky_bucket", list, form, rejectedOnly) IN
           /\ Shares(v, list, rejectedOnly)
           /\ v.contract = ContractSummary(list)
<1> DEFINE v == LB!LeakyBucketDashboard(list, form, rejectedOnly)
<1>1. Dashboard("leaky_bucket", list, form, rejectedOnly) = v
    BY DEF Dashboard
<1>2. LB!deriveBaseKpiStats(list) = deriveBaseKpiStats(list)
    BY DEF LB!deriveBaseKpiStats, LB!Decided, LB!Kept, LB!Ascending, LB!IsDecision,
           LB!Cardinality, LB!LatestOf, LB!Field, LB!isRecord, LB!Last,
           deriveBaseKpiStats, Decided, Kept, Ascending, IsDecision, Cardinality,
           LatestOf, Field, isRecord, Last
<1>3. v.kpi.totals = TotalsOf(list)
    <2>1. v.kpi = LB!kpi(list, form)
        BY DEF LB!LeakyBucketDashboard
    <2>2. LB!INITIAL_KPI(form).totals = NoTotals
        BY DEF LB!INITIAL_KPI, LB!NoTotals, NoTotals
    <2>3. LB!deriveKpi(list, form).totals = Totals(deriveBaseKpiStats(list))
        BY <1>2 DEF LB!deriveKpi, LB!Totals, Totals
    <2> HIDE DEF v
    <2> QED BY <2>1, <2>2, <2>3 DEF LB!kpi, TotalsOf
<1>4. LB!WithState(list) = WithState(list)
    BY DEF LB!WithState, LB!Kept, LB!Ascending, LB!IsDecision, LB!Cardinality,
           WithState, Kept, Ascending, IsDecision, Cardinality
<1>5. \E fields : v.timeline = Timeline(list, fields)
    <2>1. \A fields : LB!Timeline(list, fields) = Timeline(list, fields)
        BY DEF LB!Timeline, LB!Series, LB!Kept, LB!Ascending, LB!IsDecision,
               LB!Cardinality, LB!Figures, LB!Field, LB!isRecord,
               Timeline, Series, Kept, Ascending, IsDecision, Cardinality,
               Figures, Field, isRecord
    <2> QED BY <2>1 DEF LB!LeakyBucketDashboard, LB!OutcomeTimeline
<1>6. \E fields : v.log = LogTable(list, rejectedOnly, fields)
    <2>1. \A fields : LB!LogTable(list, rejectedOnly, fields)
                        = LogTable(list, rejectedOnly, fields)
        BY DEF LB!LogTable, LB!LogRow, LB!IsLogged, LB!Kept, LB!Ascending, LB!IsDecision,
               LB!Cardinality, LB!Figures, LB!Field, LB!isRecord,
               LogTable, LogRow, IsLogged, Kept, Ascending, IsDecision,
               Cardinality, Figures, Field, isRecord
    <2> QED BY <2>1 DEF LB!LeakyBucketDashboard, LB!RequestLogTable
<1>7. v.diagnostics = Diagnostics(list, 8)
    BY DEF LB!LeakyBucketDashboard, LB!diagnostics, LB!Diagnostics, LB!IssuePlaces, LB!IssueAt,
           LB!NotBefore, LB!AtMost, LB!Cardinality,
           Diagnostics, IssuePlaces, IssueAt, NotBefore, AtMost, Cardinality
<1>8. HasLength(v.chart.series, Len(WithState(list)))
    BY <1>4 DEF LB!LeakyBucketDashboard, LB!WaterLevelChart, LB!Series, HasLength
<1>9. v.contract = ContractSummary(list)
    BY DEF LB!LeakyBucketDashboard, LB!contractSummary, LB!ContractSummary,
           LB!IssueCount, LB!IssuePlaces, LB!IssueAt, LB!Cardinality,
           ContractSummary, IssueCount, IssuePlaces, IssueAt, Cardinality
<1> HIDE DEF v
<1> QED BY <1>1, <1>3, <1>5, <1>6, <1>7, <1>8, <1>9 DEF Shares

-----------------------------------------------------------------------------
(***************************************************************************)
(* What the views count, each in its own way, over a list of events.       *)
(***************************************************************************)
DecidedAt(list) == {i \in DOMAIN list : IsDecision(list[i])}
AllowedAt(list) == {i \in DOMAIN list : IsDecision(list[i]) /\ list[i].decision.allowed}
StatedAt(list) ==
    {i \in DOMAIN list : IsDecision(list[i]) /\ list[i].decision.algorithmState # null}

\* An event is a decision that says truly whether it has a state, or an error.
IsClear(event) ==
    IF IsDecision(event) THEN event.decision \in Decisions /\ WellIssued(event)
    ELSE event.kind = "synthetic_error" /\ event.issues = <<"request_error">>
Lists == {list \in Seq(Events) : \A i \in DOMAIN list : IsClear(list[i])}

LEMMA Counted == \A n \in Nat : IsFiniteSet(1 .. n) /\ Cardinality(1 .. n) = n
<1>1. ASSUME NEW n \in Nat
      PROVE  IsFiniteSet(1 .. n) /\ Cardinality(1 .. n) = n
    <2>1. Cardinality(1 .. n) = IF 1 > n THEN 0 ELSE n - 1 + 1
        BY FS_Interval
    <2> QED BY <2>1, FS_Interval
<1> QED BY <1>1

LEMMA Lengths ==
    ASSUME NEW list \in Lists
    PROVE  /\ list \in Seq(Events)
           /\ Len(list) \in Nat /\ DOMAIN list = 1 .. Len(list)
           /\ IsFiniteSet(DOMAIN list) /\ Cardinality(DOMAIN list) = Len(list)
           /\ \A I \in SUBSET DOMAIN list :
                IsFiniteSet(I) /\ Cardinality(I) \in Nat /\ Cardinality(I) <= Len(list)
<1>1. list \in Seq(Events)
    BY DEF Lists
<1>2. Len(list) \in Nat /\ DOMAIN list = 1 .. Len(list)
    BY <1>1, LenProperties
<1>3. IsFiniteSet(DOMAIN list) /\ Cardinality(DOMAIN list) = Len(list)
    BY <1>2, Counted
<1> QED BY <1>1, <1>2, <1>3, FS_Subset, FS_CardinalityType

LEMMA LengthOf ==
    ASSUME NEW f, NEW n \in Nat, HasLength(f, n)
    PROVE  Len(f) = n /\ DOMAIN f = 1 .. n
<1>1. \A k \in 1 .. n : f[k] \in {f[i] : i \in 1 .. n}
    OBVIOUS
<1>2. f \in [1 .. n -> {f[k] : k \in 1 .. n}]
    BY <1>1 DEF HasLength
<1>3. f \in Seq({f[k] : k \in 1 .. n})
    BY <1>2, SeqDef
<1>4. DOMAIN f = 1 .. n
    BY DEF HasLength
<1>5. DOMAIN f = 1 .. Len(f) /\ Len(f) \in Nat
    BY <1>3, LenProperties
<1> QED BY <1>4, <1>5

\* The totals.
LEMMA Totalled ==
    ASSUME NEW list \in Lists
    PROVE  LET totals == TotalsOf(list) IN
           /\ totals.total = Cardinality(DecidedAt(list))
           /\ totals.allowed = Cardinality(AllowedAt(list))
           /\ totals.rejected = Cardinality(DecidedAt(list)) - Cardinality(AllowedAt(list))
           /\ totals.lastRetryAfterMs # null => totals.rejected > 0
<1> DEFINE D == DecidedAt(list)
           A == AllowedAt(list)
           decided == Decided(list)
           K == {k \in DOMAIN decided : decided[k].decision.allowed}
           T == {k \in DOMAIN decided : /\ ~ decided[k].decision.allowed
                                        /\ decided[k].decision.retryAfterMs # null}
<1>1. D \subseteq DOMAIN list /\ A \subseteq D
    BY DEF DecidedAt, AllowedAt
<1>2. decided = Kept(list, D)
    BY DEF Decided, DecidedAt
<1>3. /\ decided \in Seq(Events) /\ DOMAIN decided = 1 .. Len(decided)
      /\ Len(decided) \in Nat /\ Len(decided) = Cardinality(D)
    <2> HIDE DEF D, decided
    <2> QED BY <1>1, <1>2, Lengths, KeptOnes
<1>4. Cardinality(K) = Cardinality(A)
    <2>1. \A k \in 1 .. Cardinality(D) : Ascending(D)[k] \in D
        <3>1. D \subseteq Int /\ IsFiniteSet(D)
            <4> HIDE DEF D
            <4> QED BY <1>1, Lengths
        <3> HIDE DEF D
        <3> QED BY <3>1, Ranked
    <2>2. \A k \in 1 .. Cardinality(D) : decided[k] = list[Ascending(D)[k]]
        BY <1>2 DEF Kept
    <2>3. \A i \in D : i \in A <=> list[i].decision.allowed
        BY DEF DecidedAt, AllowedAt
    <2> HIDE DEF D, A, decided
    <2>4. \A k \in 1 .. Cardinality(D) : k \in K <=> Ascending(D)[k] \in A
        BY <1>3, <2>1, <2>2, <2>3
    <2>5. K \subseteq 1 .. Cardinality(D)
        BY <1>3
    <2> HIDE DEF K
    <2> QED BY <1>1, <2>4, <2>5, Lengths, KeptCount
<1>5. IsFiniteSet(DOMAIN decided) /\ Cardinality(DOMAIN decided) = Len(decided)
    <2> HIDE DEF decided
    <2> QED BY <1>3, Counted
<1>6. Cardinality(K) \in Nat /\ IsFiniteSet(T)
      /\ (T # {} => Cardinality(K) < Len(decided))
    <2>1. K \in SUBSET DOMAIN decided /\ T \in SUBSET DOMAIN decided
        OBVIOUS
    <2>2. T # {} => K # DOMAIN decided
        OBVIOUS
    <2> HIDE DEF K, T, decided
    <2>3. IsFiniteSet(K) /\ IsFiniteSet(T) /\ Cardinality(K) <= Cardinality(DOMAIN decided)
        BY <1>5, <2>1, FS_Subset
    <2>4. T # {} => Cardinality(K) # Cardinality(DOMAIN decided)
        BY <1>5, <2>1, <2>2, FS_Subset
    <2>5. Cardinality(K) \in Nat
        BY <2>3, FS_CardinalityType
    <2> QED BY <1>3, <1>5, <2>3, <2>4, <2>5
<1>7. CASE list # <<>>
    <2> DEFINE timed == Kept(decided, T)
    <2>1. TotalsOf(list) = [total |-> Len(decided), allowed |-> Cardinality(K),
                            rejected |-> Len(decided) - Cardinality(K),
                            lastRetryAfterMs |-> Field(LatestOf(timed), "retryAfterMs")]
        BY <1>7 DEF TotalsOf, Totals, deriveBaseKpiStats
    <2>2. T = {} => timed = <<>>
        <3> HIDE DEF T, decided
        <3> QED BY FS_EmptySet DEF Kept
    <2> HIDE DEF D, A, K, T, decided, timed
    <2>3. timed = <<>> => Field(LatestOf(timed), "retryAfterMs") = null
        BY DEF LatestOf, Field, isRecord
    <2>4. Field(LatestOf(timed), "retryAfterMs") # null => Cardinality(K) < Len(decided)
        BY <1>6, <2>2, <2>3
    <2>5. TotalsOf(list).lastRetryAfterMs # null => Len(decided) - Cardinality(K) > 0
        BY <1>3, <1>6, <2>1, <2>4
    <2> QED BY <1>3, <1>4, <2>1, <2>5 DEF D, A
<1>8. CASE list = <<>>
    <2>1. D = {} /\ A = {}
        BY <1>8 DEF DecidedAt, AllowedAt
    <2>2. TotalsOf(list) = [total |-> 0, allowed |-> 0, rejected |-> 0, lastRetryAfterMs |-> null]
        BY <1>8 DEF TotalsOf, NoTotals
    <2> QED BY <2>1, <2>2, FS_EmptySet
<1> QED BY <1>7, <1>8

LEMMA KeptLength ==
    ASSUME NEW list \in Lists, NEW I, I \subseteq DOMAIN list
    PROVE  Len(Kept(list, I)) = Cardinality(I) /\ Cardinality(I) \in Nat
           /\ DOMAIN Kept(list, I) = 1 .. Cardinality(I)
BY Lengths, KeptOnes

\* A set and what it leaves of another.
LEMMA Rests ==
    ASSUME NEW S, IsFiniteSet(S), NEW T, T \subseteq S
    PROVE  Cardinality(S \ T) = Cardinality(S) - Cardinality(T)
<1>1. S \cap T = T
    OBVIOUS
<1> QED BY <1>1, FS_Difference

\* The rows of the timeline.
LEMMA Timelined ==
    ASSUME NEW list \in Lists, NEW fields
    PROVE  LET timeline == Timeline(list, fields) IN
           /\ Len(timeline.allowSeries) = Cardinality(AllowedAt(list))
           /\ Len(timeline.rejectSeries)
                = Cardinality(DecidedAt(list)) - Cardinality(AllowedAt(list))
<1> DEFINE At(isAllowed) ==
               {i \in DOMAIN list : IsDecision(list[i]) /\ list[i].decision.allowed = isAllowed}
           Row(isAllowed) ==
               IF isAllowed THEN Timeline(list, fields).allowSeries
               ELSE Timeline(list, fields).rejectSeries
<1>1. ASSUME NEW isAllowed \in BOOLEAN
      PROVE  HasLength(Row(isAllowed), Len(Kept(list, At(isAllowed))))
    BY DEF Timeline, Series, HasLength
<1>2. ASSUME NEW isAllowed \in BOOLEAN
      PROVE  Len(Row(isAllowed)) = Cardinality(At(isAllowed))
    <2>1. At(isAllowed) \subseteq DOMAIN list
        OBVIOUS
    <2>2. HasLength(Row(isAllowed), Len(Kept(list, At(isAllowed))))
        BY <1>1
    <2> HIDE DEF At, Row
    <2> QED BY <2>1, <2>2, KeptLength, LengthOf
<1>3. \A i \in DOMAIN list : IsDecision(list[i]) => list[i].decision.allowed \in BOOLEAN
    BY DEF Lists, IsClear, Decisions
<1>4. At(TRUE) = AllowedAt(list) /\ At(FALSE) = DecidedAt(list) \ AllowedAt(list)
    BY <1>3 DEF AllowedAt, DecidedAt
<1>5. /\ Len(Timeline(list, fields).allowSeries) = Cardinality(At(TRUE))
      /\ Len(Timeline(list, fields).rejectSeries) = Cardinality(At(FALSE))
    <2>1. Row(TRUE) = Timeline(list, fields).allowSeries
          /\ Row(FALSE) = Timeline(list, fields).rejectSeries
        OBVIOUS
    <2> HIDE DEF At, Row
    <2> QED BY <1>2, <2>1
<1>6. AllowedAt(list) \subseteq DecidedAt(list) /\ DecidedAt(list) \in SUBSET DOMAIN list
    BY DEF AllowedAt, DecidedAt
<1>7. IsFiniteSet(DecidedAt(list))
    BY <1>6, Lengths
<1> HIDE DEF At
<1> QED BY <1>4, <1>5, <1>6, <1>7, Rests

\* The log, and that of what was not allowed.
LEMMA Logged ==
    ASSUME NEW list \in Lists, NEW fields
    PROVE  /\ Len(LogTable(list, FALSE, fields)) = Len(list)
           /\ Len(LogTable(list, TRUE, fields)) = Len(list) - Cardinality(AllowedAt(list))
<1> DEFINE At(rejectedOnly) == {i \in DOMAIN list : IsLogged(list[i], rejectedOnly)}
<1>1. ASSUME NEW rejectedOnly
      PROVE  Len(LogTable(list, rejectedOnly, fields)) = Cardinality(At(rejectedOnly))
    <2> DEFINE kept == Kept(list, At(rejectedOnly))
               log == LogTable(list, rejectedOnly, fields)
    <2>1. At(rejectedOnly) \subseteq DOMAIN list
        OBVIOUS
    <2>2. log = [i \in DOMAIN kept |-> LogRow(kept[i], fields)]
        BY DEF LogTable
    <2> HIDE DEF At
    <2>3. DOMAIN kept = 1 .. Cardinality(At(rejectedOnly)) /\ Cardinality(At(rejectedOnly)) \in Nat
        BY <2>1, KeptLength
    <2> HIDE DEF kept, log
    <2>4. HasLength(log, Cardinality(At(rejectedOnly)))
        BY <2>2, <2>3 DEF HasLength
    <2>5. Len(log) = Cardinality(At(rejectedOnly))
        BY <2>3, <2>4, LengthOf
    <2> QED BY <2>5 DEF log
<1>2. At(FALSE) = DOMAIN list
    BY DEF IsLogged
<1>3. At(TRUE) = DOMAIN list \ AllowedAt(list)
    BY DEF Lists, IsClear, IsLogged, AllowedAt, IsDecision
<1>4. AllowedAt(list) \subseteq DOMAIN list
    BY DEF AllowedAt
<1> HIDE DEF At
<1> QED BY <1>1, <1>2, <1>3, <1>4, Lengths, Rests

LEMMA PlacesFinite ==
    ASSUME NEW list \in Lists
    PROVE  IsFiniteSet(IssuePlaces(list))
<1> DEFINE Places == [i \in DOMAIN list |-> {<<i, k>> : k \in DOMAIN list[i].issues}]
           All == {Places[i] : i \in DOMAIN list}
<1>1. ASSUME NEW i \in DOMAIN list
      PROVE  IsFiniteSet(Places[i])
    <2> DEFINE issues == list[i].issues
               pairs == [k \in DOMAIN issues |-> <<i, k>>]
               places == {<<i, k>> : k \in DOMAIN issues}
    <2>1. issues = <<"request_error">> \/ issues \in Seq(Codes)
        <3>1. list[i] \in Events
            BY Lengths, ElementOfSeq
        <3> QED BY <3>1 DEF Events
    <2>2. IsFiniteSet(DOMAIN issues)
        <3> HIDE DEF issues
        <3>1. CASE issues = <<"request_error">>
            <4>1. DOMAIN issues = {1}
                BY <3>1
            <4> QED BY <4>1, FS_Singleton
        <3>2. CASE issues \in Seq(Codes)
            BY <3>2, LenProperties, Counted
        <3> QED BY <2>1, <3>1, <3>2
    <2>3. pairs \in Surjection(DOMAIN issues, places)
        <3> HIDE DEF issues
        <3> QED BY DEF Surjection
    <2>4. Places[i] = places
        OBVIOUS
    <2> HIDE DEF issues, pairs, places, Places
    <2> QED BY <2>2, <2>3, <2>4, FS_Surjection
<1>2. IsFiniteSet(All)
    <2>1. Places \in Surjection(DOMAIN list, All)
        <3>1. Places = [i \in DOMAIN list |-> Places[i]]
            OBVIOUS
        <3> HIDE DEF Places
        <3> QED BY <3>1 DEF Surjection
    <2>2. IsFiniteSet(DOMAIN list)
        BY Lengths
    <2> HIDE DEF Places, All
    <2> QED BY <2>1, <2>2, FS_Surjection
<1>3. IssuePlaces(list) = UNION All
    BY DEF IssuePlaces
<1>4. \A T \in All : IsFiniteSet(T)
    <2> HIDE DEF Places
    <2> QED BY <1>1
<1> HIDE DEF All, Places
<1> QED BY <1>2, <1>3, <1>4, FS_UNION

\* The diagnostics.
LEMMA Diagnosed ==
    ASSUME NEW list \in Lists
    PROVE  Len(Diagnostics(list, 8)) <= 8
<1> DEFINE places == IssuePlaces(list)
           shown == AtMost(8, Cardinality(places))
<1>1. Cardinality(places) \in Nat
    BY PlacesFinite, FS_CardinalityType
<1>2. shown \in Nat /\ shown <= 8
    <2> HIDE DEF places
    <2> QED BY <1>1 DEF AtMost
<1>3. HasLength(Diagnostics(list, 8), shown)
    BY DEF Diagnostics, HasLength
<1> HIDE DEF shown
<1> QED BY <1>2, <1>3, LengthOf

\* The contract summary counts the decisions without a state.
LEMMA Missed ==
    ASSUME NEW list \in Lists
    PROVE  ContractSummary(list).missingBaselineState
             = Cardinality(DecidedAt(list)) - Cardinality(StatedAt(list))
<1> DEFINE M == {p \in IssuePlaces(list) : IssueAt(list, p) \in Stateless}
           without == DecidedAt(list) \ StatedAt(list)
           place == [i \in without |-> <<i, 1>>]
<1>1. ContractSummary(list).missingBaselineState = Cardinality(M)
    BY DEF ContractSummary, IssueCount, Stateless
<1>2. ASSUME NEW i \in DOMAIN list, NEW k \in DOMAIN list[i].issues
      PROVE  list[i].issues[k] \in Stateless <=> i \in without /\ k = 1
    <2>1. IsClear(list[i])
        BY DEF Lists
    <2>2. CASE IsDecision(list[i])
        BY <2>1, <2>2 DEF IsClear, WellIssued, Tells, DecidedAt, StatedAt
    <2>3. CASE ~ IsDecision(list[i])
        <3>1. list[i].issues = <<"request_error">>
            BY <2>1, <2>3 DEF IsClear
        <3>2. list[i].issues[k] = "request_error"
            BY <3>1
        <3> QED BY <2>3, <3>2 DEF Stateless, DecidedAt
    <2> QED BY <2>2, <2>3
<1>3. \A i \in without : i \in DOMAIN list /\ 1 \in DOMAIN list[i].issues
    BY DEF Lists, IsClear, WellIssued, Tells, DecidedAt, StatedAt
<1>4. M = {<<i, 1>> : i \in without}
    <2>1. \A i \in DOMAIN list : \A k \in DOMAIN list[i].issues :
            IssueAt(list, <<i, k>>) = list[i].issues[k]
        BY DEF IssueAt
    <2>2. \A p : p \in M <=> \E i \in DOMAIN list : \E k \in DOMAIN list[i].issues :
                                p = <<i, k>> /\ IssueAt(list, p) \in Stateless
        BY DEF IssuePlaces
    <2> HIDE DEF M, without
    <2>3. \A p : p \in M <=> \E i \in without : p = <<i, 1>>
        BY <1>2, <1>3, <2>1, <2>2
    <2> QED BY <2>3
<1>5. place \in Bijection(without, M)
    <2> HIDE DEF without, M
    <2> QED BY <1>4 DEF Bijection, Injection, Surjection, IsInjective
<1>6. StatedAt(list) \subseteq DecidedAt(list) /\ DecidedAt(list) \in SUBSET DOMAIN list
    BY DEF StatedAt, DecidedAt
<1>7. IsFiniteSet(DecidedAt(list))
    BY <1>6, Lengths
<1>8. IsFiniteSet(without) /\ Cardinality(without)
            = Cardinality(DecidedAt(list)) - Cardinality(StatedAt(list))
    BY <1>6, <1>7, Rests, FS_Subset
<1>9. Cardinality(M) = Cardinality(without)
    <2> HIDE DEF M, without, place
    <2> QED BY <1>5, <1>8, FS_Bijection DEF ExistsBijection
<1> QED BY <1>1, <1>8, <1>9

\* The boundaries of a fixed window's chart.
LEMMA Bounded ==
    ASSUME NEW list \in Lists
    PROVE  LET lines == Ascending(FW!WindowStarts(list)) IN
           /\ Increasing(lines)
           /\ ToSet(lines) = FW!WindowStarts(list)
<1> DEFINE points == WithState(list)
           begin == [i \in DOMAIN points |-> points[i].decision.algorithmState.windowStartMs]
           starts == FW!WindowStarts(list)
<1>1. starts = {begin[i] : i \in DOMAIN points}
    <2>1. FW!WithState(list) = points
        BY DEF FW!WithState, FW!Kept, FW!Ascending, FW!IsDecision, FW!Cardinality,
               WithState, Kept, Ascending, IsDecision, Cardinality
    <2>2. starts =
            {e.decision.algorithmState.windowStartMs : e \in {points[i] : i \in DOMAIN points}}
        BY <2>1 DEF FW!WindowStarts, FW!ToSet
    <2> HIDE DEF points, starts
    <2> QED BY <2>2
<1>2. points = Kept(list, StatedAt(list)) /\ StatedAt(list) \subseteq DOMAIN list
    BY DEF WithState, StatedAt
<1>3. /\ DOMAIN points = 1 .. Cardinality(StatedAt(list)) /\ Cardinality(StatedAt(list)) \in Nat
      /\ \A k \in DOMAIN points : \E i \in StatedAt(list) : points[k] = list[i]
    <2> HIDE DEF points
    <2> QED BY <1>2, KeptLength, KeptOnes, Lengths
<1>4. \A i \in StatedAt(list) : list[i].decision.algorithmState.windowStartMs \in Int
    BY DEF Lists, IsClear, WellIssued, Tells, StatedAt
<1>5. starts \subseteq Int
    <2>1. \A k \in DOMAIN points : begin[k] \in Int
        <3> HIDE DEF points
        <3> QED BY <1>3, <1>4
    <2> HIDE DEF points, begin, starts
    <2> QED BY <1>1, <2>1
<1>6. IsFiniteSet(starts)
    <2>1. IsFiniteSet(DOMAIN points)
        <3> HIDE DEF points
        <3> QED BY <1>3, Counted
    <2>2. begin \in Surjection(DOMAIN points, starts)
        <3>1. begin = [i \in DOMAIN points |-> begin[i]]
            OBVIOUS
        <3> HIDE DEF points, begin, starts
        <3> QED BY <1>1, <3>1 DEF Surjection
    <2> HIDE DEF points, begin, starts
    <2> QED BY <2>1, <2>2, FS_Surjection
<1> DEFINE lines == Ascending(starts)
           size == Cardinality(starts)
<1>7. /\ lines \in [1 .. size -> starts]
      /\ \A i, k \in 1 .. size : i < k => lines[i] < lines[k]
      /\ \A x \in starts : \E k \in 1 .. size : lines[k] = x
    <2> HIDE DEF starts
    <2> QED BY <1>5, <1>6, InOrder
<1>8. Increasing(lines)
    <2> HIDE DEF lines, size, starts
    <2> QED BY <1>7 DEF Increasing
<1>9. ToSet(lines) = starts
    <2> HIDE DEF lines, size, starts
    <2> QED BY <1>7 DEF ToSet
<1> QED BY <1>8, <1>9

\* What the views of a list show.
LEMMA ViewsOfList ==
    ASSUME NEW list \in Lists, list = events, NEW form, page \in PageNames
    PROVE  Agree(Dashboard(page, list, form, FALSE), Dashboard(page, list, form, TRUE).log,
                 Len(Decided(list)) - Len(WithState(list)))
<1> DEFINE v == Dashboard(page, list, form, FALSE)
           rejections == Dashboard(page, list, form, TRUE).log
           total == Cardinality(DecidedAt(list))
           allowed == Cardinality(AllowedAt(list))
           stated == Cardinality(StatedAt(list))
<1>1. /\ Shares(v, list, FALSE)
      /\ Shares(Dashboard(page, list, form, TRUE), list, TRUE)
      /\ page = "fixed_window" => v.chart.boundaryLines = Ascending(FW!WindowStarts(list))
      /\ page # "fixed_window" => v.contract = ContractSummary(list)
    <2>1. CASE page = "fixed_window"
        BY <2>1, FixedWindowShares
    <2>2. CASE page = "sliding_log"
        BY <2>2, SlidingLogShares
    <2>3. CASE page = "sliding_window_counter"
        BY <2>3, SlidingWindowCounterShares
    <2>4. CASE page = "token_bucket"
        BY <2>4, TokenBucketShares
    <2>5. CASE page = "leaky_bucket"
        BY <2>5, LeakyBucketShares
    <2> QED BY <2>1, <2>2, <2>3, <2>4, <2>5 DEF PageNames
<1>2. /\ total \in Nat /\ allowed \in Nat /\ stated \in Nat /\ Len(list) \in Nat
      /\ Len(Decided(list)) = total /\ Len(WithState(list)) = stated
    <2>1. /\ DecidedAt(list) \subseteq DOMAIN list /\ AllowedAt(list) \subseteq DOMAIN list
          /\ StatedAt(list) \subseteq DOMAIN list
        BY DEF DecidedAt, AllowedAt, StatedAt
    <2>2. /\ Decided(list) = Kept(list, DecidedAt(list))
          /\ WithState(list) = Kept(list, StatedAt(list))
        BY DEF Decided, WithState, DecidedAt, StatedAt
    <2> QED BY <2>1, <2>2, KeptLength, Lengths
<1>3. /\ v.kpi.totals.total = total /\ v.kpi.totals.allowed = allowed
      /\ v.kpi.totals.rejected = total - allowed
      /\ v.kpi.totals.lastRetryAfterMs # null => v.kpi.totals.rejected > 0
    <2> HIDE DEF v
    <2> QED BY <1>1, Totalled DEF Shares
<1>4. /\ Len(v.timeline.allowSeries) = allowed
      /\ Len(v.timeline.rejectSeries) = total - allowed
    <2> HIDE DEF v
    <2> QED BY <1>1, Timelined DEF Shares
<1>5. Len(v.chart.series) = stated
    <2> HIDE DEF v
    <2> QED BY <1>1, <1>2, LengthOf DEF Shares
<1>6. Len(v.log) = Len(list) /\ Len(rejections) = Len(list) - allowed
    <2>1. \E fields : v.log = LogTable(list, FALSE, fields)
        BY <1>1 DEF Shares
    <2>2. \E fields : rejections = LogTable(list, TRUE, fields)
        BY <1>1 DEF Shares
    <2> HIDE DEF v, rejections
    <2> QED BY <2>1, <2>2, Logged
<1>7. Len(v.diagnostics) <= 8
    <2> HIDE DEF v
    <2> QED BY <1>1, Diagnosed DEF Shares
<1>8. page = "fixed_window" => /\ Increasing(v.chart.boundaryLines)
                               /\ ToSet(v.chart.boundaryLines) = FW!WindowStarts(list)
    <2> HIDE DEF v
    <2> QED BY <1>1, Bounded
<1>9. page # "fixed_window" => v.contract.missingBaselineState = total - stated
    <2> HIDE DEF v
    <2> QED BY <1>1, Missed
<1>10. Agree(v, rejections, Len(Decided(list)) - Len(WithState(list)))
    <2> HIDE DEF v, rejections, total, allowed, stated
    <2>1. Len(v.chart.series) + (total - stated) = total
          /\ Len(list) = Len(list) - allowed + allowed
        BY <1>2, <1>5
    <2> QED BY <1>2, <1>3, <1>4, <1>6, <1>7, <1>8, <1>9, <2>1 DEF Agree
<1> QED BY <1>10

\* The cards, the timeline, the chart, the contract summary, the diagnostics
\* and the log of a page, each computed from the events on its own, count the
\* same decisions, whatever the calls come to and however long the list is
\* (deriveBaseKpiStats, the charts' useMemo, buildContractSummary, RequestLogTable).
THEOREM ViewsDoAgree == Spec => []ViewsAgree
<1>1. IInv /\ Issued => ViewsAgree
    <2> SUFFICES ASSUME IInv, Issued
                 PROVE  ViewsAgree
        OBVIOUS
    <2>1. Types /\ Shown
        BY DEF IInv
    <2>2. events \in Seq(Events) /\ page \in PageNames
        BY <2>1 DEF Types
    <2>3. \A i \in DOMAIN events : IsClear(events[i])
        <3>1. \A i \in DOMAIN events : IsDecision(events[i]) => events[i].decision \in Decisions
            BY <2>1 DEF Shown, IsShown, Says, IsDecision
        <3>2. \A i \in DOMAIN events : ~ IsDecision(events[i]) =>
                events[i].kind = "synthetic_error" /\ events[i].issues = <<"request_error">>
            BY <2>1 DEF Shown, IsShown
        <3> QED BY <3>1, <3>2 DEF IsClear, Issued
    <2>4. events \in Lists
        BY <2>2, <2>3 DEF Lists
    <2> QED BY <2>2, <2>4, ViewsOfList DEF ViewsAgree, View
<1> QED BY <1>1, Invariant, AlwaysIssued, PTL

-----------------------------------------------------------------------------
(***************************************************************************)
(* The policy endpoints, on gateways in which ids and names are unique.    *)
(***************************************************************************)
IsGateway(gw) ==
    /\ DOMAIN gw = {"rows", "active"} /\ gw.rows \subseteq PolicyRows
    /\ \A row, other \in gw.rows : row.id = other.id \/ row.name = other.name => row = other
    /\ \A row \in gw.rows : row.id # Cardinality(gw.rows) + 1
    /\ Cardinality(gw.rows) \in Int
    /\ gw.active # null => \E row \in gw.rows : row.id = gw.active.id

\* Params that are stored as they are sent, and a row that has them.
Sendable(params) ==
    /\ params \in PolicyParams /\ ValidParams(page, params)
    /\ NormalizedParams(page, params) = params
Settled(row, params) ==
    /\ row \in PolicyRows /\ row.algorithm = page /\ row.params_json = params
    /\ row.enabled = TRUE

Updating(params) == [algorithm |-> page, params_json |-> params, enabled |-> TRUE]
Creating(params) ==
    [name |-> DashboardName(page), algorithm |-> page, params_json |-> params, enabled |-> TRUE]

\* A gateway with a row that has the params, in the place of one of the page's
\* algorithm or new, and all others as they were.
Takes(gw, after, new, params) ==
    /\ Settled(new, params) /\ new \in after.rows
    /\ DOMAIN after = {"rows", "active"} /\ after.active = gw.active
    /\ \A row, other \in after.rows : row.id = other.id => row = other
    /\ \A row \in gw.rows : row.id # new.id => row \in after.rows
    /\ \A row \in gw.rows : row.id = new.id => row.algorithm = page

LEMMA RowFound ==
    ASSUME NEW gw, \A row, other \in gw.rows : row.id = other.id => row = other,
           NEW row \in gw.rows
    PROVE  RowOf(gw, row.id) = row /\ Known(gw, row.id)
BY DEF RowOf, Known

WithRows(gw, rows) == [gw EXCEPT !.rows = rows]
WithActive(gw, new) == [gw EXCEPT !.active = new]

LEMMA RowsReplaced ==
    ASSUME NEW gw, DOMAIN gw = {"rows", "active"}, NEW rows
    PROVE  LET after == WithRows(gw, rows) IN
           DOMAIN after = {"rows", "active"} /\ after.rows = rows /\ after.active = gw.active
BY DEF WithRows

LEMMA ActiveReplaced ==
    ASSUME NEW gw, DOMAIN gw = {"rows", "active"}, NEW new
    PROVE  LET after == WithActive(gw, new) IN
           DOMAIN after = {"rows", "active"} /\ after.rows = gw.rows /\ after.active = new
BY DEF WithActive

Changed(row, params) ==
    [row EXCEPT !.algorithm = page, !.params_json = params, !.enabled = TRUE,
                !.version = @ + 1]

LEMMA RowChanged ==
    ASSUME page \in PageNames, NEW row \in PolicyRows, NEW params \in PolicyParams
    PROVE  LET new == Changed(row, params) IN
           Settled(new, params) /\ new.id = row.id /\ new.name = row.name
<1> DEFINE new == Changed(row, params)
<1>1. /\ DOMAIN row = {"id", "name", "algorithm", "params_json", "enabled", "version"}
      /\ row.id \in Int /\ row.name \in Names /\ row.version \in Int
    BY DEF PolicyRows
<1>2. /\ new.id = row.id /\ new.name = row.name /\ new.algorithm = page
      /\ new.params_json = params /\ new.enabled = TRUE /\ new.version = row.version + 1
    BY <1>1 DEF Changed
<1>3. DOMAIN new = DOMAIN row /\ new = [x \in DOMAIN new |-> new[x]]
    BY DEF Changed
<1> HIDE DEF new
<1>4. /\ new.id \in Int /\ new.name \in Names /\ new.algorithm \in PageNames
      /\ new.params_json \in PolicyParams /\ new.enabled \in BOOLEAN /\ new.version \in Int
    <2>1. new.version \in Int
        BY <1>1, <1>2
    <2>2. new.enabled \in BOOLEAN
        BY <1>2
    <2>3. new.id \in Int /\ new.name \in Names
        BY <1>1, <1>2
    <2>4. new.algorithm \in PageNames /\ new.params_json \in PolicyParams
        BY <1>2
    <2> QED BY <2>1, <2>2, <2>3, <2>4
<1>5. new \in PolicyRows
    BY <1>1, <1>3, <1>4 DEF PolicyRows
<1> QED BY <1>2, <1>5 DEF Settled, new

LEMMA RowUpdated ==
    ASSUME page \in PageNames, NEW gw, IsGateway(gw), NEW row \in gw.rows, row.algorithm = page,
           NEW params, Sendable(params)
    PROVE  LET t == UpdateRow(gw, row.id, Updating(params)) IN Takes(gw, t.gw, t.body, params)
<1> DEFINE body == Updating(params)
           t == UpdateRow(gw, row.id, body)
           new == Changed(row, params)
           rows == (gw.rows \ {row}) \cup {new}
<1>1. RowOf(gw, row.id) = row /\ Known(gw, row.id)
    BY RowFound DEF IsGateway
<1>2. /\ body.algorithm = page /\ body.params_json = params
      /\ OrElse(Field(body, "enabled"), row.enabled) = TRUE
    <2>1. DOMAIN body = {"algorithm", "params_json", "enabled"} /\ body.enabled = TRUE
          /\ body.algorithm = page /\ body.params_json = params
        BY DEF Updating
    <2>2. body \in PolicyUpdates
        BY DEF PolicyUpdates, Updating, Sendable
    <2>3. TRUE # null
        BY NullAssumption
    <2> HIDE DEF body
    <2> QED BY <2>1, <2>2, <2>3, PolicyNullAssumption DEF Field, isRecord, OrElse
<1> HIDE DEF body
<1>3. ValidParams(page, params) /\ NormalizedParams(page, params) = params
    BY DEF Sendable
<1>4. t = [gw |-> WithRows(gw, rows), body |-> new]
    BY <1>1, <1>2, <1>3 DEF UpdateRow, WithRows, Changed
<1>5. Settled(new, params) /\ new.id = row.id /\ new.name = row.name
    BY RowChanged DEF IsGateway, Sendable
<1> HIDE DEF t, new
<1>6. /\ t.body = new /\ t.gw.rows = rows /\ t.gw.active = gw.active
      /\ DOMAIN t.gw = {"rows", "active"}
    <2>1. t.gw = WithRows(gw, rows) /\ t.body = new
        BY <1>4
    <2> HIDE DEF rows
    <2> QED BY <2>1, RowsReplaced DEF IsGateway
<1>7. \A other \in gw.rows : other.id = row.id => other = row
    BY DEF IsGateway
<1>8. \A other \in rows : other = new \/ (other \in gw.rows /\ other # row)
    OBVIOUS
<1>9. \A other \in gw.rows : other.id # new.id => other \in rows
    BY <1>5
<1>10. \A a, b \in rows : a.id = b.id => a = b
    BY <1>5, <1>7, <1>8 DEF IsGateway
<1>11. new \in rows
    OBVIOUS
<1> HIDE DEF rows
<1>12. Takes(gw, t.gw, t.body, params)
    BY <1>5, <1>6, <1>7, <1>9, <1>10, <1>11 DEF Takes
<1> QED BY <1>12 DEF t, body

\* A name that is taken leaves the gateway as it was.
LEMMA RowCreated ==
    ASSUME page \in PageNames, NEW gw, IsGateway(gw), NEW params, Sendable(params)
    PROVE  LET t == CreateRow(gw, Creating(params)) IN
           \/ Takes(gw, t.gw, t.body, params)
           \/ /\ t = Failed(gw)
              /\ \E row \in gw.rows : row.name = DashboardName(page)
<1> DEFINE body == Creating(params)
           t == CreateRow(gw, body)
           new == [id |-> Cardinality(gw.rows) + 1, name |-> DashboardName(page),
                   algorithm |-> page, params_json |-> params, enabled |-> TRUE, version |-> 1]
           rows == gw.rows \cup {new}
           taken == \E row \in gw.rows : row.name = DashboardName(page)
<1>1. /\ body.name = DashboardName(page) /\ body.algorithm = page
      /\ body.params_json = params /\ body.enabled = TRUE
    BY DEF Creating
<1> HIDE DEF body
<1>2. ValidParams(page, params) /\ NormalizedParams(page, params) = params
    BY DEF Sendable
<1>3. taken => t = Failed(gw)
    BY <1>1 DEF CreateRow
<1>4. ~ taken => t = [gw |-> WithRows(gw, rows), body |-> new]
    BY <1>1, <1>2 DEF CreateRow, WithRows
<1>5. Settled(new, params) /\ new.id = Cardinality(gw.rows) + 1
    <2>1. Cardinality(gw.rows) + 1 \in Int /\ DashboardName(page) \in Names
        BY NamesAssumption DEF IsGateway
    <2>2. params \in PolicyParams
        BY DEF Sendable
    <2>3. new \in PolicyRows
        BY <2>1, <2>2 DEF PolicyRows
    <2> QED BY <2>3 DEF Settled
<1>6. /\ \A other \in gw.rows : other.id # new.id
      /\ \A other \in rows : other = new \/ other \in gw.rows
      /\ \A a, b \in gw.rows : a.id = b.id => a = b
    BY <1>5 DEF IsGateway
<1> HIDE DEF t, new
<1>7. /\ \A a, b \in rows : a.id = b.id => a = b
      /\ \A other \in gw.rows : other \in rows
      /\ new \in rows
    BY <1>6
<1>8. ASSUME ~ taken PROVE Takes(gw, t.gw, t.body, params)
    <2>1. t.gw = WithRows(gw, rows) /\ t.body = new
        BY <1>4, <1>8
    <2> HIDE DEF rows
    <2>2. t.gw.rows = rows /\ t.gw.active = gw.active /\ DOMAIN t.gw = {"rows", "active"}
        BY <2>1, RowsReplaced DEF IsGateway
    <2> QED BY <1>5, <1>6, <1>7, <2>1, <2>2 DEF Takes
<1>9. Takes(gw, t.gw, t.body, params) \/ (t = Failed(gw) /\ taken)
    BY <1>3, <1>8
<1> QED BY <1>9 DEF t, body

\* Activation names the row that has been settled on, and changes no row.
LEMMA RowActivated ==
    ASSUME NEW gw, NEW after, NEW new, NEW params, Takes(gw, after, new, params)
    PROVE  LET t == ActivateRow(after, new.id) IN
           /\ t.body = new /\ t.gw.rows = after.rows /\ ActiveRow(t.gw) = new
           /\ RowOf(t.gw, new.id) = new
           /\ \A row \in after.rows : RowOf(t.gw, row.id) = row
<1> DEFINE t == ActivateRow(after, new.id)
           named == [id |-> new.id, algorithm |-> new.algorithm]
<1>1. RowOf(after, new.id) = new /\ Known(after, new.id) /\ new.enabled = TRUE
    BY RowFound DEF Takes, Settled
<1>2. t = [gw |-> WithActive(after, named), body |-> new]
    BY <1>1 DEF ActivateRow, WithActive
<1> HIDE DEF t
<1>3. t.gw = WithActive(after, named) /\ t.body = new
    BY <1>2
<1>4. named \in PolicyActives /\ named.id = new.id /\ named.algorithm = new.algorithm
    BY DEF PolicyActives, Takes, Settled, PolicyRows
<1> HIDE DEF named
<1>5. t.gw.rows = after.rows /\ t.gw.active = named
    BY <1>3, ActiveReplaced DEF Takes
<1>6. \A row \in after.rows : RowOf(t.gw, row.id) = row
    BY <1>5, RowFound DEF Takes
<1>7. new \in after.rows
    BY DEF Takes
<1>8. t.gw.active # null
    BY <1>4, <1>5, PolicyNullAssumption
<1>9. ActiveRow(t.gw) = new
    BY <1>4, <1>5, <1>6, <1>7, <1>8 DEF ActiveRow
<1> QED BY <1>3, <1>5, <1>6, <1>7, <1>9 DEF t

-----------------------------------------------------------------------------
(***************************************************************************)
(* The form.                                                               *)
(***************************************************************************)
PolicyFields ==
    CASE page \in Windowed -> {"limit", "windowSizeSec"}
      [] page = "token_bucket" -> {"capacity", "refillRatePerSec", "tokensPerRequest"}
      [] page = "leaky_bucket" -> {"capacity", "leakRatePerSec", "waterPerRequest"}
FormRates == {"refillRatePerSec", "leakRatePerSec"}
LeastFor(f) ==
    IF f = "rotatingPoolSize" THEN 2 * One ELSE IF f \in FormRates THEN 1 ELSE One
ClampedTo(f, v) ==
    IF f \in FormRates THEN safeNumber(v, LeastFor(f)) ELSE Floor(safeNumber(v, LeastFor(f)))
IsClamped(f) == f \in PolicyFields \cup {"rps", "rotatingPoolSize"}

\* What a page's fields are, by the kind of its policy.
LEMMA PageFields ==
    ASSUME page \in PageNames
    PROVE  /\ page \in Windowed => PolicyFields = {"limit", "windowSizeSec"}
           /\ page = "token_bucket" =>
                PolicyFields = {"capacity", "refillRatePerSec", "tokensPerRequest"}
           /\ page = "leaky_bucket" =>
                PolicyFields = {"capacity", "leakRatePerSec", "waterPerRequest"}
           /\ page \in Windowed \/ page = "token_bucket" \/ page = "leaky_bucket"
<1>1. page \in Windowed \/ page = "token_bucket" \/ page = "leaky_bucket"
    BY DEF PageNames, Windowed
<1>2. CASE page \in Windowed
    <2>1. page # "token_bucket" /\ page # "leaky_bucket"
        BY <1>2 DEF Windowed
    <2>2. PolicyFields = {"limit", "windowSizeSec"}
        BY <1>2, <2>1 DEF PolicyFields
    <2> QED BY <1>1, <2>1, <2>2
<1>3. CASE page = "token_bucket"
    <2>1. page \notin Windowed /\ page # "leaky_bucket"
        BY <1>3 DEF Windowed
    <2>2. PolicyFields = {"capacity", "refillRatePerSec", "tokensPerRequest"}
        BY <1>3, <2>1 DEF PolicyFields
    <2> QED BY <1>1, <2>1, <2>2
<1>4. CASE page = "leaky_bucket"
    <2>1. page \notin Windowed /\ page # "token_bucket"
        BY <1>4 DEF Windowed
    <2>2. PolicyFields = {"capacity", "leakRatePerSec", "waterPerRequest"}
        BY <1>4, <2>1 DEF PolicyFields
    <2> QED BY <1>1, <2>1, <2>2
<1> QED BY <1>1, <1>2, <1>3, <1>4

LEMMA SameFunction ==
    ASSUME NEW f, NEW g, f = [x \in DOMAIN f |-> f[x]], g = [x \in DOMAIN g |-> g[x]],
           DOMAIN f = DOMAIN g, \A x \in DOMAIN f : f[x] = g[x]
    PROVE  f = g
OBVIOUS

LEMMA FixedWindowClamps ==
    ASSUME page = "fixed_window", NEW raw, \A f \in FormNumbers : f \in DOMAIN raw
    PROVE  clampConfig(page, raw) =
               [f \in DOMAIN raw |-> IF IsClamped(f) THEN ClampedTo(f, raw[f]) ELSE raw[f]]
<1> DEFINE c == FW!clampConfig(raw)
           g == [f \in DOMAIN raw |-> IF IsClamped(f) THEN ClampedTo(f, raw[f]) ELSE raw[f]]
<1>1. clampConfig(page, raw) = c
    BY DEF clampConfig
<1>2. DOMAIN c = DOMAIN raw /\ c = [x \in DOMAIN c |-> c[x]]
    BY DEF FW!clampConfig
<1>3. {"limit", "windowSizeSec", "rps", "rotatingPoolSize"} \subseteq DOMAIN raw
    BY DEF FormNumbers
<1>4. \A f : IsClamped(f) <=> f \in {"limit", "windowSizeSec", "rps", "rotatingPoolSize"}
    BY PageFields DEF IsClamped, PageNames, Windowed
<1>5. \A f \in DOMAIN raw : ~ IsClamped(f) => c[f] = raw[f]
    BY <1>4 DEF FW!clampConfig
<1>6. c.limit = ClampedTo("limit", raw.limit)
    BY <1>3 DEF FW!clampConfig, FW!Floor, FW!safeNumber, FW!AtLeast, FW!One,
           ClampedTo, LeastFor, FormRates, Floor, safeNumber, AtLeast, One
<1>7. c.windowSizeSec = ClampedTo("windowSizeSec", raw.windowSizeSec)
    BY <1>3 DEF FW!clampConfig, FW!Floor, FW!safeNumber, FW!AtLeast, FW!One,
           ClampedTo, LeastFor, FormRates, Floor, safeNumber, AtLeast, One
<1>8. c.rps = ClampedTo("rps", raw.rps)
    BY <1>3 DEF FW!clampConfig, FW!Floor, FW!safeNumber, FW!AtLeast, FW!One,
           ClampedTo, LeastFor, FormRates, Floor, safeNumber, AtLeast, One
<1>9. c.rotatingPoolSize = ClampedTo("rotatingPoolSize", raw.rotatingPoolSize)
    BY <1>3 DEF FW!clampConfig, FW!Floor, FW!safeNumber, FW!AtLeast, FW!One,
           ClampedTo, LeastFor, FormRates, Floor, safeNumber, AtLeast, One
<1> HIDE DEF c
<1>10. \A f \in DOMAIN raw : c[f] = IF IsClamped(f) THEN ClampedTo(f, raw[f]) ELSE raw[f]
    BY <1>4, <1>5, <1>6, <1>7, <1>8, <1>9
<1>11. c = g
    BY <1>2, <1>10
<1> QED BY <1>1, <1>11

LEMMA SlidingLogClamps ==
    ASSUME page = "sliding_log", NEW raw, \A f \in FormNumbers : f \in DOMAIN raw
    PROVE  clampConfig(page, raw) =
               [f \in DOMAIN raw |-> IF IsClamped(f) THEN ClampedTo(f, raw[f]) ELSE raw[f]]
<1> DEFINE c == SL!clampConfig(raw)
           g == [f \in DOMAIN raw |-> IF IsClamped(f) THEN ClampedTo(f, raw[f]) ELSE raw[f]]
<1>1. clampConfig(page, raw) = c
    BY DEF clampConfig
<1>2. DOMAIN c = DOMAIN raw /\ c = [x \in DOMAIN c |-> c[x]]
    BY DEF SL!clampConfig
<1>3. {"limit", "windowSizeSec", "rps", "rotatingPoolSize"} \subseteq DOMAIN raw
    BY DEF FormNumbers
<1>4. \A f : IsClamped(f) <=> f \in {"limit", "windowSizeSec", "rps", "rotatingPoolSize"}
    BY PageFields DEF IsClamped, PageNames, Windowed
<1>5. \A f \in DOMAIN raw : ~ IsClamped(f) => c[f] = raw[f]
    BY <1>4 DEF SL!clampConfig
<1>6. c.limit = ClampedTo("limit", raw.limit)
    BY <1>3 DEF SL!clampConfig, SL!Floor, SL!safeNumber, SL!AtLeast, SL!One,
           ClampedTo, LeastFor, FormRates, Floor, safeNumber, AtLeast, One
<1>7. c.windowSizeSec = ClampedTo("windowSizeSec", raw.windowSizeSec)
    BY <1>3 DEF SL!clampConfig, SL!Floor, SL!safeNumber, SL!AtLeast, SL!One,
           ClampedTo, LeastFor, FormRates, Floor, safeNumber, AtLeast, One
<1>8. c.rps = ClampedTo("rps", raw.rps)
    BY <1>3 DEF SL!clampConfig, SL!Floor, SL!safeNumber, SL!AtLeast, SL!One,
           ClampedTo, LeastFor, FormRates, Floor, safeNumber, AtLeast, One
<1>9. c.rotatingPoolSize = ClampedTo("rotatingPoolSize", raw.rotatingPoolSize)
    BY <1>3 DEF SL!clampConfig, SL!Floor, SL!safeNumber, SL!AtLeast, SL!One,
           ClampedTo, LeastFor, FormRates, Floor, safeNumber, AtLeast, One
<1> HIDE DEF c
<1>10. \A f \in DOMAIN raw : c[f] = IF IsClamped(f) THEN ClampedTo(f, raw[f]) ELSE raw[f]
    BY <1>4, <1>5, <1>6, <1>7, <1>8, <1>9
<1>11. c = g
    BY <1>2, <1>10
<1> QED BY <1>1, <1>11

LEMMA SlidingWindowCounterClamps ==
    ASSUME page = "sliding_window_counter", NEW raw, \A f \in FormNumbers : f \in DOMAIN raw
    PROVE  clampConfig(page, raw) =
               [f \in DOMAIN raw |-> IF IsClamped(f) THEN ClampedTo(f, raw[f]) ELSE raw[f]]
<1> DEFINE c == SWC!clampConfig(raw)
           g == [f \in DOMAIN raw |-> IF IsClamped(f) THEN ClampedTo(f, raw[f]) ELSE raw[f]]
<1>1. clampConfig(page, raw) = c
    BY DEF clampConfig
<1>2. DOMAIN c = DOMAIN raw /\ c = [x \in DOMAIN c |-> c[x]]
    BY DEF SWC!clampConfig
<1>3. {"limit", "windowSizeSec", "rps", "rotatingPoolSize"} \subseteq DOMAIN raw
    BY DEF FormNumbers
<1>4. \A f : IsClamped(f) <=> f \in {"limit", "windowSizeSec", "rps", "rotatingPoolSize"}
    BY PageFields DEF IsClamped, PageNames, Windowed
<1>5. \A f \in DOMAIN raw : ~ IsClamped(f) => c[f] = raw[f]
    BY <1>4 DEF SWC!clampConfig
<1>6. c.limit = ClampedTo("limit", raw.limit)
    BY <1>3 DEF SWC!clampConfig, SWC!Floor, SWC!safeNumber, SWC!AtLeast, SWC!One,
           ClampedTo, LeastFor, FormRates, Floor, safeNumber, AtLeast, One
<1>7. c.windowSizeSec = ClampedTo("windowSizeSec", raw.windowSizeSec)
    BY <1>3 DEF SWC!clampConfig, SWC!Floor, SWC!safeNumber, SWC!AtLeast, SWC!One,
           ClampedTo, LeastFor, FormRates, Floor, safeNumber, AtLeast, One
<1>8. c.rps = ClampedTo("rps", raw.rps)
    BY <1>3 DEF SWC!clampConfig, SWC!Floor, SWC!safeNumber, SWC!AtLeast, SWC!One,
           ClampedTo, LeastFor, FormRates, Floor, safeNumber, AtLeast, One
<1>9. c.rotatingPoolSize = ClampedTo("rotatingPoolSize", raw.rotatingPoolSize)
    BY <1>3 DEF SWC!clampConfig, SWC!Floor, SWC!safeNumber, SWC!AtLeast, SWC!One,
           ClampedTo, LeastFor, FormRates, Floor, safeNumber, AtLeast, One
<1> HIDE DEF c
<1>10. \A f \in DOMAIN raw : c[f] = IF IsClamped(f) THEN ClampedTo(f, raw[f]) ELSE raw[f]
    BY <1>4, <1>5, <1>6, <1>7, <1>8, <1>9
<1>11. c = g
    BY <1>2, <1>10
<1> QED BY <1>1, <1>11

LEMMA TokenBucketClamps ==
    ASSUME page = "token_bucket", NEW raw, \A f \in FormNumbers : f \in DOMAIN raw
    PROVE  clampConfig(page, raw) =
               [f \in DOMAIN raw |-> IF IsClamped(f) THEN ClampedTo(f, raw[f]) ELSE raw[f]]
<1> DEFINE c == TB!clampConfig(raw)
           g == [f \in DOMAIN raw |-> IF IsClamped(f) THEN ClampedTo(f, raw[f]) ELSE raw[f]]
<1>1. clampConfig(page, raw) = c
    BY DEF clampConfig
<1>2. DOMAIN c = DOMAIN raw /\ c = [x \in DOMAIN c |-> c[x]]
    BY DEF TB!clampConfig
<1>3. {"capacity", "refillRatePerSec", "tokensPerRequest", "rps", "rotatingPoolSize"}
          \subseteq DOMAIN raw
    BY DEF FormNumbers
<1>4. \A f : IsClamped(f) <=>
          f \in {"capacity", "refillRatePerSec", "tokensPerRequest", "rps", "rotatingPoolSize"}
    BY PageFields DEF IsClamped, PageNames, Windowed
<1>5. \A f \in DOMAIN raw : ~ IsClamped(f) => c[f] = raw[f]
    BY <1>4 DEF TB!clampConfig
<1>6. c.capacity = ClampedTo("capacity", raw.capacity)
    BY <1>3 DEF TB!clampConfig, TB!Floor, TB!safeNumber, TB!AtLeast, TB!One,
           ClampedTo, LeastFor, FormRates, Floor, safeNumber, AtLeast, One
<1>7. c.refillRatePerSec = ClampedTo("refillRatePerSec", raw.refillRatePerSec)
    BY <1>3 DEF TB!clampConfig, TB!Floor, TB!safeNumber, TB!AtLeast, TB!One,
           ClampedTo, LeastFor, FormRates, Floor, safeNumber, AtLeast, One
<1>8. c.tokensPerRequest = ClampedTo("tokensPerRequest", raw.tokensPerRequest)
    BY <1>3 DEF TB!clampConfig, TB!Floor, TB!safeNumber, TB!AtLeast, TB!One,
           ClampedTo, LeastFor, FormRates, Floor, safeNumber, AtLeast, One
<1>9. c.rps = ClampedTo("rps", raw.rps)
    BY <1>3 DEF TB!clampConfig, TB!Floor, TB!safeNumber, TB!AtLeast, TB!One,
           ClampedTo, LeastFor, FormRates, Floor, safeNumber, AtLeast, One
<1>10. c.rotatingPoolSize = ClampedTo("rotatingPoolSize", raw.rotatingPoolSize)
    BY <1>3 DEF TB!clampConfig, TB!Floor, TB!safeNumber, TB!AtLeast, TB!One,
           ClampedTo, LeastFor, FormRates, Floor, safeNumber, AtLeast, One
<1> HIDE DEF c
<1>11. \A f \in DOMAIN raw : c[f] = IF IsClamped(f) THEN ClampedTo(f, raw[f]) ELSE raw[f]
    BY <1>4, <1>5, <1>6, <1>7, <1>8, <1>9, <1>10
<1>12. c = g
    BY <1>2, <1>11
<1> QED BY <1>1, <1>12

LEMMA LeakyBucketClamps ==
    ASSUME page = "leaky_bucket", NEW raw, \A f \in FormNumbers : f \in DOMAIN raw
    PROVE  clampConfig(page, raw) =
               [f \in DOMAIN raw |-> IF IsClamped(f) THEN ClampedTo(f, raw[f]) ELSE raw[f]]
<1> DEFINE c == LB!clampConfig(raw)
           g == [f \in DOMAIN raw |-> IF IsClamped(f) THEN ClampedTo(f, raw[f]) ELSE raw[f]]
<1>1. clampConfig(page, raw) = c
    BY DEF clampConfig
<1>2. DOMAIN c = DOMAIN raw /\ c = [x \in DOMAIN c |-> c[x]]
    BY DEF LB!clampConfig
<1>3. {"capacity", "leakRatePerSec", "waterPerRequest", "rps", "rotatingPoolSize"}
          \subseteq DOMAIN raw
    BY DEF FormNumbers
<1>4. \A f : IsClamped(f) <=>
          f \in {"capacity", "leakRatePerSec", "waterPerRequest", "rps", "rotatingPoolSize"}
    BY PageFields DEF IsClamped, PageNames, Windowed
<1>5. \A f \in DOMAIN raw : ~ IsClamped(f) => c[f] = raw[f]
    BY <1>4 DEF LB!clampConfig
<1>6. c.capacity = ClampedTo("capacity", raw.capacity)
    BY <1>3 DEF LB!clampConfig, LB!Floor, LB!safeNumber, LB!AtLeast, LB!One,
           ClampedTo, LeastFor, FormRates, Floor, safeNumber, AtLeast, One
<1>7. c.leakRatePerSec = ClampedTo("leakRatePerSec", raw.leakRatePerSec)
    BY <1>3 DEF LB!clampConfig, LB!Floor, LB!safeNumber, LB!AtLeast, LB!One,
           ClampedTo, LeastFor, FormRates, Floor, safeNumber, AtLeast, One
<1>8. c.waterPerRequest = ClampedTo("waterPerRequest", raw.waterPerRequest)
    BY <1>3 DEF LB!clampConfig, LB!Floor, LB!safeNumber, LB!AtLeast, LB!One,
           ClampedTo, LeastFor, FormRates, Floor, safeNumber, AtLeast, One
<1>9. c.rps = ClampedTo("rps", raw.rps)
    BY <1>3 DEF LB!clampConfig, LB!Floor, LB!safeNumber, LB!AtLeast, LB!One,
           ClampedTo, LeastFor, FormRates, Floor, safeNumber, AtLeast, One
<1>10. c.rotatingPoolSize = ClampedTo("rotatingPoolSize", raw.rotatingPoolSize)
    BY <1>3 DEF LB!clampConfig, LB!Floor, LB!safeNumber, LB!AtLeast, LB!One,
           ClampedTo, LeastFor, FormRates, Floor, safeNumber, AtLeast, One
<1> HIDE DEF c
<1>11. \A f \in DOMAIN raw : c[f] = IF IsClamped(f) THEN ClampedTo(f, raw[f]) ELSE raw[f]
    BY <1>4, <1>5, <1>6, <1>7, <1>8, <1>9, <1>10
<1>12. c = g
    BY <1>2, <1>11
<1> QED BY <1>1, <1>12

IsForm(raw) == \A f \in FormNumbers : f \in DOMAIN raw

LEMMA PageClamps ==
    ASSUME page \in PageNames, NEW raw, IsForm(raw)
    PROVE  clampConfig(page, raw) =
               [f \in DOMAIN raw |-> IF IsClamped(f) THEN ClampedTo(f, raw[f]) ELSE raw[f]]
BY FixedWindowClamps, SlidingLogClamps, SlidingWindowCounterClamps, TokenBucketClamps,
   LeakyBucketClamps DEF PageNames, IsForm

LEMMA ClampedFields ==
    ASSUME page \in PageNames
    PROVE  \A f : IsClamped(f) => f \in FormNumbers
BY PageFields DEF IsClamped, FormNumbers

\* A number that has been clamped is positive, and whole if it is no rate, and
\* stays as it is.
LEMMA ClampedOnce ==
    ASSUME NEW f, NEW v \in Number
    PROVE  LET w == ClampedTo(f, v) IN
           /\ w \in Int /\ w > 0 /\ ClampedTo(f, w) = w
           /\ f \notin FormRates => w = Floor(w)
<1>1. LeastFor(f) \in {1, 100, 200} /\ (f \notin FormRates => LeastFor(f) \in {100, 200})
    BY DEF LeastFor, One
<1> DEFINE least == LeastFor(f)
           s == safeNumber(v, least)
<1> HIDE DEF least
<1>2. least \in {1, 100, 200} /\ (f \notin FormRates => least \in {100, 200})
    BY <1>1 DEF least
<1>3. s \in Int /\ s >= least
    <2>1. v \in Int \/ v = null
        BY DEF Number
    <2> QED BY <1>2, <2>1 DEF safeNumber, AtLeast
<1> HIDE DEF s
<1>4. CASE f \in FormRates
    <2>1. ClampedTo(f, v) = s
        BY <1>4 DEF ClampedTo, s, least
    <2>2. ClampedTo(f, s) = safeNumber(s, least)
        BY <1>4 DEF ClampedTo, least
    <2>3. s # null
        BY <1>3, NullAssumption
    <2>4. safeNumber(s, least) = s
        BY <1>2, <1>3, <2>3 DEF safeNumber, AtLeast
    <2> QED BY <1>2, <1>3, <1>4, <2>1, <2>2, <2>4
<1>5. CASE f \notin FormRates
    <2> DEFINE w == Floor(s)
    <2>1. ClampedTo(f, v) = w
        BY <1>5 DEF ClampedTo, s, least
    <2>2. ClampedTo(f, w) = Floor(safeNumber(w, least))
        BY <1>5 DEF ClampedTo, least
    <2>3. w \in Int /\ w >= least /\ w % One = 0 /\ Floor(w) = w
        BY <1>2, <1>3, <1>5 DEF Floor, One
    <2> HIDE DEF w
    <2>4. w # null
        BY <2>3, NullAssumption
    <2>5. safeNumber(w, least) = w
        BY <1>2, <2>3, <2>4 DEF safeNumber, AtLeast
    <2> QED BY <1>2, <1>5, <2>1, <2>2, <2>3, <2>5
<1> QED BY <1>4, <1>5

-----------------------------------------------------------------------------
\* A form that takes the numbers of a policy.
Overlaid(form, numbers) ==
    [f \in DOMAIN form |-> IF f \in PolicyFields THEN numbers[f] ELSE form[f]]
Applying(form, numbers) == clampConfig(page, Overlaid(form, numbers))

LEMMA FixedWindowApplies ==
    ASSUME page = "fixed_window", NEW form, IsForm(form), NEW policy
    PROVE  FW!applyPolicy(form, policy) = Applying(form, policy.numbers)
<1> DEFINE f == [form EXCEPT !.limit = policy.numbers.limit,
                              !.windowSizeSec = policy.numbers.windowSizeSec]
           g == Overlaid(form, policy.numbers)
<1>1. {"limit", "windowSizeSec"} \subseteq DOMAIN form
    BY DEF IsForm, FormNumbers
<1>2. PolicyFields = {"limit", "windowSizeSec"}
    BY PageFields DEF PageNames, Windowed
<1>3. DOMAIN f = DOMAIN form /\ f = [x \in DOMAIN f |-> f[x]]
    OBVIOUS
<1>4. DOMAIN g = DOMAIN form /\ g = [x \in DOMAIN g |-> g[x]]
    BY DEF Overlaid
<1>5. \A x \in DOMAIN form : f[x] = g[x]
    BY <1>1, <1>2 DEF Overlaid
<1> HIDE DEF f, g
<1>6. f = g
    BY <1>3, <1>4, <1>5
<1>7. FW!applyPolicy(form, policy) = FW!clampConfig(f)
    BY DEF FW!applyPolicy, f
<1>8. clampConfig(page, g) = FW!clampConfig(g)
    BY DEF clampConfig
<1> QED BY <1>6, <1>7, <1>8 DEF Applying, g

LEMMA SlidingLogApplies ==
    ASSUME page = "sliding_log", NEW form, IsForm(form), NEW policy
    PROVE  SL!applyPolicy(form, policy) = Applying(form, policy.numbers)
<1> DEFINE f == [form EXCEPT !.limit = policy.numbers.limit,
                              !.windowSizeSec = policy.numbers.windowSizeSec]
           g == Overlaid(form, policy.numbers)
<1>1. {"limit", "windowSizeSec"} \subseteq DOMAIN form
    BY DEF IsForm, FormNumbers
<1>2. PolicyFields = {"limit", "windowSizeSec"}
    BY PageFields DEF PageNames, Windowed
<1>3. DOMAIN f = DOMAIN form /\ f = [x \in DOMAIN f |-> f[x]]
    OBVIOUS
<1>4. DOMAIN g = DOMAIN form /\ g = [x \in DOMAIN g |-> g[x]]
    BY DEF Overlaid
<1>5. \A x \in DOMAIN form : f[x] = g[x]
    BY <1>1, <1>2 DEF Overlaid
<1> HIDE DEF f, g
<1>6. f = g
    BY <1>3, <1>4, <1>5
<1>7. SL!applyPolicy(form, policy) = SL!clampConfig(f)
    BY DEF SL!applyPolicy, f
<1>8. clampConfig(page, g) = SL!clampConfig(g)
    BY DEF clampConfig
<1> QED BY <1>6, <1>7, <1>8 DEF Applying, g

LEMMA SlidingWindowCounterApplies ==
    ASSUME page = "sliding_window_counter", NEW form, IsForm(form), NEW policy
    PROVE  SWC!applyPolicy(form, policy) = Applying(form, policy.numbers)
<1> DEFINE f == [form EXCEPT !.limit = policy.numbers.limit,
                              !.windowSizeSec = policy.numbers.windowSizeSec]
           g == Overlaid(form, policy.numbers)
<1>1. {"limit", "windowSizeSec"} \subseteq DOMAIN form
    BY DEF IsForm, FormNumbers
<1>2. PolicyFields = {"limit", "windowSizeSec"}
    BY PageFields DEF PageNames, Windowed
<1>3. DOMAIN f = DOMAIN form /\ f = [x \in DOMAIN f |-> f[x]]
    OBVIOUS
<1>4. DOMAIN g = DOMAIN form /\ g = [x \in DOMAIN g |-> g[x]]
    BY DEF Overlaid
<1>5. \A x \in DOMAIN form : f[x] = g[x]
    BY <1>1, <1>2 DEF Overlaid
<1> HIDE DEF f, g
<1>6. f = g
    BY <1>3, <1>4, <1>5
<1>7. SWC!applyPolicy(form, policy) = SWC!clampConfig(f)
    BY DEF SWC!applyPolicy, f
<1>8. clampConfig(page, g) = SWC!clampConfig(g)
    BY DEF clampConfig
<1> QED BY <1>6, <1>7, <1>8 DEF Applying, g

LEMMA TokenBucketApplies ==
    ASSUME page = "token_bucket", NEW form, IsForm(form), NEW policy
    PROVE  TB!applyPolicy(form, policy) = Applying(form, policy.numbers)
<1> DEFINE f == [form EXCEPT !.capacity = policy.numbers.capacity,
                              !.refillRatePerSec = policy.numbers.refillRatePerSec,
                              !.tokensPerRequest = policy.numbers.tokensPerRequest]
           g == Overlaid(form, policy.numbers)
<1>1. {"capacity", "refillRatePerSec", "tokensPerRequest"} \subseteq DOMAIN form
    BY DEF IsForm, FormNumbers
<1>2. PolicyFields = {"capacity", "refillRatePerSec", "tokensPerRequest"}
    BY PageFields DEF PageNames, Windowed
<1>3. DOMAIN f = DOMAIN form /\ f = [x \in DOMAIN f |-> f[x]]
    OBVIOUS
<1>4. DOMAIN g = DOMAIN form /\ g = [x \in DOMAIN g |-> g[x]]
    BY DEF Overlaid
<1>5. \A x \in DOMAIN form : f[x] = g[x]
    BY <1>1, <1>2 DEF Overlaid
<1> HIDE DEF f, g
<1>6. f = g
    BY <1>3, <1>4, <1>5
<1>7. TB!applyPolicy(form, policy) = TB!clampConfig(f)
    BY DEF TB!applyPolicy, f
<1>8. clampConfig(page, g) = TB!clampConfig(g)
    BY DEF clampConfig
<1> QED BY <1>6, <1>7, <1>8 DEF Applying, g

LEMMA LeakyBucketApplies ==
    ASSUME page = "leaky_bucket", NEW form, IsForm(form), NEW policy
    PROVE  LB!applyPolicy(form, policy) = Applying(form, policy.numbers)
<1> DEFINE f == [form EXCEPT !.capacity = policy.numbers.capacity,
                              !.leakRatePerSec = policy.numbers.leakRatePerSec,
                              !.waterPerRequest = policy.numbers.waterPerRequest]
           g == Overlaid(form, policy.numbers)
<1>1. {"capacity", "leakRatePerSec", "waterPerRequest"} \subseteq DOMAIN form
    BY DEF IsForm, FormNumbers
<1>2. PolicyFields = {"capacity", "leakRatePerSec", "waterPerRequest"}
    BY PageFields DEF PageNames, Windowed
<1>3. DOMAIN f = DOMAIN form /\ f = [x \in DOMAIN f |-> f[x]]
    OBVIOUS
<1>4. DOMAIN g = DOMAIN form /\ g = [x \in DOMAIN g |-> g[x]]
    BY DEF Overlaid
<1>5. \A x \in DOMAIN form : f[x] = g[x]
    BY <1>1, <1>2 DEF Overlaid
<1> HIDE DEF f, g
<1>6. f = g
    BY <1>3, <1>4, <1>5
<1>7. LB!applyPolicy(form, policy) = LB!clampConfig(f)
    BY DEF LB!applyPolicy, f
<1>8. clampConfig(page, g) = LB!clampConfig(g)
    BY DEF clampConfig
<1> QED BY <1>6, <1>7, <1>8 DEF Applying, g

\* What is clamped takes its own numbers back, and so does what was typed.
LEMMA ApplyingOwn ==
    ASSUME page \in PageNames, NEW raw \in RawForms, NEW numbers,
           \A f \in PolicyFields : numbers[f] = clampConfig(page, raw)[f]
    PROVE  LET c == clampConfig(page, raw) IN
           IsForm(c) /\ Applying(c, numbers) = c /\ Applying(raw, numbers) = c
<1> DEFINE c == clampConfig(page, raw)
           Clamp(form) ==
               [f \in DOMAIN form |-> IF IsClamped(f) THEN ClampedTo(f, form[f]) ELSE form[f]]
<1>1. IsForm(raw) /\ \A f \in FormNumbers : raw[f] \in Number
    BY RawFormsAssumption DEF IsForm
<1>2. c = Clamp(raw)
    BY <1>1, PageClamps
<1> HIDE DEF c
<1>3. DOMAIN c = DOMAIN raw /\ c = [f \in DOMAIN c |-> c[f]]
    BY <1>2
<1>4. \A f \in DOMAIN raw :
          /\ IsClamped(f) => c[f] = ClampedTo(f, raw[f])
          /\ ~ IsClamped(f) => c[f] = raw[f]
    BY <1>2
<1>5. \A f \in PolicyFields : IsClamped(f)
    BY DEF IsClamped
<1>6. \A f \in DOMAIN raw : IsClamped(f) => ClampedTo(f, c[f]) = c[f]
    <2> SUFFICES ASSUME NEW f \in DOMAIN raw, IsClamped(f) PROVE ClampedTo(f, c[f]) = c[f]
        OBVIOUS
    <2>1. raw[f] \in Number
        BY <1>1, ClampedFields
    <2> QED BY <1>4, <2>1, ClampedOnce
<1>7. IsForm(c)
    BY <1>1, <1>3 DEF IsForm
<1>8. \A f \in PolicyFields : numbers[f] = c[f]
    BY DEF c
<1>9. ASSUME NEW form, form = raw \/ form = c PROVE Applying(form, numbers) = c
    <2> DEFINE over == Overlaid(form, numbers)
               d == Clamp(over)
    <2>1. DOMAIN over = DOMAIN raw
        BY <1>3, <1>9 DEF Overlaid
    <2>2. \A f \in DOMAIN raw : over[f] = IF f \in PolicyFields THEN c[f] ELSE form[f]
        BY <1>3, <1>8, <1>9 DEF Overlaid
    <2> HIDE DEF over
    <2>3. Applying(form, numbers) = d
        <3>1. IsForm(over)
            BY <1>1, <2>1 DEF IsForm
        <3>2. clampConfig(page, over) = d
            BY <3>1, PageClamps
        <3> QED BY <3>2 DEF Applying, over
    <2>4. DOMAIN d = DOMAIN raw /\ d = [f \in DOMAIN d |-> d[f]]
        BY <2>1
    <2>5. \A f \in DOMAIN raw : d[f] = IF IsClamped(f) THEN ClampedTo(f, over[f]) ELSE over[f]
        BY <2>1
    <2> HIDE DEF d
    <2>6. \A f \in DOMAIN raw : d[f] = c[f]
        <3> SUFFICES ASSUME NEW f \in DOMAIN raw PROVE d[f] = c[f]
            OBVIOUS
        <3>1. CASE ~ IsClamped(f)
            BY <1>4, <1>5, <1>9, <2>2, <2>5, <3>1
        <3>2. CASE IsClamped(f) /\ over[f] = c[f]
            BY <1>6, <2>5, <3>2
        <3>3. CASE IsClamped(f) /\ over[f] = raw[f]
            BY <1>4, <2>5, <3>3
        <3> QED BY <1>9, <2>2, <3>1, <3>2, <3>3
    <2>7. d = c
        BY <1>3, <2>4, <2>6
    <2> QED BY <2>3, <2>7
<1>10. IsForm(c) /\ Applying(c, numbers) = c /\ Applying(raw, numbers) = c
    BY <1>7, <1>9
<1> QED BY <1>10 DEF c

-----------------------------------------------------------------------------
(***************************************************************************)
(* A policy as the page reads it.                                          *)
(***************************************************************************)
Snap(row) == mapPolicySnapshot(page, row)

\* What a form holds once it has been clamped.
Sound(c) ==
    \A f \in PolicyFields :
        c[f] \in Int /\ c[f] > 0 /\ (f \notin FormRates => Floor(c[f]) = c[f])

Tallies(row, s) ==
    /\ row.algorithm = page /\ DOMAIN s = {"id", "name", "enabled", "version", "numbers"}
    /\ s.id = row.id /\ s.name = row.name /\ s.enabled = row.enabled

\* The form's numbers as they are stored.
LEMMA ParamsOfForm ==
    ASSUME page \in PageNames, NEW c
    PROVE  /\ page \in Windowed => FormParams(c) =
                [limit |-> c.limit, window_size_sec |-> c.windowSizeSec]
           /\ page = "token_bucket" => FormParams(c) =
                [capacity |-> c.capacity, refill_rate_per_sec |-> c.refillRatePerSec,
                 tokens_per_request |-> c.tokensPerRequest]
           /\ page = "leaky_bucket" => FormParams(c) =
                [capacity |-> c.capacity, leak_rate_per_sec |-> c.leakRatePerSec,
                 water_per_request |-> c.waterPerRequest]
<1>1. page \in Windowed \/ page = "token_bucket" \/ page = "leaky_bucket"
    BY DEF PageNames, Windowed
<1>2. CASE page \in Windowed
    <2>1. page # "token_bucket" /\ page # "leaky_bucket"
        BY <1>2 DEF Windowed
    <2>2. FormParams(c) = [limit |-> c.limit, window_size_sec |-> c.windowSizeSec]
        BY <1>2, <2>1 DEF FormParams
    <2> QED BY <2>1, <2>2
<1>3. CASE page = "token_bucket"
    <2>1. page \notin Windowed /\ page # "leaky_bucket"
        BY <1>3 DEF Windowed
    <2>2. FormParams(c) =
              [capacity |-> c.capacity, refill_rate_per_sec |-> c.refillRatePerSec,
               tokens_per_request |-> c.tokensPerRequest]
        BY <1>3, <2>1 DEF FormParams
    <2> QED BY <2>1, <2>2
<1>4. CASE page = "leaky_bucket"
    <2>1. page \notin Windowed /\ page # "token_bucket"
        BY <1>4 DEF Windowed
    <2>2. FormParams(c) =
              [capacity |-> c.capacity, leak_rate_per_sec |-> c.leakRatePerSec,
               water_per_request |-> c.waterPerRequest]
        BY <1>4, <2>1 DEF FormParams
    <2> QED BY <2>1, <2>2
<1> QED BY <1>1, <1>2, <1>3, <1>4

LEMMA FixedWindowReads ==
    ASSUME page = "fixed_window", NEW row
    PROVE  /\ Snap(row) = FW!mapPolicySnapshot(row)
           /\ Snap(row) # null => Tallies(row, Snap(row))
<1>1. Snap(row) = FW!mapPolicySnapshot(row)
    BY DEF Snap, mapPolicySnapshot
<1>2. FW!mapPolicySnapshot(row) # null => Tallies(row, FW!mapPolicySnapshot(row))
    BY DEF FW!mapPolicySnapshot, FW!PolicySnapshot, Tallies
<1> QED BY <1>1, <1>2

LEMMA FixedWindowReread ==
    ASSUME page = "fixed_window", NEW c, Sound(c), NEW row, Settled(row, FormParams(c))
    PROVE  Snap(row) # null /\ \A f \in PolicyFields : Snap(row).numbers[f] = c[f]
<1> DEFINE params == row.params_json
           s == Snap(row)
           limit == FW!toPositiveIntOrNull(FW!Field(params, "limit"))
           windowSizeSec == FW!toPositiveIntOrNull(FW!Field(params, "window_size_sec"))
           numbers == [limit |-> limit, windowSizeSec |-> windowSizeSec]
<1>1. PolicyFields = {"limit", "windowSizeSec"}
    BY PageFields DEF PageNames, Windowed
<1>2. /\ DOMAIN params = {"limit", "window_size_sec"}
      /\ params.limit = c.limit /\ params.window_size_sec = c.windowSizeSec
    <2>1. params = FormParams(c)
        BY DEF Settled
    <2> HIDE DEF params
    <2> QED BY <2>1, ParamsOfForm DEF PageNames, Windowed
<1>3. params # null
    BY PolicyNullAssumption DEF Settled, PolicyRows
<1> HIDE DEF params
<1>4. limit = c.limit /\ c.limit \in Int
    <2>1. c.limit \in Int /\ c.limit > 0
          /\ Floor(c.limit) = c.limit
        BY <1>1 DEF Sound, FormRates
    <2>2. c.limit # null
        BY <2>1, NullAssumption
    <2>3. FW!Field(params, "limit") = c.limit
        BY <1>2, <1>3 DEF FW!Field, FW!isRecord
    <2> QED BY <2>1, <2>2, <2>3 DEF FW!toPositiveIntOrNull, FW!toNumberOrNull,
            FW!Floor, FW!One, Floor, One
<1>5. windowSizeSec = c.windowSizeSec /\ c.windowSizeSec \in Int
    <2>1. c.windowSizeSec \in Int /\ c.windowSizeSec > 0
          /\ Floor(c.windowSizeSec) = c.windowSizeSec
        BY <1>1 DEF Sound, FormRates
    <2>2. c.windowSizeSec # null
        BY <2>1, NullAssumption
    <2>3. FW!Field(params, "window_size_sec") = c.windowSizeSec
        BY <1>2, <1>3 DEF FW!Field, FW!isRecord
    <2> QED BY <2>1, <2>2, <2>3 DEF FW!toPositiveIntOrNull, FW!toNumberOrNull,
            FW!Floor, FW!One, Floor, One
<1> HIDE DEF limit, windowSizeSec
<1>6. /\ \A f \in PolicyFields : numbers[f] = c[f]
      /\ numbers.limit # null /\ numbers.windowSizeSec # null
      /\ numbers \in PolicyNumbers
    <2>1. \A f \in PolicyFields : numbers[f] = c[f]
        BY <1>1, <1>4, <1>5
    <2>2. numbers.limit # null /\ numbers.windowSizeSec # null
        BY <1>4, <1>5, NullAssumption
    <2>3. numbers \in PolicyNumbers
        BY <1>4, <1>5 DEF PolicyNumbers, Number
    <2> QED BY <2>1, <2>2, <2>3
<1>7. s = FW!mapPolicySnapshot(row)
    BY FixedWindowReads
<1>8. FW!mapPolicySnapshot(row) =
          FW!PolicySnapshot(row, page, numbers, {"limit", "windowSizeSec"})
    BY DEF FW!mapPolicySnapshot, limit, windowSizeSec, params
<1> HIDE DEF numbers
<1>9. s = [id |-> row.id, name |-> row.name, enabled |-> row.enabled,
            version |-> row.version, numbers |-> numbers]
    BY <1>3, <1>6, <1>7, <1>8
    DEF FW!PolicySnapshot, FW!isRecord, FW!Present, Settled, params
<1>10. s \in PolicySnapshots
    BY <1>6, <1>9 DEF PolicySnapshots, Settled, PolicyRows
<1> QED BY <1>6, <1>9, <1>10, PolicyNullAssumption

LEMMA SlidingLogReads ==
    ASSUME page = "sliding_log", NEW row
    PROVE  /\ Snap(row) = SL!mapPolicySnapshot(row)
           /\ Snap(row) # null => Tallies(row, Snap(row))
<1>1. Snap(row) = SL!mapPolicySnapshot(row)
    BY DEF Snap, mapPolicySnapshot
<1>2. SL!mapPolicySnapshot(row) # null => Tallies(row, SL!mapPolicySnapshot(row))
    BY DEF SL!mapPolicySnapshot, SL!PolicySnapshot, Tallies
<1> QED BY <1>1, <1>2

LEMMA SlidingLogReread ==
    ASSUME page = "sliding_log", NEW c, Sound(c), NEW row, Settled(row, FormParams(c))
    PROVE  Snap(row) # null /\ \A f \in PolicyFields : Snap(row).numbers[f] = c[f]
<1> DEFINE params == row.params_json
           s == Snap(row)
           limit == SL!toPositiveIntOrNull(SL!Field(params, "limit"))
           windowSizeSec == SL!toPositiveIntOrNull(SL!Field(params, "window_size_sec"))
           numbers == [limit |-> limit, windowSizeSec |-> windowSizeSec]
<1>1. PolicyFields = {"limit", "windowSizeSec"}
    BY PageFields DEF PageNames, Windowed
<1>2. /\ DOMAIN params = {"limit", "window_size_sec"}
      /\ params.limit = c.limit /\ params.window_size_sec = c.windowSizeSec
    <2>1. params = FormParams(c)
        BY DEF Settled
    <2> HIDE DEF params
    <2> QED BY <2>1, ParamsOfForm DEF PageNames, Windowed
<1>3. params # null
    BY PolicyNullAssumption DEF Settled, PolicyRows
<1> HIDE DEF params
<1>4. limit = c.limit /\ c.limit \in Int
    <2>1. c.limit \in Int /\ c.limit > 0
          /\ Floor(c.limit) = c.limit
        BY <1>1 DEF Sound, FormRates
    <2>2. c.limit # null
        BY <2>1, NullAssumption
    <2>3. SL!Field(params, "limit") = c.limit
        BY <1>2, <1>3 DEF SL!Field, SL!isRecord
    <2> QED BY <2>1, <2>2, <2>3 DEF SL!toPositiveIntOrNull, SL!toNumberOrNull,
            SL!Floor, SL!One, Floor, One
<1>5. windowSizeSec = c.windowSizeSec /\ c.windowSizeSec \in Int
    <2>1. c.windowSizeSec \in Int /\ c.windowSizeSec > 0
          /\ Floor(c.windowSizeSec) = c.windowSizeSec
        BY <1>1 DEF Sound, FormRates
    <2>2. c.windowSizeSec # null
        BY <2>1, NullAssumption
    <2>3. SL!Field(params, "window_size_sec") = c.windowSizeSec
        BY <1>2, <1>3 DEF SL!Field, SL!isRecord
    <2> QED BY <2>1, <2>2, <2>3 DEF SL!toPositiveIntOrNull, SL!toNumberOrNull,
            SL!Floor, SL!One, Floor, One
<1> HIDE DEF limit, windowSizeSec
<1>6. /\ \A f \in PolicyFields : numbers[f] = c[f]
      /\ numbers.limit # null /\ numbers.windowSizeSec # null
      /\ numbers \in PolicyNumbers
    <2>1. \A f \in PolicyFields : numbers[f] = c[f]
        BY <1>1, <1>4, <1>5
    <2>2. numbers.limit # null /\ numbers.windowSizeSec # null
        BY <1>4, <1>5, NullAssumption
    <2>3. numbers \in PolicyNumbers
        BY <1>4, <1>5 DEF PolicyNumbers, Number
    <2> QED BY <2>1, <2>2, <2>3
<1>7. s = SL!mapPolicySnapshot(row)
    BY SlidingLogReads
<1>8. SL!mapPolicySnapshot(row) =
          SL!PolicySnapshot(row, page, numbers, {"limit", "windowSizeSec"})
    BY DEF SL!mapPolicySnapshot, limit, windowSizeSec, params
<1> HIDE DEF numbers
<1>9. s = [id |-> row.id, name |-> row.name, enabled |-> row.enabled,
            version |-> row.version, numbers |-> numbers]
    BY <1>3, <1>6, <1>7, <1>8
    DEF SL!PolicySnapshot, SL!isRecord, SL!Present, Settled, params
<1>10. s \in PolicySnapshots
    BY <1>6, <1>9 DEF PolicySnapshots, Settled, PolicyRows
<1> QED BY <1>6, <1>9, <1>10, PolicyNullAssumption

LEMMA SlidingWindowCounterReads ==
    ASSUME page = "sliding_window_counter", NEW row
    PROVE  /\ Snap(row) = SWC!mapPolicySnapshot(row)
           /\ Snap(row) # null => Tallies(row, Snap(row))
<1>1. Snap(row) = SWC!mapPolicySnapshot(row)
    BY DEF Snap, mapPolicySnapshot
<1>2. SWC!mapPolicySnapshot(row) # null => Tallies(row, SWC!mapPolicySnapshot(row))
    BY DEF SWC!mapPolicySnapshot, SWC!PolicySnapshot, Tallies
<1> QED BY <1>1, <1>2

LEMMA SlidingWindowCounterReread ==
    ASSUME page = "sliding_window_counter", NEW c, Sound(c), NEW row, Settled(row, FormParams(c))
    PROVE  Snap(row) # null /\ \A f \in PolicyFields : Snap(row).numbers[f] = c[f]
<1> DEFINE params == row.params_json
           s == Snap(row)
           limit == SWC!toPositiveIntOrNull(SWC!Field(params, "limit"))
           windowSizeSec == SWC!toPositiveIntOrNull(SWC!Field(params, "window_size_sec"))
           numbers == [limit |-> limit, windowSizeSec |-> windowSizeSec]
<1>1. PolicyFields = {"limit", "windowSizeSec"}
    BY PageFields DEF PageNames, Windowed
<1>2. /\ DOMAIN params = {"limit", "window_size_sec"}
      /\ params.limit = c.limit /\ params.window_size_sec = c.windowSizeSec
    <2>1. params = FormParams(c)
        BY DEF Settled
    <2> HIDE DEF params
    <2> QED BY <2>1, ParamsOfForm DEF PageNames, Windowed
<1>3. params # null
    BY PolicyNullAssumption DEF Settled, PolicyRows
<1> HIDE DEF params
<1>4. limit = c.limit /\ c.limit \in Int
    <2>1. c.limit \in Int /\ c.limit > 0
          /\ Floor(c.limit) = c.limit
        BY <1>1 DEF Sound, FormRates
    <2>2. c.limit # null
        BY <2>1, NullAssumption
    <2>3. SWC!Field(params, "limit") = c.limit
        BY <1>2, <1>3 DEF SWC!Field, SWC!isRecord
    <2> QED BY <2>1, <2>2, <2>3 DEF SWC!toPositiveIntOrNull, SWC!toNumberOrNull,
            SWC!Floor, SWC!One, Floor, One
<1>5. windowSizeSec = c.windowSizeSec /\ c.windowSizeSec \in Int
    <2>1. c.windowSizeSec \in Int /\ c.windowSizeSec > 0
          /\ Floor(c.windowSizeSec) = c.windowSizeSec
        BY <1>1 DEF Sound, FormRates
    <2>2. c.windowSizeSec # null
        BY <2>1, NullAssumption
    <2>3. SWC!Field(params, "window_size_sec") = c.windowSizeSec
        BY <1>2, <1>3 DEF SWC!Field, SWC!isRecord
    <2> QED BY <2>1, <2>2, <2>3 DEF SWC!toPositiveIntOrNull, SWC!toNumberOrNull,
            SWC!Floor, SWC!One, Floor, One
<1> HIDE DEF limit, windowSizeSec
<1>6. /\ \A f \in PolicyFields : numbers[f] = c[f]
      /\ numbers.limit # null /\ numbers.windowSizeSec # null
      /\ numbers \in PolicyNumbers
    <2>1. \A f \in PolicyFields : numbers[f] = c[f]
        BY <1>1, <1>4, <1>5
    <2>2. numbers.limit # null /\ numbers.windowSizeSec # null
        BY <1>4, <1>5, NullAssumption
    <2>3. numbers \in PolicyNumbers
        BY <1>4, <1>5 DEF PolicyNumbers, Number
    <2> QED BY <2>1, <2>2, <2>3
<1>7. s = SWC!mapPolicySnapshot(row)
    BY SlidingWindowCounterReads
<1>8. SWC!mapPolicySnapshot(row) =
          SWC!PolicySnapshot(row, page, numbers, {"limit", "windowSizeSec"})
    BY DEF SWC!mapPolicySnapshot, limit, windowSizeSec, params
<1> HIDE DEF numbers
<1>9. s = [id |-> row.id, name |-> row.name, enabled |-> row.enabled,
            version |-> row.version, numbers |-> numbers]
    BY <1>3, <1>6, <1>7, <1>8
    DEF SWC!PolicySnapshot, SWC!isRecord, SWC!Present, Settled, params
<1>10. s \in PolicySnapshots
    BY <1>6, <1>9 DEF PolicySnapshots, Settled, PolicyRows
<1> QED BY <1>6, <1>9, <1>10, PolicyNullAssumption

LEMMA TokenBucketReads ==
    ASSUME page = "token_bucket", NEW row
    PROVE  /\ Snap(row) = TB!mapPolicySnapshot(row)
           /\ Snap(row) # null => Tallies(row, Snap(row))
<1>1. Snap(row) = TB!mapPolicySnapshot(row)
    BY DEF Snap, mapPolicySnapshot
<1>2. TB!mapPolicySnapshot(row) # null => Tallies(row, TB!mapPolicySnapshot(row))
    BY DEF TB!mapPolicySnapshot, TB!PolicySnapshot, Tallies
<1> QED BY <1>1, <1>2

LEMMA TokenBucketReread ==
    ASSUME page = "token_bucket", NEW c, Sound(c), NEW row, Settled(row, FormParams(c))
    PROVE  Snap(row) # null /\ \A f \in PolicyFields : Snap(row).numbers[f] = c[f]
<1> DEFINE params == row.params_json
           s == Snap(row)
           capacity == TB!toPositiveIntOrNull(TB!Field(params, "capacity"))
           refillRatePerSec == TB!toPositiveFloatOrNull(TB!Field(params, "refill_rate_per_sec"))
           tokensPerRequest ==
               TB!OrElse(TB!toPositiveIntOrNull(TB!Field(params, "tokens_per_request")), TB!One)
           numbers == [capacity |-> capacity, refillRatePerSec |-> refillRatePerSec,
                       tokensPerRequest |-> tokensPerRequest]
<1>1. PolicyFields = {"capacity", "refillRatePerSec", "tokensPerRequest"}
    BY PageFields DEF PageNames, Windowed
<1>2. /\ DOMAIN params = {"capacity", "refill_rate_per_sec", "tokens_per_request"}
     
      /\ params.capacity = c.capacity
      /\ params.refill_rate_per_sec = c.refillRatePerSec
      /\ params.tokens_per_request = c.tokensPerRequest
    <2>1. params = FormParams(c)
        BY DEF Settled
    <2> HIDE DEF params
    <2> QED BY <2>1, ParamsOfForm DEF PageNames, Windowed
<1>3. params # null
    BY PolicyNullAssumption DEF Settled, PolicyRows
<1> HIDE DEF params
<1>4. capacity = c.capacity /\ c.capacity \in Int
    <2>1. c.capacity \in Int /\ c.capacity > 0
          /\ Floor(c.capacity) = c.capacity
        BY <1>1 DEF Sound, FormRates
    <2>2. c.capacity # null
        BY <2>1, NullAssumption
    <2>3. TB!Field(params, "capacity") = c.capacity
        BY <1>2, <1>3 DEF TB!Field, TB!isRecord
    <2> QED BY <2>1, <2>2, <2>3 DEF TB!toPositiveIntOrNull, TB!toNumberOrNull,
            TB!Floor, TB!One, Floor, One
<1>5. refillRatePerSec = c.refillRatePerSec /\ c.refillRatePerSec \in Int
    <2>1. c.refillRatePerSec \in Int /\ c.refillRatePerSec > 0
        BY <1>1 DEF Sound, FormRates
    <2>2. c.refillRatePerSec # null
        BY <2>1, NullAssumption
    <2>3. TB!Field(params, "refill_rate_per_sec") = c.refillRatePerSec
        BY <1>2, <1>3 DEF TB!Field, TB!isRecord
    <2> QED BY <2>1, <2>2, <2>3 DEF TB!toPositiveFloatOrNull, TB!toNumberOrNull,
            TB!Floor, TB!One, Floor, One
<1>6. tokensPerRequest = c.tokensPerRequest /\ c.tokensPerRequest \in Int
    <2>1. c.tokensPerRequest \in Int /\ c.tokensPerRequest > 0
          /\ Floor(c.tokensPerRequest) = c.tokensPerRequest
        BY <1>1 DEF Sound, FormRates
    <2>2. c.tokensPerRequest # null
        BY <2>1, NullAssumption
    <2>3. TB!Field(params, "tokens_per_request") = c.tokensPerRequest
        BY <1>2, <1>3 DEF TB!Field, TB!isRecord
    <2>4. TB!toPositiveIntOrNull(TB!Field(params, "tokens_per_request")) = c.tokensPerRequest
        BY <2>1, <2>2, <2>3 DEF TB!toPositiveIntOrNull, TB!toNumberOrNull,
            TB!Floor, TB!One, Floor, One
    <2> QED BY <2>1, <2>2, <2>4 DEF TB!OrElse
<1> HIDE DEF capacity, refillRatePerSec, tokensPerRequest
<1>7. /\ \A f \in PolicyFields : numbers[f] = c[f]
      /\ numbers.capacity # null /\ numbers.refillRatePerSec # null
      /\ numbers \in PolicyNumbers
    <2>1. \A f \in PolicyFields : numbers[f] = c[f]
        BY <1>1, <1>4, <1>5, <1>6
    <2>2. numbers.capacity # null /\ numbers.refillRatePerSec # null
        BY <1>4, <1>5, <1>6, NullAssumption
    <2>3. numbers \in PolicyNumbers
        BY <1>4, <1>5, <1>6 DEF PolicyNumbers, Number
    <2> QED BY <2>1, <2>2, <2>3
<1>8. s = TB!mapPolicySnapshot(row)
    BY TokenBucketReads
<1>9. TB!mapPolicySnapshot(row) =
          TB!PolicySnapshot(row, page, numbers, {"capacity", "refillRatePerSec"})
    BY DEF TB!mapPolicySnapshot, capacity, refillRatePerSec, tokensPerRequest, params
<1> HIDE DEF numbers
<1>10. s = [id |-> row.id, name |-> row.name, enabled |-> row.enabled,
            version |-> row.version, numbers |-> numbers]
    BY <1>3, <1>7, <1>8, <1>9
    DEF TB!PolicySnapshot, TB!isRecord, TB!Present, Settled, params
<1>11. s \in PolicySnapshots
    BY <1>7, <1>10 DEF PolicySnapshots, Settled, PolicyRows
<1> QED BY <1>7, <1>10, <1>11, PolicyNullAssumption

LEMMA LeakyBucketReads ==
    ASSUME page = "leaky_bucket", NEW row
    PROVE  /\ Snap(row) = LB!mapPolicySnapshot(row)
           /\ Snap(row) # null => Tallies(row, Snap(row))
<1>1. Snap(row) = LB!mapPolicySnapshot(row)
    BY DEF Snap, mapPolicySnapshot
<1>2. LB!mapPolicySnapshot(row) # null => Tallies(row, LB!mapPolicySnapshot(row))
    BY DEF LB!mapPolicySnapshot, LB!PolicySnapshot, Tallies
<1> QED BY <1>1, <1>2

LEMMA LeakyBucketReread ==
    ASSUME page = "leaky_bucket", NEW c, Sound(c), NEW row, Settled(row, FormParams(c))
    PROVE  Snap(row) # null /\ \A f \in PolicyFields : Snap(row).numbers[f] = c[f]
<1> DEFINE params == row.params_json
           s == Snap(row)
           capacity == LB!toPositiveIntOrNull(LB!Field(params, "capacity"))
           leakRatePerSec == LB!toPositiveFloatOrNull(LB!Field(params, "leak_rate_per_sec"))
           waterPerRequest ==
               LB!OrElse(LB!toPositiveIntOrNull(LB!Field(params, "water_per_request")), LB!One)
           numbers == [capacity |-> capacity, leakRatePerSec |-> leakRatePerSec,
                       waterPerRequest |-> waterPerRequest]
<1>1. PolicyFields = {"capacity", "leakRatePerSec", "waterPerRequest"}
    BY PageFields DEF PageNames, Windowed
<1>2. /\ DOMAIN params = {"capacity", "leak_rate_per_sec", "water_per_request"}
     
      /\ params.capacity = c.capacity
      /\ params.leak_rate_per_sec = c.leakRatePerSec
      /\ params.water_per_request = c.waterPerRequest
    <2>1. params = FormParams(c)
        BY DEF Settled
    <2> HIDE DEF params
    <2> QED BY <2>1, ParamsOfForm DEF PageNames, Windowed
<1>3. params # null
    BY PolicyNullAssumption DEF Settled, PolicyRows
<1> HIDE DEF params
<1>4. capacity = c.capacity /\ c.capacity \in Int
    <2>1. c.capacity \in Int /\ c.capacity > 0
          /\ Floor(c.capacity) = c.capacity
        BY <1>1 DEF Sound, FormRates
    <2>2. c.capacity # null
        BY <2>1, NullAssumption
    <2>3. LB!Field(params, "capacity") = c.capacity
        BY <1>2, <1>3 DEF LB!Field, LB!isRecord
    <2> QED BY <2>1, <2>2, <2>3 DEF LB!toPositiveIntOrNull, LB!toNumberOrNull,
            LB!Floor, LB!One, Floor, One
<1>5. leakRatePerSec = c.leakRatePerSec /\ c.leakRatePerSec \in Int
    <2>1. c.leakRatePerSec \in Int /\ c.leakRatePerSec > 0
        BY <1>1 DEF Sound, FormRates
    <2>2. c.leakRatePerSec # null
        BY <2>1, NullAssumption
    <2>3. LB!Field(params, "leak_rate_per_sec") = c.leakRatePerSec
        BY <1>2, <1>3 DEF LB!Field, LB!isRecord
    <2> QED BY <2>1, <2>2, <2>3 DEF LB!toPositiveFloatOrNull, LB!toNumberOrNull,
            LB!Floor, LB!One, Floor, One
<1>6. waterPerRequest = c.waterPerRequest /\ c.waterPerRequest \in Int
    <2>1. c.waterPerRequest \in Int /\ c.waterPerRequest > 0
          /\ Floor(c.waterPerRequest) = c.waterPerRequest
        BY <1>1 DEF Sound, FormRates
    <2>2. c.waterPerRequest # null
        BY <2>1, NullAssumption
    <2>3. LB!Field(params, "water_per_request") = c.waterPerRequest
        BY <1>2, <1>3 DEF LB!Field, LB!isRecord
    <2>4. LB!toPositiveIntOrNull(LB!Field(params, "water_per_request")) = c.waterPerRequest
        BY <2>1, <2>2, <2>3 DEF LB!toPositiveIntOrNull, LB!toNumberOrNull,
            LB!Floor, LB!One, Floor, One
    <2> QED BY <2>1, <2>2, <2>4 DEF LB!OrElse
<1> HIDE DEF capacity, leakRatePerSec, waterPerRequest
<1>7. /\ \A f \in PolicyFields : numbers[f] = c[f]
      /\ numbers.capacity # null /\ numbers.leakRatePerSec # null
      /\ numbers \in PolicyNumbers
    <2>1. \A f \in PolicyFields : numbers[f] = c[f]
        BY <1>1, <1>4, <1>5, <1>6
    <2>2. numbers.capacity # null /\ numbers.leakRatePerSec # null
        BY <1>4, <1>5, <1>6, NullAssumption
    <2>3. numbers \in PolicyNumbers
        BY <1>4, <1>5, <1>6 DEF PolicyNumbers, Number
    <2> QED BY <2>1, <2>2, <2>3
<1>8. s = LB!mapPolicySnapshot(row)
    BY LeakyBucketReads
<1>9. LB!mapPolicySnapshot(row) =
          LB!PolicySnapshot(row, page, numbers, {"capacity", "leakRatePerSec"})
    BY DEF LB!mapPolicySnapshot, capacity, leakRatePerSec, waterPerRequest, params
<1> HIDE DEF numbers
<1>10. s = [id |-> row.id, name |-> row.name, enabled |-> row.enabled,
            version |-> row.version, numbers |-> numbers]
    BY <1>3, <1>7, <1>8, <1>9
    DEF LB!PolicySnapshot, LB!isRecord, LB!Present, Settled, params
<1>11. s \in PolicySnapshots
    BY <1>7, <1>10 DEF PolicySnapshots, Settled, PolicyRows
<1> QED BY <1>7, <1>10, <1>11, PolicyNullAssumption

LEMMA Columns ==
    ASSUME page \in PageNames
    PROVE  /\ page \in Windowed =>
                Required(page) = {"window_size_sec", "limit"} /\ Optional(page) = {}
           /\ page = "token_bucket" =>
                /\ Required(page) = {"capacity", "refill_rate_per_sec"}
                /\ Optional(page) = {"tokens_per_request"}
           /\ page = "leaky_bucket" =>
                /\ Required(page) = {"capacity", "leak_rate_per_sec"}
                /\ Optional(page) = {"water_per_request"}
<1>1. page \in Windowed \/ page = "token_bucket" \/ page = "leaky_bucket"
    BY DEF PageNames, Windowed
<1>2. CASE page \in Windowed
    <2>1. page # "token_bucket" /\ page # "leaky_bucket"
        BY <1>2 DEF Windowed
    <2>2. Required(page) = {"window_size_sec", "limit"}
        BY <1>2, <2>1 DEF Required
    <2>3. Optional(page) = {}
        BY <1>2, <2>1 DEF Optional
    <2> QED BY <2>1, <2>2, <2>3
<1>3. CASE page = "token_bucket"
    <2>1. page \notin Windowed /\ page # "leaky_bucket"
        BY <1>3 DEF Windowed
    <2>2. Required(page) = {"capacity", "refill_rate_per_sec"}
        BY <1>3, <2>1 DEF Required
    <2>3. Optional(page) = {"tokens_per_request"}
        BY <1>3, <2>1 DEF Optional
    <2> QED BY <2>1, <2>2, <2>3
<1>4. CASE page = "leaky_bucket"
    <2>1. page \notin Windowed /\ page # "token_bucket"
        BY <1>4 DEF Windowed
    <2>2. Required(page) = {"capacity", "leak_rate_per_sec"}
        BY <1>4, <2>1 DEF Required
    <2>3. Optional(page) = {"water_per_request"}
        BY <1>4, <2>1 DEF Optional
    <2> QED BY <2>1, <2>2, <2>3
<1> QED BY <1>1, <1>2, <1>3, <1>4

LEMMA WindowedSendable ==
    ASSUME page \in PageNames, page \in Windowed, NEW c, Sound(c)
    PROVE  Sendable(FormParams(c))
<1> DEFINE params == FormParams(c)
           columns == Required(page) \cup Optional(page)
           normal == NormalizedParams(page, params)
<1>1. params = [limit |-> c.limit, window_size_sec |-> c.windowSizeSec]
    BY ParamsOfForm
<1> HIDE DEF params
<1>2. /\ DOMAIN params = {"limit", "window_size_sec"}
      /\ params = [x \in DOMAIN params |-> params[x]]
      /\ params.limit = c.limit /\ params.window_size_sec = c.windowSizeSec
    BY <1>1
<1>3. PolicyFields = {"limit", "windowSizeSec"}
    BY PageFields
<1>4. /\ c.limit \in Int /\ c.limit > 0 /\ Floor(c.limit) = c.limit
      /\ c.windowSizeSec \in Int /\ c.windowSizeSec > 0 /\ Floor(c.windowSizeSec) = c.windowSizeSec
    BY <1>3 DEF Sound, FormRates
<1>5. params \in PolicyParams
    BY <1>1, <1>4 DEF PolicyParams
<1>6. /\ Required(page) = {"window_size_sec", "limit"}
      /\ Optional(page) = {}
    BY Columns
<1>7. ValidParams(page, params)
    <2>1. \A f \in DOMAIN params : params[f] \in Int /\ params[f] > 0
        BY <1>2, <1>4
    <2>2. \A f \in DOMAIN params : OrElse(params[f], 0) > 0
        BY <2>1, NullAssumption DEF OrElse
    <2> QED BY <1>2, <1>6, <2>2 DEF ValidParams
<1>8. DOMAIN normal = columns /\ normal = [x \in DOMAIN normal |-> normal[x]]
    BY DEF NormalizedParams
<1>9. \A f \in columns : normal[f] =
          IF f \notin DOMAIN params THEN One
          ELSE IF f \in Rates THEN params[f] ELSE Floor(params[f])
    BY DEF NormalizedParams
<1>10. columns = DOMAIN params
    BY <1>2, <1>6
<1>11. \A f \in DOMAIN params : f \notin Rates => Floor(params[f]) = params[f]
    BY <1>2, <1>4 DEF Rates
<1> HIDE DEF normal, columns
<1>12. normal = params
    BY <1>2, <1>8, <1>9, <1>10, <1>11
<1> QED BY <1>5, <1>7, <1>12 DEF Sendable, normal, params

LEMMA TokenBucketSendable ==
    ASSUME page \in PageNames, page = "token_bucket", NEW c, Sound(c)
    PROVE  Sendable(FormParams(c))
<1> DEFINE params == FormParams(c)
           columns == Required(page) \cup Optional(page)
           normal == NormalizedParams(page, params)
<1>1. params = [capacity |-> c.capacity, refill_rate_per_sec |-> c.refillRatePerSec,
                tokens_per_request |-> c.tokensPerRequest]
    BY ParamsOfForm
<1> HIDE DEF params
<1>2. /\ DOMAIN params = {"capacity", "refill_rate_per_sec", "tokens_per_request"}
      /\ params = [x \in DOMAIN params |-> params[x]]
      /\ params.capacity = c.capacity /\ params.refill_rate_per_sec = c.refillRatePerSec
      /\ params.tokens_per_request = c.tokensPerRequest
    BY <1>1
<1>3. PolicyFields = {"capacity", "refillRatePerSec", "tokensPerRequest"}
    BY PageFields
<1>4. /\ c.capacity \in Int /\ c.capacity > 0 /\ Floor(c.capacity) = c.capacity
      /\ c.refillRatePerSec \in Int /\ c.refillRatePerSec > 0
      /\ c.tokensPerRequest \in Int /\ c.tokensPerRequest > 0
      /\ Floor(c.tokensPerRequest) = c.tokensPerRequest
    BY <1>3 DEF Sound, FormRates
<1>5. params \in PolicyParams
    BY <1>1, <1>4 DEF PolicyParams
<1>6. /\ Required(page) = {"capacity", "refill_rate_per_sec"}
      /\ Optional(page) = {"tokens_per_request"}
    BY Columns
<1>7. ValidParams(page, params)
    <2>1. \A f \in DOMAIN params : params[f] \in Int /\ params[f] > 0
        BY <1>2, <1>4
    <2>2. \A f \in DOMAIN params : OrElse(params[f], 0) > 0
        BY <2>1, NullAssumption DEF OrElse
    <2> QED BY <1>2, <1>6, <2>2 DEF ValidParams
<1>8. DOMAIN normal = columns /\ normal = [x \in DOMAIN normal |-> normal[x]]
    BY DEF NormalizedParams
<1>9. \A f \in columns : normal[f] =
          IF f \notin DOMAIN params THEN One
          ELSE IF f \in Rates THEN params[f] ELSE Floor(params[f])
    BY DEF NormalizedParams
<1>10. columns = DOMAIN params
    BY <1>2, <1>6
<1>11. \A f \in DOMAIN params : f \notin Rates => Floor(params[f]) = params[f]
    BY <1>2, <1>4 DEF Rates
<1> HIDE DEF normal, columns
<1>12. normal = params
    BY <1>2, <1>8, <1>9, <1>10, <1>11
<1> QED BY <1>5, <1>7, <1>12 DEF Sendable, normal, params

LEMMA LeakyBucketSendable ==
    ASSUME page \in PageNames, page = "leaky_bucket", NEW c, Sound(c)
    PROVE  Sendable(FormParams(c))
<1> DEFINE params == FormParams(c)
           columns == Required(page) \cup Optional(page)
           normal == NormalizedParams(page, params)
<1>1. params = [capacity |-> c.capacity, leak_rate_per_sec |-> c.leakRatePerSec,
                water_per_request |-> c.waterPerRequest]
    BY ParamsOfForm
<1> HIDE DEF params
<1>2. /\ DOMAIN params = {"capacity", "leak_rate_per_sec", "water_per_request"}
      /\ params = [x \in DOMAIN params |-> params[x]]
      /\ params.capacity = c.capacity /\ params.leak_rate_per_sec = c.leakRatePerSec
      /\ params.water_per_request = c.waterPerRequest
    BY <1>1
<1>3. PolicyFields = {"capacity", "leakRatePerSec", "waterPerRequest"}
    BY PageFields
<1>4. /\ c.capacity \in Int /\ c.capacity > 0 /\ Floor(c.capacity) = c.capacity
      /\ c.leakRatePerSec \in Int /\ c.leakRatePerSec > 0
      /\ c.waterPerRequest \in Int /\ c.waterPerRequest > 0
      /\ Floor(c.waterPerRequest) = c.waterPerRequest
    BY <1>3 DEF Sound, FormRates
<1>5. params \in PolicyParams
    BY <1>1, <1>4 DEF PolicyParams
<1>6. /\ Required(page) = {"capacity", "leak_rate_per_sec"}
      /\ Optional(page) = {"water_per_request"}
    BY Columns
<1>7. ValidParams(page, params)
    <2>1. \A f \in DOMAIN params : params[f] \in Int /\ params[f] > 0
        BY <1>2, <1>4
    <2>2. \A f \in DOMAIN params : OrElse(params[f], 0) > 0
        BY <2>1, NullAssumption DEF OrElse
    <2> QED BY <1>2, <1>6, <2>2 DEF ValidParams
<1>8. DOMAIN normal = columns /\ normal = [x \in DOMAIN normal |-> normal[x]]
    BY DEF NormalizedParams
<1>9. \A f \in columns : normal[f] =
          IF f \notin DOMAIN params THEN One
          ELSE IF f \in Rates THEN params[f] ELSE Floor(params[f])
    BY DEF NormalizedParams
<1>10. columns = DOMAIN params
    BY <1>2, <1>6
<1>11. \A f \in DOMAIN params : f \notin Rates => Floor(params[f]) = params[f]
    BY <1>2, <1>4 DEF Rates
<1> HIDE DEF normal, columns
<1>12. normal = params
    BY <1>2, <1>8, <1>9, <1>10, <1>11
<1> QED BY <1>5, <1>7, <1>12 DEF Sendable, normal, params

LEMMA FormSendable ==
    ASSUME page \in PageNames, NEW c, Sound(c)
    PROVE  Sendable(FormParams(c))
BY WindowedSendable, TokenBucketSendable, LeakyBucketSendable, PageFields

LEMMA PageReads ==
    ASSUME page \in PageNames, NEW row
    PROVE  Snap(row) # null => Tallies(row, Snap(row))
BY FixedWindowReads, SlidingLogReads, SlidingWindowCounterReads, TokenBucketReads,
   LeakyBucketReads DEF PageNames

LEMMA PageRereads ==
    ASSUME page \in PageNames, NEW c, Sound(c), NEW row, Settled(row, FormParams(c))
    PROVE  /\ Snap(row) # null /\ Tallies(row, Snap(row))
           /\ \A f \in PolicyFields : Snap(row).numbers[f] = c[f]
<1>1. Snap(row) # null /\ \A f \in PolicyFields : Snap(row).numbers[f] = c[f]
    BY FixedWindowReread, SlidingLogReread, SlidingWindowCounterReread, TokenBucketReread,
       LeakyBucketReread DEF PageNames
<1> QED BY <1>1, PageReads

\* What a typed form is clamped to is sound.
LEMMA ClampedSound ==
    ASSUME page \in PageNames, NEW raw \in RawForms
    PROVE  Sound(clampConfig(page, raw))
<1> DEFINE c == clampConfig(page, raw)
<1>1. IsForm(raw) /\ \A f \in FormNumbers : raw[f] \in Number
    BY RawFormsAssumption DEF IsForm
<1>2. c = [f \in DOMAIN raw |-> IF IsClamped(f) THEN ClampedTo(f, raw[f]) ELSE raw[f]]
    BY <1>1, PageClamps
<1> HIDE DEF c
<1>3. \A f \in PolicyFields :
          f \in DOMAIN raw /\ raw[f] \in Number /\ c[f] = ClampedTo(f, raw[f])
    BY <1>1, <1>2, ClampedFields DEF IsClamped, IsForm
<1>4. Sound(c)
    BY <1>3, ClampedOnce DEF Sound
<1> QED BY <1>4 DEF c

-----------------------------------------------------------------------------
(***************************************************************************)
(* The sync, with the page's own snapshots.                                *)
(***************************************************************************)
Reads(row) == IF isRecord(row) THEN Snap(row) ELSE null
ActiveSnap(gw) == Reads(ActiveRow(gw))
Managed(gw) ==
    {s \in {Snap(row) : row \in gw.rows} \ {null} : s.name = DashboardName(page)}
Parsing(answer) == [gw |-> answer.gw, policy |-> Reads(answer.body)]
Target(gw, params) ==
    IF ActiveSnap(gw) # null /\ Field(ActiveSnap(gw), "enabled") = TRUE
    THEN Parsing(UpdateRow(gw, ActiveSnap(gw).id, Updating(params)))
    ELSE IF Managed(gw) # {}
         THEN Parsing(UpdateRow(gw, (CHOOSE p \in Managed(gw) : TRUE).id, Updating(params)))
         ELSE Parsing(CreateRow(gw, Creating(params)))
Activated(target) == ActivateRow(target.gw, target.policy.id)
Synced(gw, params) ==
    LET target == Target(gw, params) IN
    IF target.policy = null \/ Activated(target).body = null
    THEN [gw |-> target.gw, policy |-> null]
    ELSE [gw |-> Activated(target).gw, policy |-> ActiveSnap(Activated(target).gw)]

Readable(params) ==
    \A row : Settled(row, params) => Snap(row) # null /\ Tallies(row, Snap(row))

LEMMA RowsRecords == ASSUME NEW row \in PolicyRows PROVE row # null
BY PolicyNullAssumption

\* A policy that the page can read is of its algorithm.
LEMMA TargetTaken ==
    ASSUME page \in PageNames, NEW gw, IsGateway(gw), NEW params, Sendable(params),
           Readable(params), NEW s, s # null,
           \E row \in gw.rows : s = Snap(row)
    PROVE  LET t == UpdateRow(gw, s.id, Updating(params)) IN Takes(gw, t.gw, t.body, params)
<1>1. PICK row \in gw.rows : s = Snap(row)
    OBVIOUS
<1>2. row.algorithm = page /\ s.id = row.id
    BY <1>1, PageReads DEF Tallies
<1> QED BY <1>1, <1>2, RowUpdated

\* The target of a sync is the page's, or the page cannot have its name.
LEMMA Targets ==
    ASSUME page \in PageNames, NEW gw, IsGateway(gw), NEW params, Sendable(params),
           Readable(params)
    PROVE  LET t == Target(gw, params) IN
           \/ t.policy = null /\ t.gw = gw /\ Blocked(gw)
           \/ \E new : Takes(gw, t.gw, new, params) /\ t.policy = Snap(new)
<1> DEFINE t == Target(gw, params)
           shown == ActiveSnap(gw)
           isShown == shown # null /\ Field(shown, "enabled") = TRUE
           managed == Managed(gw)
<1>1. ASSUME NEW answer, Takes(gw, answer.gw, answer.body, params)
      PROVE  LET u == Parsing(answer) IN
             \E new : Takes(gw, u.gw, new, params) /\ u.policy = Snap(new)
    <2>1. answer.body # null
        BY <1>1, RowsRecords DEF Takes, Settled
    <2> QED BY <1>1, <2>1 DEF Parsing, Reads, isRecord
<1>2. CASE isShown
    <2>1. shown = Snap(ActiveRow(gw)) /\ ActiveRow(gw) # null
        BY <1>2 DEF ActiveSnap, Reads, isRecord
    <2>2. ActiveRow(gw) \in gw.rows
        <3>1. gw.active # null /\ ActiveRow(gw) = RowOf(gw, gw.active.id)
            BY <2>1 DEF ActiveRow
        <3>2. PICK row \in gw.rows : row.id = gw.active.id
            BY <3>1 DEF IsGateway
        <3> QED BY <3>1, <3>2, RowFound DEF IsGateway
    <2>3. t = Parsing(UpdateRow(gw, shown.id, Updating(params)))
        BY <1>2 DEF Target
    <2>4. Takes(gw, UpdateRow(gw, shown.id, Updating(params)).gw,
                UpdateRow(gw, shown.id, Updating(params)).body, params)
        BY <1>2, <2>1, <2>2, TargetTaken
    <2> HIDE DEF t
    <2>5. \E new : Takes(gw, t.gw, new, params) /\ t.policy = Snap(new)
        BY <1>1, <2>3, <2>4
    <2> QED BY <2>5 DEF t
<1>3. CASE ~ isShown /\ managed # {}
    <2> DEFINE chosen == CHOOSE p \in managed : TRUE
    <2>1. chosen \in managed
        BY <1>3
    <2>2. chosen # null /\ \E row \in gw.rows : chosen = Snap(row)
        BY <2>1 DEF Managed
    <2>3. t = Parsing(UpdateRow(gw, chosen.id, Updating(params)))
        BY <1>3 DEF Target
    <2> HIDE DEF chosen, t
    <2>4. Takes(gw, UpdateRow(gw, chosen.id, Updating(params)).gw,
                UpdateRow(gw, chosen.id, Updating(params)).body, params)
        BY <2>2, TargetTaken
    <2>5. \E new : Takes(gw, t.gw, new, params) /\ t.policy = Snap(new)
        BY <1>1, <2>3, <2>4
    <2> QED BY <2>5 DEF t
<1>4. CASE ~ isShown /\ managed = {}
    <2> DEFINE answer == CreateRow(gw, Creating(params))
    <2>1. t = Parsing(answer)
        BY <1>4 DEF Target
    <2>2. \/ Takes(gw, answer.gw, answer.body, params)
          \/ answer = Failed(gw) /\ \E row \in gw.rows : row.name = DashboardName(page)
        BY RowCreated
    <2> HIDE DEF answer, t, managed
    <2>3. CASE Takes(gw, answer.gw, answer.body, params)
        <3>1. \E new : Takes(gw, t.gw, new, params) /\ t.policy = Snap(new)
            BY <1>1, <2>1, <2>3
        <3> QED BY <3>1 DEF t
    <2>4. CASE /\ answer = Failed(gw)
               /\ \E row \in gw.rows : row.name = DashboardName(page)
        <3>1. t.gw = gw /\ t.policy = null
            BY <2>1, <2>4 DEF Parsing, Reads, isRecord, Failed
        <3>2. PICK row \in gw.rows : row.name = DashboardName(page)
            BY <2>4
        <3>3. Snap(row) = null
            <4>1. SUFFICES ASSUME Snap(row) # null PROVE FALSE
                OBVIOUS
            <4>2. Snap(row).name = DashboardName(page)
                BY <3>2, <4>1, PageReads DEF Tallies
            <4>3. Snap(row) \in managed
                BY <4>1, <4>2 DEF Managed, managed
            <4> QED BY <1>4, <4>3
        <3>4. Blocked(gw)
            BY <3>2, <3>3 DEF Blocked, Snap, isRecord
        <3> QED BY <3>1, <3>4 DEF t
    <2> QED BY <2>2, <2>3, <2>4
<1> QED BY <1>2, <1>3, <1>4

\* What a sync leaves of a gateway.
Leaves(gw, after, new, params) ==
    /\ Settled(new, params) /\ ActiveRow(after) = new
    /\ \A row \in gw.rows : row.id # new.id => row \in after.rows
    /\ \A row \in gw.rows : RowOf(after, row.id).algorithm = row.algorithm

LEMMA Syncs ==
    ASSUME page \in PageNames, NEW gw, IsGateway(gw), NEW params, Sendable(params),
           Readable(params)
    PROVE  LET s == Synced(gw, params) IN
           \/ s.policy = null /\ s.gw = gw /\ Blocked(gw)
           \/ \E new : Leaves(gw, s.gw, new, params) /\ s.policy = Snap(new)
<1> DEFINE t == Target(gw, params)
           s == Synced(gw, params)
<1>1. \/ t.policy = null /\ t.gw = gw /\ Blocked(gw)
      \/ \E new : Takes(gw, t.gw, new, params) /\ t.policy = Snap(new)
    BY Targets
<1>2. s = IF t.policy = null \/ Activated(t).body = null
          THEN [gw |-> t.gw, policy |-> null]
          ELSE [gw |-> Activated(t).gw, policy |-> ActiveSnap(Activated(t).gw)]
    BY DEF Synced
<1> HIDE DEF s, t
<1>3. CASE t.policy = null /\ t.gw = gw /\ Blocked(gw)
    <2>1. s.policy = null /\ s.gw = gw
        BY <1>2, <1>3
    <2> QED BY <1>3, <2>1 DEF s
<1>4. CASE \E new : Takes(gw, t.gw, new, params) /\ t.policy = Snap(new)
    <2>1. PICK new : Takes(gw, t.gw, new, params) /\ t.policy = Snap(new)
        BY <1>4
    <2>2. t.policy # null /\ t.policy.id = new.id
        BY <2>1 DEF Readable, Takes, Tallies
    <2> DEFINE a == ActivateRow(t.gw, new.id)
    <2>3. /\ a.body = new /\ a.gw.rows = t.gw.rows /\ ActiveRow(a.gw) = new
          /\ RowOf(a.gw, new.id) = new
          /\ \A row \in t.gw.rows : RowOf(a.gw, row.id) = row
        BY <2>1, RowActivated
    <2>4. Activated(t) = a
        BY <2>2 DEF Activated
    <2> HIDE DEF a
    <2>5. new # null
        BY <2>1, RowsRecords DEF Takes, Settled
    <2>6. s.gw = a.gw /\ s.policy = Snap(new)
        BY <1>2, <2>2, <2>3, <2>4, <2>5 DEF ActiveSnap, Reads, isRecord
    <2>7. \A row \in gw.rows : RowOf(a.gw, row.id).algorithm = row.algorithm
        <3> SUFFICES ASSUME NEW row \in gw.rows
                     PROVE  RowOf(a.gw, row.id).algorithm = row.algorithm
            OBVIOUS
        <3>1. CASE row.id = new.id
            BY <2>1, <2>3, <3>1 DEF Takes, Settled
        <3>2. CASE row.id # new.id
            BY <2>1, <2>3, <3>2 DEF Takes
        <3> QED BY <3>1, <3>2
    <2>8. Leaves(gw, s.gw, new, params)
        BY <2>1, <2>3, <2>6, <2>7 DEF Leaves, Takes
    <2> QED BY <2>6, <2>8 DEF s
<1> QED BY <1>1, <1>3, <1>4

LEMMA FixedWindowEndpoints ==
    ASSUME NEW gw
    PROVE  /\ \A id, body : FW!UpdateRow(gw, id, body) = UpdateRow(gw, id, body)
           /\ \A body : FW!CreateRow(gw, body) = CreateRow(gw, body)
           /\ \A id : FW!ActivateRow(gw, id) = ActivateRow(gw, id)
           /\ FW!ActiveRow(gw) = ActiveRow(gw)
<1>1. \A a, params : FW!NormalizedParams(a, params) = NormalizedParams(a, params)
    BY DEF FW!NormalizedParams, FW!Required, FW!Optional, FW!Windowed, FW!Rates, FW!Floor,
           FW!One, NormalizedParams, Required, Optional, Windowed, Rates, Floor, One
<1>2. \A a, params : FW!ValidParams(a, params) = ValidParams(a, params)
    BY DEF FW!ValidParams, FW!Required, FW!Optional, FW!Windowed, FW!OrElse, ValidParams,
           Required, Optional, Windowed, OrElse
<1>3. \A id : FW!RowOf(gw, id) = RowOf(gw, id) /\ FW!Known(gw, id) = Known(gw, id)
    BY DEF FW!RowOf, FW!Known, RowOf, Known
<1>4. \A id, body : FW!UpdateRow(gw, id, body) = UpdateRow(gw, id, body)
    BY DEF FW!UpdateRow, FW!RowOf, FW!Known, FW!ValidParams, FW!NormalizedParams, FW!Required,
           FW!Optional, FW!Windowed, FW!Rates, FW!Failed, FW!OrElse, FW!Field, FW!isRecord,
           FW!Floor, FW!One, UpdateRow, RowOf, Known, ValidParams, NormalizedParams, Required,
           Optional, Windowed, Rates, Failed, OrElse, Field, isRecord, Floor, One
<1>5. \A body : FW!CreateRow(gw, body) = CreateRow(gw, body)
    BY <1>1, <1>2 DEF FW!CreateRow, FW!Failed, FW!Cardinality, CreateRow, Failed, Cardinality
<1>6. \A id : FW!ActivateRow(gw, id) = ActivateRow(gw, id)
    BY <1>3 DEF FW!ActivateRow, FW!Failed, ActivateRow, Failed
<1>7. FW!ActiveRow(gw) = ActiveRow(gw)
    BY <1>3 DEF FW!ActiveRow, ActiveRow
<1> QED BY <1>4, <1>5, <1>6, <1>7

LEMMA SlidingLogEndpoints ==
    ASSUME NEW gw
    PROVE  /\ \A id, body : SL!UpdateRow(gw, id, body) = UpdateRow(gw, id, body)
           /\ \A body : SL!CreateRow(gw, body) = CreateRow(gw, body)
           /\ \A id : SL!ActivateRow(gw, id) = ActivateRow(gw, id)
           /\ SL!ActiveRow(gw) = ActiveRow(gw)
<1>1. \A a, params : SL!NormalizedParams(a, params) = NormalizedParams(a, params)
    BY DEF SL!NormalizedParams, SL!Required, SL!Optional, SL!Windowed, SL!Rates, SL!Floor,
           SL!One, NormalizedParams, Required, Optional, Windowed, Rates, Floor, One
<1>2. \A a, params : SL!ValidParams(a, params) = ValidParams(a, params)
    BY DEF SL!ValidParams, SL!Required, SL!Optional, SL!Windowed, SL!OrElse, ValidParams,
           Required, Optional, Windowed, OrElse
<1>3. \A id : SL!RowOf(gw, id) = RowOf(gw, id) /\ SL!Known(gw, id) = Known(gw, id)
    BY DEF SL!RowOf, SL!Known, RowOf, Known
<1>4. \A id, body : SL!UpdateRow(gw, id, body) = UpdateRow(gw, id, body)
    BY DEF SL!UpdateRow, SL!RowOf, SL!Known, SL!ValidParams, SL!NormalizedParams, SL!Required,
           SL!Optional, SL!Windowed, SL!Rates, SL!Failed, SL!OrElse, SL!Field, SL!isRecord,
           SL!Floor, SL!One, UpdateRow, RowOf, Known, ValidParams, NormalizedParams, Required,
           Optional, Windowed, Rates, Failed, OrElse, Field, isRecord, Floor, One
<1>5. \A body : SL!CreateRow(gw, body) = CreateRow(gw, body)
    BY <1>1, <1>2 DEF SL!CreateRow, SL!Failed, SL!Cardinality, CreateRow, Failed, Cardinality
<1>6. \A id : SL!ActivateRow(gw, id) = ActivateRow(gw, id)
    BY <1>3 DEF SL!ActivateRow, SL!Failed, ActivateRow, Failed
<1>7. SL!ActiveRow(gw) = ActiveRow(gw)
    BY <1>3 DEF SL!ActiveRow, ActiveRow
<1> QED BY <1>4, <1>5, <1>6, <1>7

LEMMA SlidingWindowCounterEndpoints ==
    ASSUME NEW gw
    PROVE  /\ \A id, body : SWC!UpdateRow(gw, id, body) = UpdateRow(gw, id, body)
           /\ \A body : SWC!CreateRow(gw, body) = CreateRow(gw, body)
           /\ \A id : SWC!ActivateRow(gw, id) = ActivateRow(gw, id)
           /\ SWC!ActiveRow(gw) = ActiveRow(gw)
<1>1. \A a, params : SWC!NormalizedParams(a, params) = NormalizedParams(a, params)
    BY DEF SWC!NormalizedParams, SWC!Required, SWC!Optional, SWC!Windowed, SWC!Rates,
           SWC!Floor, SWC!One, NormalizedParams, Required, Optional, Windowed, Rates, Floor,
           One
<1>2. \A a, params : SWC!ValidParams(a, params) = ValidParams(a, params)
    BY DEF SWC!ValidParams, SWC!Required, SWC!Optional, SWC!Windowed, SWC!OrElse, ValidParams,
           Required, Optional, Windowed, OrElse
<1>3. \A id : SWC!RowOf(gw, id) = RowOf(gw, id) /\ SWC!Known(gw, id) = Known(gw, id)
    BY DEF SWC!RowOf, SWC!Known, RowOf, Known
<1>4. \A id, body : SWC!UpdateRow(gw, id, body) = UpdateRow(gw, id, body)
    BY DEF SWC!UpdateRow, SWC!RowOf, SWC!Known, SWC!ValidParams, SWC!NormalizedParams,
           SWC!Required, SWC!Optional, SWC!Windowed, SWC!Rates, SWC!Failed, SWC!OrElse,
           SWC!Field, SWC!isRecord, SWC!Floor, SWC!One, UpdateRow, RowOf, Known, ValidParams,
           NormalizedParams, Required, Optional, Windowed, Rates, Failed, OrElse, Field,
           isRecord, Floor, One
<1>5. \A body : SWC!CreateRow(gw, body) = CreateRow(gw, body)
    BY <1>1, <1>2 DEF SWC!CreateRow, SWC!Failed, SWC!Cardinality, CreateRow, Failed, Cardinality
<1>6. \A id : SWC!ActivateRow(gw, id) = ActivateRow(gw, id)
    BY <1>3 DEF SWC!ActivateRow, SWC!Failed, ActivateRow, Failed
<1>7. SWC!ActiveRow(gw) = ActiveRow(gw)
    BY <1>3 DEF SWC!ActiveRow, ActiveRow
<1> QED BY <1>4, <1>5, <1>6, <1>7

LEMMA TokenBucketEndpoints ==
    ASSUME NEW gw
    PROVE  /\ \A id, body : TB!UpdateRow(gw, id, body) = UpdateRow(gw, id, body)
           /\ \A body : TB!CreateRow(gw, body) = CreateRow(gw, body)
           /\ \A id : TB!ActivateRow(gw, id) = ActivateRow(gw, id)
           /\ TB!ActiveRow(gw) = ActiveRow(gw)
<1>1. \A a, params : TB!NormalizedParams(a, params) = NormalizedParams(a, params)
    BY DEF TB!NormalizedParams, TB!Required, TB!Optional, TB!Windowed, TB!Rates, TB!Floor,
           TB!One, NormalizedParams, Required, Optional, Windowed, Rates, Floor, One
<1>2. \A a, params : TB!ValidParams(a, params) = ValidParams(a, params)
    BY DEF TB!ValidParams, TB!Required, TB!Optional, TB!Windowed, TB!OrElse, ValidParams,
           Required, Optional, Windowed, OrElse
<1>3. \A id : TB!RowOf(gw, id) = RowOf(gw, id) /\ TB!Known(gw, id) = Known(gw, id)
    BY DEF TB!RowOf, TB!Known, RowOf, Known
<1>4. \A id, body : TB!UpdateRow(gw, id, body) = UpdateRow(gw, id, body)
    BY DEF TB!UpdateRow, TB!RowOf, TB!Known, TB!ValidParams, TB!NormalizedParams, TB!Required,
           TB!Optional, TB!Windowed, TB!Rates, TB!Failed, TB!OrElse, TB!Field, TB!isRecord,
           TB!Floor, TB!One, UpdateRow, RowOf, Known, ValidParams, NormalizedParams, Required,
           Optional, Windowed, Rates, Failed, OrElse, Field, isRecord, Floor, One
<1>5. \A body : TB!CreateRow(gw, body) = CreateRow(gw, body)
    BY <1>1, <1>2 DEF TB!CreateRow, TB!Failed, TB!Cardinality, CreateRow, Failed, Cardinality
<1>6. \A id : TB!ActivateRow(gw, id) = ActivateRow(gw, id)
    BY <1>3 DEF TB!ActivateRow, TB!Failed, ActivateRow, Failed
<1>7. TB!ActiveRow(gw) = ActiveRow(gw)
    BY <1>3 DEF TB!ActiveRow, ActiveRow
<1> QED BY <1>4, <1>5, <1>6, <1>7

LEMMA LeakyBucketEndpoints ==
    ASSUME NEW gw
    PROVE  /\ \A id, body : LB!UpdateRow(gw, id, body) = UpdateRow(gw, id, body)
           /\ \A body : LB!CreateRow(gw, body) = CreateRow(gw, body)
           /\ \A id : LB!ActivateRow(gw, id) = ActivateRow(gw, id)
           /\ LB!ActiveRow(gw) = ActiveRow(gw)
<1>1. \A a, params : LB!NormalizedParams(a, params) = NormalizedParams(a, params)
    BY DEF LB!NormalizedParams, LB!Required, LB!Optional, LB!Windowed, LB!Rates, LB!Floor,
           LB!One, NormalizedParams, Required, Optional, Windowed, Rates, Floor, One
<1>2. \A a, params : LB!ValidParams(a, params) = ValidParams(a, params)
    BY DEF LB!ValidParams, LB!Required, LB!Optional, LB!Windowed, LB!OrElse, ValidParams,
           Required, Optional, Windowed, OrElse
<1>3. \A id : LB!RowOf(gw, id) = RowOf(gw, id) /\ LB!Known(gw, id) = Known(gw, id)
    BY DEF LB!RowOf, LB!Known, RowOf, Known
<1>4. \A id, body : LB!UpdateRow(gw, id, body) = UpdateRow(gw, id, body)
    BY DEF LB!UpdateRow, LB!RowOf, LB!Known, LB!ValidParams, LB!NormalizedParams, LB!Required,
           LB!Optional, LB!Windowed, LB!Rates, LB!Failed, LB!OrElse, LB!Field, LB!isRecord,
           LB!Floor, LB!One, UpdateRow, RowOf, Known, ValidParams, NormalizedParams, Required,
           Optional, Windowed, Rates, Failed, OrElse, Field, isRecord, Floor, One
<1>5. \A body : LB!CreateRow(gw, body) = CreateRow(gw, body)
    BY <1>1, <1>2 DEF LB!CreateRow, LB!Failed, LB!Cardinality, CreateRow, Failed, Cardinality
<1>6. \A id : LB!ActivateRow(gw, id) = ActivateRow(gw, id)
    BY <1>3 DEF LB!ActivateRow, LB!Failed, ActivateRow, Failed
<1>7. LB!ActiveRow(gw) = ActiveRow(gw)
    BY <1>3 DEF LB!ActiveRow, ActiveRow
<1> QED BY <1>4, <1>5, <1>6, <1>7

LEMMA FixedWindowSyncs ==
    ASSUME page = "fixed_window", NEW gw, NEW c
    PROVE  FW!syncFixedWindowPolicyConfig(gw, c) = Synced(gw, FormParams(c))
<1> DEFINE params == FormParams(c)
<1>1. \A row : FW!mapPolicySnapshot(row) = Snap(row)
    BY FixedWindowReads
<1>2. \A g : FW!getActivePolicy(g) = ActiveSnap(g)
    BY <1>1, FixedWindowEndpoints
    DEF FW!getActivePolicy, FW!ActiveSnapshot, FW!isRecord, ActiveSnap, Reads, isRecord
<1>3. {s \in FW!listPolicies(gw) : s.name = FW!DASHBOARD_POLICY_NAME} = Managed(gw)
    <2>1. DashboardName(page) = FW!DASHBOARD_POLICY_NAME
        BY DEF DashboardName
    <2>2. FW!listPolicies(gw) = {Snap(row) : row \in gw.rows} \ {null}
        BY <1>1 DEF FW!listPolicies, FW!Snapshots
    <2> QED BY <2>1, <2>2 DEF Managed
<1>4. params = [limit |-> c.limit, window_size_sec |-> c.windowSizeSec]
    BY ParamsOfForm DEF PageNames, Windowed
<1> HIDE DEF params
<1>5. \A answer : FW!Parsed(answer, FW!mapPolicySnapshot) = Parsing(answer)
    BY <1>1 DEF FW!Parsed, FW!isRecord, Parsing, Reads, isRecord
<1>6. \A g, id : FW!updatePolicy(g, id, c) = Parsing(UpdateRow(g, id, Updating(params)))
    <2>1. \A g, id : FW!updatePolicyRaw(g, id, page, params) =
              UpdateRow(g, id, Updating(params))
        BY FixedWindowEndpoints DEF FW!updatePolicyRaw, Updating
    <2>2. \A g, id : FW!updatePolicy(g, id, c) =
              FW!Parsed(FW!updatePolicyRaw(g, id, page, params), FW!mapPolicySnapshot)
        BY <1>4 DEF FW!updatePolicy
    <2> QED BY <1>5, <2>1, <2>2
<1>7. FW!createPolicy(gw, FW!DASHBOARD_POLICY_NAME, c) = Parsing(CreateRow(gw, Creating(params)))
    <2>1. DashboardName(page) = FW!DASHBOARD_POLICY_NAME
        BY DEF DashboardName
    <2>2. FW!createPolicyRaw(gw, FW!DASHBOARD_POLICY_NAME, page, params) =
              CreateRow(gw, Creating(params))
        BY <2>1, FixedWindowEndpoints DEF FW!createPolicyRaw, Creating
    <2>3. FW!createPolicy(gw, FW!DASHBOARD_POLICY_NAME, c) =
              FW!Parsed(FW!createPolicyRaw(gw, FW!DASHBOARD_POLICY_NAME, page, params),
                         FW!mapPolicySnapshot)
        BY <1>4 DEF FW!createPolicy
    <2> QED BY <1>5, <2>2, <2>3
<1>8. \A g, id : FW!ActivateRow(g, id) = ActivateRow(g, id)
    BY FixedWindowEndpoints
<1> DEFINE shown == FW!getActivePolicy(gw)
           managed == {s \in FW!listPolicies(gw) : s.name = FW!DASHBOARD_POLICY_NAME}
           target == IF shown # null /\ FW!Field(shown, "enabled") = TRUE
                     THEN FW!updatePolicy(gw, shown.id, c)
                     ELSE IF managed # {}
                          THEN FW!updatePolicy(gw, (CHOOSE s \in managed : TRUE).id, c)
                          ELSE FW!createPolicy(gw, FW!DASHBOARD_POLICY_NAME, c)
           activated == FW!ActivateRow(target.gw, target.policy.id)
<1>9. FW!syncFixedWindowPolicyConfig(gw, c) =
          IF target.policy = null \/ activated.body = null
          THEN [gw |-> target.gw, policy |-> null]
          ELSE [gw |-> activated.gw, policy |-> FW!getActivePolicy(activated.gw)]
    BY DEF FW!syncFixedWindowPolicyConfig, FW!syncDashboardPolicy
<1>10. target = Target(gw, params)
    <2>1. shown = ActiveSnap(gw) /\ managed = Managed(gw)
        BY <1>2, <1>3
    <2>2. FW!Field(shown, "enabled") = Field(shown, "enabled")
        BY DEF FW!Field, FW!isRecord, Field, isRecord
    <2> HIDE DEF shown, managed
    <2> QED BY <1>6, <1>7, <2>1, <2>2 DEF Target
<1> HIDE DEF target
<1>11. activated = Activated(target)
    BY <1>8 DEF Activated
<1> HIDE DEF activated
<1>12. FW!syncFixedWindowPolicyConfig(gw, c) = Synced(gw, params)
    BY <1>2, <1>9, <1>10, <1>11 DEF Synced
<1> QED BY <1>12 DEF params

LEMMA FixedWindowStarts ==
    ASSUME page = "fixed_window", NEW gw, NEW raw, IsForm(raw),
           IsForm(clampConfig(page, raw))
    PROVE  LET c == clampConfig(page, raw)
               s == start(page, gw, raw, null)
               synced == Synced(gw, FormParams(c))
           IN /\ s.gw = synced.gw /\ s.ok = (synced.policy # null)
              /\ s.config = IF synced.policy = null THEN c
                           ELSE Applying(c, synced.policy.numbers)
              /\ \A g : reloadActivePolicy(page, g, raw).config =
                    IF ActiveSnap(g) = null THEN raw ELSE Applying(raw, ActiveSnap(g).numbers)
<1> DEFINE c == clampConfig(page, raw)
           synced == Synced(gw, FormParams(c))
<1>1. start(page, gw, raw, null) = FW!start(gw, raw, null)
    BY DEF start
<1>2. FW!clampConfig(raw) = c
    BY DEF clampConfig
<1> HIDE DEF c
<1>3. FW!syncFixedWindowPolicyConfig(gw, c) = synced
    BY FixedWindowSyncs
<1>4. IsForm(c)
    BY DEF c
<1>5. \A policy : FW!applyPolicy(c, policy) = Applying(c, policy.numbers)
    BY <1>4, FixedWindowApplies
<1>6. \A policy : FW!applyPolicy(raw, policy) = Applying(raw, policy.numbers)
    BY FixedWindowApplies
<1>7. \A g : FW!getActivePolicy(g) = ActiveSnap(g)
    BY FixedWindowReads, FixedWindowEndpoints
    DEF FW!getActivePolicy, FW!ActiveSnapshot, FW!isRecord, ActiveSnap, Reads, isRecord
<1>8. \A g : reloadActivePolicy(page, g, raw) = FW!reloadActivePolicy(g, raw)
    BY DEF reloadActivePolicy
<1>9. \A g : reloadActivePolicy(page, g, raw).config =
          IF ActiveSnap(g) = null THEN raw ELSE Applying(raw, ActiveSnap(g).numbers)
    BY <1>6, <1>7, <1>8 DEF FW!reloadActivePolicy, FW!isRecord
<1> HIDE DEF synced
<1>10. FW!start(gw, raw, null) =
          [gw |-> synced.gw, ok |-> synced.policy # null,
           activePolicy |-> FW!OrElse(synced.policy, null),
           config |-> IF synced.policy = null THEN c ELSE Applying(c, synced.policy.numbers)]
    BY <1>2, <1>3, <1>5 DEF FW!start, FW!isRecord
<1> QED BY <1>1, <1>9, <1>10 DEF c, synced

LEMMA SlidingLogSyncs ==
    ASSUME page = "sliding_log", NEW gw, NEW c
    PROVE  SL!syncSlidingLogPolicyConfig(gw, c) = Synced(gw, FormParams(c))
<1> DEFINE params == FormParams(c)
<1>1. \A row : SL!mapPolicySnapshot(row) = Snap(row)
    BY SlidingLogReads
<1>2. \A g : SL!getActivePolicy(g) = ActiveSnap(g)
    BY <1>1, SlidingLogEndpoints
    DEF SL!getActivePolicy, SL!ActiveSnapshot, SL!isRecord, ActiveSnap, Reads, isRecord
<1>3. {s \in SL!listPolicies(gw) : s.name = SL!DASHBOARD_POLICY_NAME} = Managed(gw)
    <2>1. DashboardName(page) = SL!DASHBOARD_POLICY_NAME
        BY DEF DashboardName
    <2>2. SL!listPolicies(gw) = {Snap(row) : row \in gw.rows} \ {null}
        BY <1>1 DEF SL!listPolicies, SL!Snapshots
    <2> QED BY <2>1, <2>2 DEF Managed
<1>4. params = [limit |-> c.limit, window_size_sec |-> c.windowSizeSec]
    BY ParamsOfForm DEF PageNames, Windowed
<1> HIDE DEF params
<1>5. \A answer : SL!Parsed(answer, SL!mapPolicySnapshot) = Parsing(answer)
    BY <1>1 DEF SL!Parsed, SL!isRecord, Parsing, Reads, isRecord
<1>6. \A g, id : SL!updatePolicy(g, id, c) = Parsing(UpdateRow(g, id, Updating(params)))
    <2>1. \A g, id : SL!updatePolicyRaw(g, id, page, params) =
              UpdateRow(g, id, Updating(params))
        BY SlidingLogEndpoints DEF SL!updatePolicyRaw, Updating
    <2>2. \A g, id : SL!updatePolicy(g, id, c) =
              SL!Parsed(SL!updatePolicyRaw(g, id, page, params), SL!mapPolicySnapshot)
        BY <1>4 DEF SL!updatePolicy
    <2> QED BY <1>5, <2>1, <2>2
<1>7. SL!createPolicy(gw, SL!DASHBOARD_POLICY_NAME, c) = Parsing(CreateRow(gw, Creating(params)))
    <2>1. DashboardName(page) = SL!DASHBOARD_POLICY_NAME
        BY DEF DashboardName
    <2>2. SL!createPolicyRaw(gw, SL!DASHBOARD_POLICY_NAME, page, params) =
              CreateRow(gw, Creating(params))
        BY <2>1, SlidingLogEndpoints DEF SL!createPolicyRaw, Creating
    <2>3. SL!createPolicy(gw, SL!DASHBOARD_POLICY_NAME, c) =
              SL!Parsed(SL!createPolicyRaw(gw, SL!DASHBOARD_POLICY_NAME, page, params),
                         SL!mapPolicySnapshot)
        BY <1>4 DEF SL!createPolicy
    <2> QED BY <1>5, <2>2, <2>3
<1>8. \A g, id : SL!ActivateRow(g, id) = ActivateRow(g, id)
    BY SlidingLogEndpoints
<1> DEFINE shown == SL!getActivePolicy(gw)
           managed == {s \in SL!listPolicies(gw) : s.name = SL!DASHBOARD_POLICY_NAME}
           target == IF shown # null /\ SL!Field(shown, "enabled") = TRUE
                     THEN SL!updatePolicy(gw, shown.id, c)
                     ELSE IF managed # {}
                          THEN SL!updatePolicy(gw, (CHOOSE s \in managed : TRUE).id, c)
                          ELSE SL!createPolicy(gw, SL!DASHBOARD_POLICY_NAME, c)
           activated == SL!ActivateRow(target.gw, target.policy.id)
<1>9. SL!syncSlidingLogPolicyConfig(gw, c) =
          IF target.policy = null \/ activated.body = null
          THEN [gw |-> target.gw, policy |-> null]
          ELSE [gw |-> activated.gw, policy |-> SL!getActivePolicy(activated.gw)]
    BY DEF SL!syncSlidingLogPolicyConfig, SL!syncDashboardPolicy
<1>10. target = Target(gw, params)
    <2>1. shown = ActiveSnap(gw) /\ managed = Managed(gw)
        BY <1>2, <1>3
    <2>2. SL!Field(shown, "enabled") = Field(shown, "enabled")
        BY DEF SL!Field, SL!isRecord, Field, isRecord
    <2> HIDE DEF shown, managed
    <2> QED BY <1>6, <1>7, <2>1, <2>2 DEF Target
<1> HIDE DEF target
<1>11. activated = Activated(target)
    BY <1>8 DEF Activated
<1> HIDE DEF activated
<1>12. SL!syncSlidingLogPolicyConfig(gw, c) = Synced(gw, params)
    BY <1>2, <1>9, <1>10, <1>11 DEF Synced
<1> QED BY <1>12 DEF params

LEMMA SlidingLogStarts ==
    ASSUME page = "sliding_log", NEW gw, NEW raw, IsForm(raw),
           IsForm(clampConfig(page, raw))
    PROVE  LET c == clampConfig(page, raw)
               s == start(page, gw, raw, null)
               synced == Synced(gw, FormParams(c))
           IN /\ s.gw = synced.gw /\ s.ok = (synced.policy # null)
              /\ s.config = IF synced.policy = null THEN c
                           ELSE Applying(c, synced.policy.numbers)
              /\ \A g : reloadActivePolicy(page, g, raw).config =
                    IF ActiveSnap(g) = null THEN raw ELSE Applying(raw, ActiveSnap(g).numbers)
<1> DEFINE c == clampConfig(page, raw)
           synced == Synced(gw, FormParams(c))
<1>1. start(page, gw, raw, null) = SL!start(gw, raw, null)
    BY DEF start
<1>2. SL!clampConfig(raw) = c
    BY DEF clampConfig
<1> HIDE DEF c
<1>3. SL!syncSlidingLogPolicyConfig(gw, c) = synced
    BY SlidingLogSyncs
<1>4. IsForm(c)
    BY DEF c
<1>5. \A policy : SL!applyPolicy(c, policy) = Applying(c, policy.numbers)
    BY <1>4, SlidingLogApplies
<1>6. \A policy : SL!applyPolicy(raw, policy) = Applying(raw, policy.numbers)
    BY SlidingLogApplies
<1>7. \A g : SL!getActivePolicy(g) = ActiveSnap(g)
    BY SlidingLogReads, SlidingLogEndpoints
    DEF SL!getActivePolicy, SL!ActiveSnapshot, SL!isRecord, ActiveSnap, Reads, isRecord
<1>8. \A g : reloadActivePolicy(page, g, raw) = SL!reloadActivePolicy(g, raw)
    BY DEF reloadActivePolicy
<1>9. \A g : reloadActivePolicy(page, g, raw).config =
          IF ActiveSnap(g) = null THEN raw ELSE Applying(raw, ActiveSnap(g).numbers)
    BY <1>6, <1>7, <1>8 DEF SL!reloadActivePolicy, SL!isRecord
<1> HIDE DEF synced
<1>10. SL!start(gw, raw, null) =
          [gw |-> synced.gw, ok |-> synced.policy # null,
           activePolicy |-> SL!OrElse(synced.policy, null),
           config |-> IF synced.policy = null THEN c ELSE Applying(c, synced.policy.numbers)]
    BY <1>2, <1>3, <1>5 DEF SL!start, SL!isRecord
<1> QED BY <1>1, <1>9, <1>10 DEF c, synced

LEMMA SlidingWindowCounterSyncs ==
    ASSUME page = "sliding_window_counter", NEW gw, NEW c
    PROVE  SWC!syncSlidingWindowCounterPolicyConfig(gw, c) = Synced(gw, FormParams(c))
<1> DEFINE params == FormParams(c)
<1>1. \A row : SWC!mapPolicySnapshot(row) = Snap(row)
    BY SlidingWindowCounterReads
<1>2. \A g : SWC!getActivePolicy(g) = ActiveSnap(g)
    BY <1>1, SlidingWindowCounterEndpoints
    DEF SWC!getActivePolicy, SWC!ActiveSnapshot, SWC!isRecord, ActiveSnap, Reads, isRecord
<1>3. {s \in SWC!listPolicies(gw) : s.name = SWC!DASHBOARD_POLICY_NAME} = Managed(gw)
    <2>1. DashboardName(page) = SWC!DASHBOARD_POLICY_NAME
        BY DEF DashboardName
    <2>2. SWC!listPolicies(gw) = {Snap(row) : row \in gw.rows} \ {null}
        BY <1>1 DEF SWC!listPolicies, SWC!Snapshots
    <2> QED BY <2>1, <2>2 DEF Managed
<1>4. params = [limit |-> c.limit, window_size_sec |-> c.windowSizeSec]
    BY ParamsOfForm DEF PageNames, Windowed
<1> HIDE DEF params
<1>5. \A answer : SWC!Parsed(answer, SWC!mapPolicySnapshot) = Parsing(answer)
    BY <1>1 DEF SWC!Parsed, SWC!isRecord, Parsing, Reads, isRecord
<1>6. \A g, id : SWC!updatePolicy(g, id, c) = Parsing(UpdateRow(g, id, Updating(params)))
    <2>1. \A g, id : SWC!updatePolicyRaw(g, id, page, params) =
              UpdateRow(g, id, Updating(params))
        BY SlidingWindowCounterEndpoints DEF SWC!updatePolicyRaw, Updating
    <2>2. \A g, id : SWC!updatePolicy(g, id, c) =
              SWC!Parsed(SWC!updatePolicyRaw(g, id, page, params), SWC!mapPolicySnapshot)
        BY <1>4 DEF SWC!updatePolicy
    <2> QED BY <1>5, <2>1, <2>2
<1>7. SWC!createPolicy(gw, SWC!DASHBOARD_POLICY_NAME, c) = Parsing(CreateRow(gw, Creating(params)))
    <2>1. DashboardName(page) = SWC!DASHBOARD_POLICY_NAME
        BY DEF DashboardName
    <2>2. SWC!createPolicyRaw(gw, SWC!DASHBOARD_POLICY_NAME, page, params) =
              CreateRow(gw, Creating(params))
        BY <2>1, SlidingWindowCounterEndpoints DEF SWC!createPolicyRaw, Creating
    <2>3. SWC!createPolicy(gw, SWC!DASHBOARD_POLICY_NAME, c) =
              SWC!Parsed(SWC!createPolicyRaw(gw, SWC!DASHBOARD_POLICY_NAME, page, params),
                         SWC!mapPolicySnapshot)
        BY <1>4 DEF SWC!createPolicy
    <2> QED BY <1>5, <2>2, <2>3
<1>8. \A g, id : SWC!ActivateRow(g, id) = ActivateRow(g, id)
    BY SlidingWindowCounterEndpoints
<1> DEFINE shown == SWC!getActivePolicy(gw)
           managed == {s \in SWC!listPolicies(gw) : s.name = SWC!DASHBOARD_POLICY_NAME}
           target == IF shown # null /\ SWC!Field(shown, "enabled") = TRUE
                     THEN SWC!updatePolicy(gw, shown.id, c)
                     ELSE IF managed # {}
                          THEN SWC!updatePolicy(gw, (CHOOSE s \in managed : TRUE).id, c)
                          ELSE SWC!createPolicy(gw, SWC!DASHBOARD_POLICY_NAME, c)
           activated == SWC!ActivateRow(target.gw, target.policy.id)
<1>9. SWC!syncSlidingWindowCounterPolicyConfig(gw, c) =
          IF target.policy = null \/ activated.body = null
          THEN [gw |-> target.gw, policy |-> null]
          ELSE [gw |-> activated.gw, policy |-> SWC!getActivePolicy(activated.gw)]
    BY DEF SWC!syncSlidingWindowCounterPolicyConfig, SWC!syncDashboardPolicy
<1>10. target = Target(gw, params)
    <2>1. shown = ActiveSnap(gw) /\ managed = Managed(gw)
        BY <1>2, <1>3
    <2>2. SWC!Field(shown, "enabled") = Field(shown, "enabled")
        BY DEF SWC!Field, SWC!isRecord, Field, isRecord
    <2> HIDE DEF shown, managed
    <2> QED BY <1>6, <1>7, <2>1, <2>2 DEF Target
<1> HIDE DEF target
<1>11. activated = Activated(target)
    BY <1>8 DEF Activated
<1> HIDE DEF activated
<1>12. SWC!syncSlidingWindowCounterPolicyConfig(gw, c) = Synced(gw, params)
    BY <1>2, <1>9, <1>10, <1>11 DEF Synced
<1> QED BY <1>12 DEF params

LEMMA SlidingWindowCounterStarts ==
    ASSUME page = "sliding_window_counter", NEW gw, NEW raw, IsForm(raw),
           IsForm(clampConfig(page, raw))
    PROVE  LET c == clampConfig(page, raw)
               s == start(page, gw, raw, null)
               synced == Synced(gw, FormParams(c))
           IN /\ s.gw = synced.gw /\ s.ok = (synced.policy # null)
              /\ s.config = IF synced.policy = null THEN c
                           ELSE Applying(c, synced.policy.numbers)
              /\ \A g : reloadActivePolicy(page, g, raw).config =
                    IF ActiveSnap(g) = null THEN raw ELSE Applying(raw, ActiveSnap(g).numbers)
<1> DEFINE c == clampConfig(page, raw)
           synced == Synced(gw, FormParams(c))
<1>1. start(page, gw, raw, null) = SWC!start(gw, raw, null)
    BY DEF start
<1>2. SWC!clampConfig(raw) = c
    BY DEF clampConfig
<1> HIDE DEF c
<1>3. SWC!syncSlidingWindowCounterPolicyConfig(gw, c) = synced
    BY SlidingWindowCounterSyncs
<1>4. IsForm(c)
    BY DEF c
<1>5. \A policy : SWC!applyPolicy(c, policy) = Applying(c, policy.numbers)
    BY <1>4, SlidingWindowCounterApplies
<1>6. \A policy : SWC!applyPolicy(raw, policy) = Applying(raw, policy.numbers)
    BY SlidingWindowCounterApplies
<1>7. \A g : SWC!getActivePolicy(g) = ActiveSnap(g)
    BY SlidingWindowCounterReads, SlidingWindowCounterEndpoints
    DEF SWC!getActivePolicy, SWC!ActiveSnapshot, SWC!isRecord, ActiveSnap, Reads, isRecord
<1>8. \A g : reloadActivePolicy(page, g, raw) = SWC!reloadActivePolicy(g, raw)
    BY DEF reloadActivePolicy
<1>9. \A g : reloadActivePolicy(page, g, raw).config =
          IF ActiveSnap(g) = null THEN raw ELSE Applying(raw, ActiveSnap(g).numbers)
    BY <1>6, <1>7, <1>8 DEF SWC!reloadActivePolicy, SWC!isRecord
<1> HIDE DEF synced
<1>10. SWC!start(gw, raw, null) =
          [gw |-> synced.gw, ok |-> synced.policy # null,
           activePolicy |-> SWC!OrElse(synced.policy, null),
           config |-> IF synced.policy = null THEN c ELSE Applying(c, synced.policy.numbers)]
    BY <1>2, <1>3, <1>5 DEF SWC!start, SWC!isRecord
<1> QED BY <1>1, <1>9, <1>10 DEF c, synced

LEMMA TokenBucketSyncs ==
    ASSUME page = "token_bucket", NEW gw, NEW c
    PROVE  TB!syncTokenBucketPolicyConfig(gw, c) = Synced(gw, FormParams(c))
<1> DEFINE params == FormParams(c)
<1>1. \A row : TB!mapPolicySnapshot(row) = Snap(row)
    BY TokenBucketReads
<1>2. \A g : TB!getActivePolicy(g) = ActiveSnap(g)
    BY <1>1, TokenBucketEndpoints
    DEF TB!getActivePolicy, TB!ActiveSnapshot, TB!isRecord, ActiveSnap, Reads, isRecord
<1>3. {s \in TB!listPolicies(gw) : s.name = TB!DASHBOARD_POLICY_NAME} = Managed(gw)
    <2>1. DashboardName(page) = TB!DASHBOARD_POLICY_NAME
        BY DEF DashboardName
    <2>2. TB!listPolicies(gw) = {Snap(row) : row \in gw.rows} \ {null}
        BY <1>1 DEF TB!listPolicies, TB!Snapshots
    <2> QED BY <2>1, <2>2 DEF Managed
<1>4. params = [capacity |-> c.capacity, refill_rate_per_sec |-> c.refillRatePerSec,
                  tokens_per_request |-> c.tokensPerRequest]
    BY ParamsOfForm DEF PageNames, Windowed
<1> HIDE DEF params
<1>5. \A answer : TB!Parsed(answer, TB!mapPolicySnapshot) = Parsing(answer)
    BY <1>1 DEF TB!Parsed, TB!isRecord, Parsing, Reads, isRecord
<1>6. \A g, id : TB!updatePolicy(g, id, c) = Parsing(UpdateRow(g, id, Updating(params)))
    <2>1. \A g, id : TB!updatePolicyRaw(g, id, page, params) =
              UpdateRow(g, id, Updating(params))
        BY TokenBucketEndpoints DEF TB!updatePolicyRaw, Updating
    <2>2. \A g, id : TB!updatePolicy(g, id, c) =
              TB!Parsed(TB!updatePolicyRaw(g, id, page, params), TB!mapPolicySnapshot)
        BY <1>4 DEF TB!updatePolicy
    <2> QED BY <1>5, <2>1, <2>2
<1>7. TB!createPolicy(gw, TB!DASHBOARD_POLICY_NAME, c) = Parsing(CreateRow(gw, Creating(params)))
    <2>1. DashboardName(page) = TB!DASHBOARD_POLICY_NAME
        BY DEF DashboardName
    <2>2. TB!createPolicyRaw(gw, TB!DASHBOARD_POLICY_NAME, page, params) =
              CreateRow(gw, Creating(params))
        BY <2>1, TokenBucketEndpoints DEF TB!createPolicyRaw, Creating
    <2>3. TB!createPolicy(gw, TB!DASHBOARD_POLICY_NAME, c) =
              TB!Parsed(TB!createPolicyRaw(gw, TB!DASHBOARD_POLICY_NAME, page, params),
                         TB!mapPolicySnapshot)
        BY <1>4 DEF TB!createPolicy
    <2> QED BY <1>5, <2>2, <2>3
<1>8. \A g, id : TB!ActivateRow(g, id) = ActivateRow(g, id)
    BY TokenBucketEndpoints
<1> DEFINE shown == TB!getActivePolicy(gw)
           managed == {s \in TB!listPolicies(gw) : s.name = TB!DASHBOARD_POLICY_NAME}
           target == IF shown # null /\ TB!Field(shown, "enabled") = TRUE
                     THEN TB!updatePolicy(gw, shown.id, c)
                     ELSE IF managed # {}
                          THEN TB!updatePolicy(gw, (CHOOSE s \in managed : TRUE).id, c)
                          ELSE TB!createPolicy(gw, TB!DASHBOARD_POLICY_NAME, c)
           activated == TB!ActivateRow(target.gw, target.policy.id)
<1>9. TB!syncTokenBucketPolicyConfig(gw, c) =
          IF target.policy = null \/ activated.body = null
          THEN [gw |-> target.gw, policy |-> null]
          ELSE [gw |-> activated.gw, policy |-> TB!getActivePolicy(activated.gw)]
    BY DEF TB!syncTokenBucketPolicyConfig, TB!syncDashboardPolicy
<1>10. target = Target(gw, params)
    <2>1. shown = ActiveSnap(gw) /\ managed = Managed(gw)
        BY <1>2, <1>3
    <2>2. TB!Field(shown, "enabled") = Field(shown, "enabled")
        BY DEF TB!Field, TB!isRecord, Field, isRecord
    <2> HIDE DEF shown, managed
    <2> QED BY <1>6, <1>7, <2>1, <2>2 DEF Target
<1> HIDE DEF target
<1>11. activated = Activated(target)
    BY <1>8 DEF Activated
<1> HIDE DEF activated
<1>12. TB!syncTokenBucketPolicyConfig(gw, c) = Synced(gw, params)
    BY <1>2, <1>9, <1>10, <1>11 DEF Synced
<1> QED BY <1>12 DEF params

LEMMA TokenBucketStarts ==
    ASSUME page = "token_bucket", NEW gw, NEW raw, IsForm(raw),
           IsForm(clampConfig(page, raw))
    PROVE  LET c == clampConfig(page, raw)
               s == start(page, gw, raw, null)
               synced == Synced(gw, FormParams(c))
           IN /\ s.gw = synced.gw /\ s.ok = (synced.policy # null)
              /\ s.config = IF synced.policy = null THEN c
                           ELSE Applying(c, synced.policy.numbers)
              /\ \A g : reloadActivePolicy(page, g, raw).config =
                    IF ActiveSnap(g) = null THEN raw ELSE Applying(raw, ActiveSnap(g).numbers)
<1> DEFINE c == clampConfig(page, raw)
           synced == Synced(gw, FormParams(c))
<1>1. start(page, gw, raw, null) = TB!start(gw, raw, null)
    BY DEF start
<1>2. TB!clampConfig(raw) = c
    BY DEF clampConfig
<1> HIDE DEF c
<1>3. TB!syncTokenBucketPolicyConfig(gw, c) = synced
    BY TokenBucketSyncs
<1>4. IsForm(c)
    BY DEF c
<1>5. \A policy : TB!applyPolicy(c, policy) = Applying(c, policy.numbers)
    BY <1>4, TokenBucketApplies
<1>6. \A policy : TB!applyPolicy(raw, policy) = Applying(raw, policy.numbers)
    BY TokenBucketApplies
<1>7. \A g : TB!getActivePolicy(g) = ActiveSnap(g)
    BY TokenBucketReads, TokenBucketEndpoints
    DEF TB!getActivePolicy, TB!ActiveSnapshot, TB!isRecord, ActiveSnap, Reads, isRecord
<1>8. \A g : reloadActivePolicy(page, g, raw) = TB!reloadActivePolicy(g, raw)
    BY DEF reloadActivePolicy
<1>9. \A g : reloadActivePolicy(page, g, raw).config =
          IF ActiveSnap(g) = null THEN raw ELSE Applying(raw, ActiveSnap(g).numbers)
    BY <1>6, <1>7, <1>8 DEF TB!reloadActivePolicy, TB!isRecord
<1> HIDE DEF synced
<1>10. TB!start(gw, raw, null) =
          [gw |-> synced.gw, ok |-> synced.policy # null,
           activePolicy |-> TB!OrElse(synced.policy, null),
           config |-> IF synced.policy = null THEN c ELSE Applying(c, synced.policy.numbers)]
    BY <1>2, <1>3, <1>5 DEF TB!start, TB!isRecord
<1> QED BY <1>1, <1>9, <1>10 DEF c, synced

LEMMA LeakyBucketSyncs ==
    ASSUME page = "leaky_bucket", NEW gw, NEW c
    PROVE  LB!syncLeakyBucketPolicyConfig(gw, c) = Synced(gw, FormParams(c))
<1> DEFINE params == FormParams(c)
<1>1. \A row : LB!mapPolicySnapshot(row) = Snap(row)
    BY LeakyBucketReads
<1>2. \A g : LB!getActivePolicy(g) = ActiveSnap(g)
    BY <1>1, LeakyBucketEndpoints
    DEF LB!getActivePolicy, LB!ActiveSnapshot, LB!isRecord, ActiveSnap, Reads, isRecord
<1>3. {s \in LB!listPolicies(gw) : s.name = LB!DASHBOARD_POLICY_NAME} = Managed(gw)
    <2>1. DashboardName(page) = LB!DASHBOARD_POLICY_NAME
        BY DEF DashboardName
    <2>2. LB!listPolicies(gw) = {Snap(row) : row \in gw.rows} \ {null}
        BY <1>1 DEF LB!listPolicies, LB!Snapshots
    <2> QED BY <2>1, <2>2 DEF Managed
<1>4. params = [capacity |-> c.capacity, leak_rate_per_sec |-> c.leakRatePerSec,
                  water_per_request |-> c.waterPerRequest]
    BY ParamsOfForm DEF PageNames, Windowed
<1> HIDE DEF params
<1>5. \A answer : LB!Parsed(answer, LB!mapPolicySnapshot) = Parsing(answer)
    BY <1>1 DEF LB!Parsed, LB!isRecord, Parsing, Reads, isRecord
<1>6. \A g, id : LB!updatePolicy(g, id, c) = Parsing(UpdateRow(g, id, Updating(params)))
    <2>1. \A g, id : LB!updatePolicyRaw(g, id, page, params) =
              UpdateRow(g, id, Updating(params))
        BY LeakyBucketEndpoints DEF LB!updatePolicyRaw, Updating
    <2>2. \A g, id : LB!updatePolicy(g, id, c) =
              LB!Parsed(LB!updatePolicyRaw(g, id, page, params), LB!mapPolicySnapshot)
        BY <1>4 DEF LB!updatePolicy
    <2> QED BY <1>5, <2>1, <2>2
<1>7. LB!createPolicy(gw, LB!DASHBOARD_POLICY_NAME, c) = Parsing(CreateRow(gw, Creating(params)))
    <2>1. DashboardName(page) = LB!DASHBOARD_POLICY_NAME
        BY DEF DashboardName
    <2>2. LB!createPolicyRaw(gw, LB!DASHBOARD_POLICY_NAME, page, params) =
              CreateRow(gw, Creating(params))
        BY <2>1, LeakyBucketEndpoints DEF LB!createPolicyRaw, Creating
    <2>3. LB!createPolicy(gw, LB!DASHBOARD_POLICY_NAME, c) =
              LB!Parsed(LB!createPolicyRaw(gw, LB!DASHBOARD_POLICY_NAME, page, params),
                         LB!mapPolicySnapshot)
        BY <1>4 DEF LB!createPolicy
    <2> QED BY <1>5, <2>2, <2>3
<1>8. \A g, id : LB!ActivateRow(g, id) = ActivateRow(g, id)
    BY LeakyBucketEndpoints
<1> DEFINE shown == LB!getActivePolicy(gw)
           managed == {s \in LB!listPolicies(gw) : s.name = LB!DASHBOARD_POLICY_NAME}
           target == IF shown # null /\ LB!Field(shown, "enabled") = TRUE
                     THEN LB!updatePolicy(gw, shown.id, c)
                     ELSE IF managed # {}
                          THEN LB!updatePolicy(gw, (CHOOSE s \in managed : TRUE).id, c)
                          ELSE LB!createPolicy(gw, LB!DASHBOARD_POLICY_NAME, c)
           activated == LB!ActivateRow(target.gw, target.policy.id)
<1>9. LB!syncLeakyBucketPolicyConfig(gw, c) =
          IF target.policy = null \/ activated.body = null
          THEN [gw |-> target.gw, policy |-> null]
          ELSE [gw |-> activated.gw, policy |-> LB!getActivePolicy(activated.gw)]
    BY DEF LB!syncLeakyBucketPolicyConfig, LB!syncDashboardPolicy
<1>10. target = Target(gw, params)
    <2>1. shown = ActiveSnap(gw) /\ managed = Managed(gw)
        BY <1>2, <1>3
    <2>2. LB!Field(shown, "enabled") = Field(shown, "enabled")
        BY DEF LB!Field, LB!isRecord, Field, isRecord
    <2> HIDE DEF shown, managed
    <2> QED BY <1>6, <1>7, <2>1, <2>2 DEF Target
<1> HIDE DEF target
<1>11. activated = Activated(target)
    BY <1>8 DEF Activated
<1> HIDE DEF activated
<1>12. LB!syncLeakyBucketPolicyConfig(gw, c) = Synced(gw, params)
    BY <1>2, <1>9, <1>10, <1>11 DEF Synced
<1> QED BY <1>12 DEF params

LEMMA LeakyBucketStarts ==
    ASSUME page = "leaky_bucket", NEW gw, NEW raw, IsForm(raw),
           IsForm(clampConfig(page, raw))
    PROVE  LET c == clampConfig(page, raw)
               s == start(page, gw, raw, null)
               synced == Synced(gw, FormParams(c))
           IN /\ s.gw = synced.gw /\ s.ok = (synced.policy # null)
              /\ s.config = IF synced.policy = null THEN c
                           ELSE Applying(c, synced.policy.numbers)
              /\ \A g : reloadActivePolicy(page, g, raw).config =
                    IF ActiveSnap(g) = null THEN raw ELSE Applying(raw, ActiveSnap(g).numbers)
<1> DEFINE c == clampConfig(page, raw)
           synced == Synced(gw, FormParams(c))
<1>1. start(page, gw, raw, null) = LB!start(gw, raw, null)
    BY DEF start
<1>2. LB!clampConfig(raw) = c
    BY DEF clampConfig
<1> HIDE DEF c
<1>3. LB!syncLeakyBucketPolicyConfig(gw, c) = synced
    BY LeakyBucketSyncs
<1>4. IsForm(c)
    BY DEF c
<1>5. \A policy : LB!applyPolicy(c, policy) = Applying(c, policy.numbers)
    BY <1>4, LeakyBucketApplies
<1>6. \A policy : LB!applyPolicy(raw, policy) = Applying(raw, policy.numbers)
    BY LeakyBucketApplies
<1>7. \A g : LB!getActivePolicy(g) = ActiveSnap(g)
    BY LeakyBucketReads, LeakyBucketEndpoints
    DEF LB!getActivePolicy, LB!ActiveSnapshot, LB!isRecord, ActiveSnap, Reads, isRecord
<1>8. \A g : reloadActivePolicy(page, g, raw) = LB!reloadActivePolicy(g, raw)
    BY DEF reloadActivePolicy
<1>9. \A g : reloadActivePolicy(page, g, raw).config =
          IF ActiveSnap(g) = null THEN raw ELSE Applying(raw, ActiveSnap(g).numbers)
    BY <1>6, <1>7, <1>8 DEF LB!reloadActivePolicy, LB!isRecord
<1> HIDE DEF synced
<1>10. LB!start(gw, raw, null) =
          [gw |-> synced.gw, ok |-> synced.policy # null,
           activePolicy |-> LB!OrElse(synced.policy, null),
           config |-> IF synced.policy = null THEN c ELSE Applying(c, synced.policy.numbers)]
    BY <1>2, <1>3, <1>5 DEF LB!start, LB!isRecord
<1> QED BY <1>1, <1>9, <1>10 DEF c, synced

LEMMA PageStarts ==
    ASSUME page \in PageNames, NEW gw, NEW raw, IsForm(raw), IsForm(clampConfig(page, raw))
    PROVE  LET c == clampConfig(page, raw)
               s == start(page, gw, raw, null)
               synced == Synced(gw, FormParams(c))
           IN /\ s.gw = synced.gw /\ s.ok = (synced.policy # null)
              /\ s.config = IF synced.policy = null THEN c
                           ELSE Applying(c, synced.policy.numbers)
              /\ \A g : reloadActivePolicy(page, g, raw).config =
                    IF ActiveSnap(g) = null THEN raw ELSE Applying(raw, ActiveSnap(g).numbers)
BY FixedWindowStarts, SlidingLogStarts, SlidingWindowCounterStarts, TokenBucketStarts,
   LeakyBucketStarts DEF PageNames

LEMMA StartApplied ==
    ASSUME page \in PageNames, NEW gw \in Gateways[page], NEW raw \in RawForms
    PROVE  Applied(gw, raw, start(page, gw, raw, null))
<1> DEFINE c == clampConfig(page, raw)
           params == FormParams(c)
           synced == Synced(gw, params)
           s == start(page, gw, raw, null)
<1>1. IsGateway(gw)
    BY GatewaysAssumption DEF IsGateway
<1>2. Sound(c)
    BY ClampedSound
<1>3. IsForm(raw) /\ IsForm(c)
    <2> DEFINE own == [f \in PolicyFields |-> c[f]]
    <2>1. \A f \in PolicyFields : own[f] = c[f]
        OBVIOUS
    <2> HIDE DEF own
    <2> QED BY <2>1, ApplyingOwn, RawFormsAssumption DEF IsForm
<1>4. Sendable(params) /\ Readable(params)
    BY <1>2, FormSendable, PageRereads DEF Readable
<1>5. /\ s.gw = synced.gw /\ s.ok = (synced.policy # null)
      /\ s.config = IF synced.policy = null THEN c ELSE Applying(c, synced.policy.numbers)
      /\ \A g : reloadActivePolicy(page, g, raw).config =
             IF ActiveSnap(g) = null THEN raw ELSE Applying(raw, ActiveSnap(g).numbers)
    BY <1>3, PageStarts
<1>6. \/ synced.policy = null /\ synced.gw = gw /\ Blocked(gw)
      \/ \E new : Leaves(gw, synced.gw, new, params) /\ synced.policy = Snap(new)
    BY <1>1, <1>4, Syncs
<1> HIDE DEF s, synced
<1>7. CASE synced.policy = null /\ synced.gw = gw /\ Blocked(gw)
    <2>1. s.ok = FALSE /\ s.gw = gw
        BY <1>5, <1>7
    <2>2. \A row \in gw.rows : RowOf(gw, row.id) = row
        BY <1>1, RowFound DEF IsGateway
    <2>3. Applied(gw, raw, s)
        BY <1>7, <2>1, <2>2 DEF Applied
    <2> QED BY <2>3 DEF s
<1>8. CASE \E new : Leaves(gw, synced.gw, new, params) /\ synced.policy = Snap(new)
    <2>1. PICK new : Leaves(gw, synced.gw, new, params) /\ synced.policy = Snap(new)
        BY <1>8
    <2>2. Snap(new) # null /\ \A f \in PolicyFields : Snap(new).numbers[f] = c[f]
        BY <1>2, <2>1, PageRereads DEF Leaves
    <2>3. Applying(c, Snap(new).numbers) = c /\ Applying(raw, Snap(new).numbers) = c
        BY <2>2, ApplyingOwn
    <2> HIDE DEF c
    <2>4. s.ok = TRUE /\ s.gw = synced.gw /\ s.config = c
        BY <1>5, <2>1, <2>2, <2>3
    <2>5. ActiveRow(s.gw) = new /\ new # null
        BY <2>1, <2>4, RowsRecords DEF Leaves, Settled
    <2>6. ActiveSnap(s.gw) = Snap(new)
        BY <2>5 DEF ActiveSnap, Reads, isRecord
    <2>7. reloadActivePolicy(page, s.gw, raw).config = c
        BY <1>5, <2>2, <2>3, <2>6
    <2>8. new.enabled /\ new.algorithm = page /\ new.params_json = FormParams(s.config)
        BY <2>1, <2>4 DEF Leaves, Settled
    <2>9. /\ \A row \in gw.rows : row.id # new.id => row \in s.gw.rows
          /\ \A row \in gw.rows : RowOf(s.gw, row.id).algorithm = row.algorithm
        BY <2>1, <2>4 DEF Leaves
    <2>10. Applied(gw, raw, s)
        BY <2>4, <2>5, <2>7, <2>8, <2>9 DEF Applied, c
    <2> QED BY <2>10 DEF s
<1> QED BY <1>6, <1>7, <1>8

\* Whatever number is typed and whatever policies a gateway has, a start that
\* nobody disturbs leaves the gateway, the form and a reload with one set of
\* numbers, or fails because a policy that the page cannot read has its name.
THEOREM StartsApplyForm == Spec => []StartAppliesForm
<1>1. page \in PageNames => StartAppliesForm
    BY StartApplied DEF StartAppliesForm
<1>2. IInv => page \in PageNames
    BY DEF IInv, Types
<1> QED BY <1>1, <1>2, Invariant, PTL
=============================================================================
