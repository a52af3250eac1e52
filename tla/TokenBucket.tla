----------------------------- MODULE TokenBucket -----------------------------
(***************************************************************************)
(* The token bucket limiter: TokenBucketLimiter.Allow in the gateway and   *)
(* the Lua script it runs atomically in Redis, for one runtime key         *)
(* (rl:token_bucket:<policy>:<client>).  Keys never interact.              *)
(*                                                                         *)
(* A request first reads the gateway's clock (simulate.Service.Evaluate)   *)
(* and only later does its script run in Redis, so scripts may run in an   *)
(* order that is not the order of their timestamps.  The Redis client      *)
(* repeats a call whose reply was lost, and gives up after MaxRetries.     *)
(*                                                                         *)
(* One tick of the clock is one millisecond of the code, scaled.  Levels   *)
(* are counted in units, Unit of them to a token, and Rate is the whole    *)
(* number of units one tick refills: refill_rate_per_sec is                *)
(* Rate * SecondMs / Unit.                                                 *)
(*                                                                         *)
(* Lua computes in doubles.  The refill of a script that finds time passed *)
(* and the quotient of a wait are each rounded, by Noise units at most, in *)
(* either direction.  Rounding is monotone, so a refill never takes away;  *)
(* taking whole tokens from a larger level is exact.                       *)
(***************************************************************************)
EXTENDS Integers

CONSTANTS
    Requests,            \* concurrent callers of Evaluate for this key
    capacity,            \* policy parameter, whole tokens
    tokens_per_request,  \* policy parameter, whole tokens
    Unit,                \* units in a token
    Rate,                \* units refilled per tick
    Noise,               \* bound on the rounding error of a script, in units
    SecondMs,            \* ticks in a second, the granularity of a TTL
    MaxDelay,            \* ticks from reading the clock to the last script run
    MaxRetries,          \* repetitions the Redis client makes of a lost call
    MaxTime              \* bound on the clock

ASSUME BucketAssumption ==
    /\ capacity \in Nat \ {0}
    /\ tokens_per_request \in Nat \ {0}
    /\ Unit \in Nat \ {0}
    /\ Rate \in Nat \ {0}
    /\ Noise \in Nat
    /\ SecondMs \in Nat \ {0}
    /\ MaxDelay \in Nat
    /\ MaxRetries \in Nat
    /\ MaxTime \in Nat

(***************************************************************************)
(* A call to Redis ends within a second of reading the clock.  The TTL of  *)
(* a bucket has one second to spare, so this is what makes expiry safe.    *)
(***************************************************************************)
ASSUME DelayAssumption == MaxDelay =< SecondMs

VARIABLES
    now,             \* wall clock of the gateway, and the pace of Redis's
    pc,              \* request -> "idle" | "stamped"
    stamp,           \* request -> nowMS it read
    tries,           \* request -> lost replies so far
    tokens,          \* hash field tokens, in units
    last_refill_ms,  \* hash field last_refill_ms
    expireAt,        \* the key exists while now < expireAt
    decision,        \* the last script's decision, if its reply arrived
    \* History of the observed interval:
    base,            \* no script of the interval has an earlier stamp
    granted,         \* units granted in the interval
    regress          \* total of the interval's backward moves of last_refill_ms

key == <<tokens, last_refill_ms, expireAt>>
calls == <<pc, stamp, tries>>
history == <<base, granted, regress>>
vars == <<now, calls, key, decision, history>>

-----------------------------------------------------------------------------
Smaller(a, b) == IF a < b THEN a ELSE b
Larger(a, b) == IF a > b THEN a ELSE b
CeilDiv(a, b) == (a + b - 1) \div b

Capacity == capacity * Unit
Cost == tokens_per_request * Unit

\* Mutant of ttlSec: the spare second is left out.
ttlSecNoSpare == Larger(1, CeilDiv(Capacity, Rate * SecondMs))

\* Seconds until an untouched bucket is deleted.
ttlSec == Larger(2, CeilDiv(Capacity, Rate * SecondMs) + 1)

NoDecision == [kind |-> "none", remaining |-> 0, retry |-> 0]
Decisions == [kind : {"none", "allowed", "denied"}, remaining : Nat, retry : Nat]

TypeOK ==
    /\ now \in Nat
    /\ pc \in [Requests -> {"idle", "stamped"}]
    /\ stamp \in [Requests -> Nat]
    /\ tries \in [Requests -> Nat]
    /\ tokens \in 0 .. Capacity
    /\ last_refill_ms \in Int
    /\ expireAt \in Nat
    /\ decision \in Decisions
    /\ base \in Int
    /\ granted \in Nat
    /\ regress \in Nat

-----------------------------------------------------------------------------
(***************************************************************************)
(* The script.                                                             *)
(***************************************************************************)
KeyExists == now < expireAt

\* Elapsed time is never negative.
Elapsed(s) == Larger(0, s - last_refill_ms)

Roundings == (0 - Noise) .. Noise

\* Mutant of Refilled: the refill overflows the bucket.
RefilledUncapped(s, e) ==
    IF Elapsed(s) = 0 THEN tokens
    ELSE Larger(tokens, tokens + Rate * Elapsed(s) + e)

\* What a refill off by e makes of the stored level.  Where no time has
\* passed there is nothing to round.
Refilled(s, e) ==
    IF Elapsed(s) = 0 THEN tokens
    ELSE Smaller(Capacity, Larger(tokens, tokens + Rate * Elapsed(s) + e))

\* The level a script stamped s finds; a missing hash is a full bucket.
LevelAt(s, e) == IF KeyExists THEN Refilled(s, e) ELSE Capacity

Admits(level) == level >= Cost

\* Mutant of RetryAfter: rounded down.
RetryRoundedDown(level, e) == Larger(1, (Cost - level + e) \div Rate)

\* math.ceil of the time to refill what is missing, itself off by e, at least
\* one tick.
RetryAfter(level, e) == Larger(1, CeilDiv(Cost - level + e, Rate))

\* Mutant of RemainingBudget: the fractional tokens are rounded up.
RemainingRoundedUp(level) == CeilDiv(level, Unit) \div tokens_per_request

(***************************************************************************)
(* The limiter's answer.  Redis truncates the script's fractional tokens   *)
(* to an integer before the gateway divides them by tokens_per_request.    *)
(***************************************************************************)
RemainingBudget(level) == (level \div Unit) \div tokens_per_request

Decide(level, e) ==
    IF Admits(level)
    THEN [kind |-> "allowed", retry |-> 0, remaining |-> RemainingBudget(level - Cost)]
    ELSE [kind |-> "denied", retry |-> RetryAfter(level, e), remaining |-> 0]

\* Mutant of StoredRefillTime: the script stores the tokens only.
RefillTimeKept(s) == last_refill_ms

\* HSET writes the caller's stamp even when it is older than the stored one.
StoredRefillTime(s) == s

\* A script stamped s has found the given level.
Script(s, level) ==
    /\ tokens' = level - (IF Admits(level) THEN Cost ELSE 0)
    /\ last_refill_ms' = StoredRefillTime(s)
    /\ expireAt' = now + ttlSec * SecondMs
    /\ granted' = granted + (IF Admits(level) THEN Cost ELSE 0)
    /\ regress' = regress + Larger(0, last_refill_ms - s)
    /\ UNCHANGED base

-----------------------------------------------------------------------------
Init ==
    /\ now = 0
    /\ pc = [r \in Requests |-> "idle"]
    /\ stamp = [r \in Requests |-> 0]
    /\ tries = [r \in Requests |-> 0]
    /\ tokens = Capacity
    /\ last_refill_ms = 0 - MaxDelay
    /\ expireAt = 0
    /\ decision = NoDecision
    /\ base = 0 - MaxDelay
    /\ granted = 0
    /\ regress = 0

\* Time passes, but not past the deadline of a call on its way to Redis.
Tick ==
    /\ now < MaxTime
    /\ \A r \in Requests : pc[r] = "stamped" => now + 1 - stamp[r] =< MaxDelay
    /\ now' = now + 1
    /\ UNCHANGED <<calls, key, decision, history>>

\* Evaluate reads the clock and calls Allow.
ReadClock(r) ==
    /\ pc[r] = "idle"
    /\ pc' = [pc EXCEPT ![r] = "stamped"]
    /\ stamp' = [stamp EXCEPT ![r] = now]
    /\ UNCHANGED <<now, tries, key, decision, history>>

Return(r) ==
    /\ pc' = [pc EXCEPT ![r] = "idle"]
    /\ stamp' = [stamp EXCEPT ![r] = 0]
    /\ tries' = [tries EXCEPT ![r] = 0]

\* The script runs and its reply reaches the limiter.
Execute(r) ==
    /\ pc[r] = "stamped"
    /\ \E e, f \in Roundings :
        /\ Script(stamp[r], LevelAt(stamp[r], e))
        /\ decision' = Decide(LevelAt(stamp[r], e), f)
    /\ Return(r)
    /\ UNCHANGED now

\* The script runs, its reply is lost and the client sends the call again.
ExecuteLost(r) ==
    /\ pc[r] = "stamped"
    /\ tries[r] < MaxRetries
    /\ \E e \in Roundings : Script(stamp[r], LevelAt(stamp[r], e))
    /\ decision' = NoDecision
    /\ tries' = [tries EXCEPT ![r] = @ + 1]
    /\ UNCHANGED <<now, pc, stamp>>

\* The call fails without (another) run of the script: Allow returns an error.
Fail(r) ==
    /\ pc[r] = "stamped"
    /\ Return(r)
    /\ UNCHANGED <<now, key, decision, history>>

\* An observer may start to count at any moment, calls in flight included.
ObserveFromNow ==
    /\ base' = now - MaxDelay
    /\ granted' = 0
    /\ regress' = 0

Observe == ObserveFromNow /\ UNCHANGED <<now, calls, key, decision>>

(***************************************************************************)
(* Activating the policy with reset_runtime_state deletes its keys.  A     *)
(* missing hash is read as a full bucket at the caller's stamp, for which  *)
(* any earlier time stands in.                                             *)
(***************************************************************************)
ScanDelete ==
    /\ tokens' = Capacity
    /\ last_refill_ms' = now - MaxDelay
    /\ expireAt' = 0
    /\ decision' = NoDecision
    /\ ObserveFromNow
    /\ UNCHANGED <<now, calls>>

Call(r) == ReadClock(r) \/ Execute(r) \/ ExecuteLost(r) \/ Fail(r)

Next ==
    \/ Tick
    \/ \E r \in Requests : Call(r)
    \/ Observe
    \/ ScanDelete

Spec == Init /\ [][Next]_vars

-----------------------------------------------------------------------------
(***************************************************************************)
(* Properties.                                                             *)
(***************************************************************************)

\* What a tick refills at most, rounding included.
FastestRate == Rate + Noise

\* Over any observed interval the grants are bounded by a full bucket plus
\* the refill of the time that passed plus the refill of every tick by which
\* a late script moved last_refill_ms back.  With calls that reach Redis in
\* the order of their stamps the last term is zero.  Rounding errors do not add
\* up beyond one for each tick, however many scripts run in it.  The stored
\* tokens count against the same budget, so nothing granted can be granted
\* again.
SustainedRate ==
    granted + tokens
        =< Capacity + FastestRate * (Larger(last_refill_ms, base) - base + regress)

\* Deleting an idle bucket by its TTL never gives a client tokens: by then
\* refilling would have filled the bucket, even for the slowest call.
ExpiryHarmless ==
    \/ KeyExists
    \/ tokens + Rate * (now - MaxDelay - last_refill_ms) >= Capacity

\* The remaining budget of an answer is exactly the number of further
\* requests the bucket would grant at the same instant, although Redis
\* truncated the tokens and the gateway rounds a second time.
RemainingExact ==
    decision.kind = "allowed" =>
        /\ decision.remaining * Cost =< tokens
        /\ tokens < (decision.remaining + 1) * Cost

\* The wait announced by a denial is right to a tick, however the denial and
\* the next script are rounded: a tick after it a request is granted, and two
\* ticks before its end none is, were the key still there.  At its end and a
\* tick before, either may be: the wait is computed in doubles, and so is the
\* level it is about.  This needs a policy whose tokens_per_request fits in
\* its capacity, which the validation of the policy service does not demand,
\* and rounding errors of at most half of what a tick refills.
RetryWithinOne ==
    decision.kind = "denied" => \A e \in Roundings :
        /\ Refilled(last_refill_ms + decision.retry + 1, e) >= Cost
        /\ Refilled(last_refill_ms + decision.retry - 2, e) < Cost

\* The documents (M4_TOKEN_BUCKET_EXECUTION_PLAN.md, line 59) have the wait
\* end when enough tokens are available.
DocRetryEnough ==
    decision.kind = "denied" => \A e \in Roundings :
        Refilled(last_refill_ms + decision.retry, e) >= Cost

\* The documents bound the sustained rate by the refill rate alone: over an
\* interval, a full bucket and the refill of its length.
DocSustainedRate == granted =< Capacity + Rate * (now - base)
=============================================================================
