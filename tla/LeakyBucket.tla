----------------------------- MODULE LeakyBucket -----------------------------
(***************************************************************************)
(* The leaky bucket limiter: LeakyBucketLimiter.Allow and its Lua script,  *)
(* for one runtime key (rl:leaky_bucket:<policy>:<client>).                *)
(*                                                                         *)
(* Clock, callers and units are those of TokenBucket; Rate is what leaks   *)
(* in a tick.  The bucket fills with water where the other loses tokens,   *)
(* and the module ends with the mapping under which every behaviour of     *)
(* this limiter is a behaviour of TokenBucket.                             *)
(*                                                                         *)
(* Noise covers the rounding of a leak and of a wait.  The rounding of the *)
(* sum with water_per_request, which may need one bit more than the level  *)
(* has, is left out.                                                       *)
(***************************************************************************)
EXTENDS Integers

CONSTANTS
    Requests,           \* concurrent callers of Evaluate for this key
    capacity,           \* policy parameter, whole water units of the policy
    water_per_request,  \* policy parameter
    Unit,               \* model units in a water unit of the policy
    Rate,               \* units that leak per tick
    Noise,              \* bound on the rounding error of a script, in units
    SecondMs,           \* ticks in a second
    MaxDelay,           \* ticks from reading the clock to the last script run
    MaxRetries,         \* repetitions the Redis client makes of a lost call
    MaxTime             \* bound on the clock

ASSUME LeakyAssumption ==
    /\ capacity \in Nat \ {0}
    /\ water_per_request \in Nat \ {0}
    /\ Unit \in Nat \ {0}
    /\ Rate \in Nat \ {0}
    /\ Noise \in Nat
    /\ SecondMs \in Nat \ {0}
    /\ MaxDelay \in Nat
    /\ MaxRetries \in Nat
    /\ MaxTime \in Nat
    /\ MaxDelay =< SecondMs

VARIABLES
    now,           \* wall clock
    pc,            \* request -> "idle" | "stamped"
    stamp,         \* request -> nowMS it read
    tries,         \* request -> lost replies so far
    water_level,   \* hash field water_level, in units
    last_leak_ms,  \* hash field last_leak_ms
    expireAt,      \* the key exists while now < expireAt
    decision,      \* the last script's decision, if its reply arrived
    \* History of the observed interval, as in TokenBucket:
    base,
    granted,
    regress

key == <<water_level, last_leak_ms, expireAt>>
calls == <<pc, stamp, tries>>
history == <<base, granted, regress>>
vars == <<now, calls, key, decision, history>>

-----------------------------------------------------------------------------
Smaller(a, b) == IF a < b THEN a ELSE b
Larger(a, b) == IF a > b THEN a ELSE b
CeilDiv(a, b) == (a + b - 1) \div b

Capacity == capacity * Unit
Cost == water_per_request * Unit

ttlSec == Larger(2, CeilDiv(Capacity, Rate * SecondMs) + 1)

NoDecision == [kind |-> "none", remaining |-> 0, retry |-> 0]

TypeOK ==
    /\ now \in Nat
    /\ pc \in [Requests -> {"idle", "stamped"}]
    /\ stamp \in [Requests -> Nat]
    /\ tries \in [Requests -> Nat]
    /\ water_level \in 0 .. Capacity
    /\ last_leak_ms \in Int
    /\ expireAt \in Nat
    /\ decision \in [kind : {"none", "allowed", "denied"},
                     remaining : Nat, retry : Nat]
    /\ base \in Int
    /\ granted \in Nat
    /\ regress \in Nat

-----------------------------------------------------------------------------
(***************************************************************************)
(* The script, and the answer Allow makes of it.                           *)
(***************************************************************************)
KeyExists == now < expireAt

Elapsed(s) == Larger(0, s - last_leak_ms)

Roundings == (0 - Noise) .. Noise

\* Mutant of Leaked: a late stamp leaks as much as an early one.
LeakedEitherWay(s, e) ==
    Larger(0, water_level - Rate * Larger(s - last_leak_ms, last_leak_ms - s))

\* What a leak off by e leaves of the stored level.
Leaked(s, e) ==
    IF Elapsed(s) = 0 THEN water_level
    ELSE Larger(0, Smaller(water_level, water_level - Rate * Elapsed(s) + e))

\* The level a script stamped s finds; a missing hash is an empty bucket.
WaterAt(s, e) == IF KeyExists THEN Leaked(s, e) ELSE 0

\* Mutant of Fits: a request may not fill the bucket to the brim.
FitsBelowBrim(water) == water + Cost < Capacity

Fits(water) == water + Cost =< Capacity

RetryAfter(water, e) == Larger(1, CeilDiv(water + Cost - Capacity + e, Rate))

\* Mutant of RemainingHeadroom: computed before the request is poured in.
HeadroomBeforePour(level) ==
    (capacity - (level - Cost) \div Unit) \div water_per_request

\* The water level reaches the gateway truncated to an integer.
RemainingHeadroom(level) == (capacity - level \div Unit) \div water_per_request

Decide(water, e) ==
    IF Fits(water)
    THEN [kind |-> "allowed", retry |-> 0, remaining |-> RemainingHeadroom(water + Cost)]
    ELSE [kind |-> "denied", retry |-> RetryAfter(water, e), remaining |-> 0]

\* A script stamped s has found the given level.
Script(s, water) ==
    /\ water_level' = water + (IF Fits(water) THEN Cost ELSE 0)
    /\ last_leak_ms' = s
    /\ expireAt' = now + ttlSec * SecondMs
    /\ granted' = granted + (IF Fits(water) THEN Cost ELSE 0)
    /\ regress' = regress + Larger(0, last_leak_ms - s)
    /\ UNCHANGED base

-----------------------------------------------------------------------------
Init ==
    /\ now = 0
    /\ pc = [r \in Requests |-> "idle"]
    /\ stamp = [r \in Requests |-> 0]
    /\ tries = [r \in Requests |-> 0]
    /\ water_level = 0
    /\ last_leak_ms = 0 - MaxDelay
    /\ expireAt = 0
    /\ decision = NoDecision
    /\ base = 0 - MaxDelay
    /\ granted = 0
    /\ regress = 0

Tick ==
    /\ now < MaxTime
    /\ \A r \in Requests : pc[r] = "stamped" => now + 1 - stamp[r] =< MaxDelay
    /\ now' = now + 1
    /\ UNCHANGED <<calls, key, decision, history>>

ReadClock(r) ==
    /\ pc[r] = "idle"
    /\ pc' = [pc EXCEPT ![r] = "stamped"]
    /\ stamp' = [stamp EXCEPT ![r] = now]
    /\ UNCHANGED <<now, tries, key, decision, history>>

Return(r) ==
    /\ pc' = [pc EXCEPT ![r] = "idle"]
    /\ stamp' = [stamp EXCEPT ![r] = 0]
    /\ tries' = [tries EXCEPT ![r] = 0]

\* The script runs and its reply reaches the limiter.
Execute(r) ==
    /\ pc[r] = "stamped"
    /\ \E e, f \in Roundings :
        /\ Script(stamp[r], WaterAt(stamp[r], e))
        /\ decision' = Decide(WaterAt(stamp[r], e), f)
    /\ Return(r)
    /\ UNCHANGED now

\* The script runs, its reply is lost and the client sends the call again.
ExecuteLost(r) ==
    /\ pc[r] = "stamped"
    /\ tries[r] < MaxRetries
    /\ \E e \in Roundings : Script(stamp[r], WaterAt(stamp[r], e))
    /\ decision' = NoDecision
    /\ tries' = [tries EXCEPT ![r] = @ + 1]
    /\ UNCHANGED <<now, pc, stamp>>

\* The call fails without (another) run of the script.
Fail(r) ==
    /\ pc[r] = "stamped"
    /\ Return(r)
    /\ UNCHANGED <<now, key, decision, history>>

ObserveFromNow ==
    /\ base' = now - MaxDelay
    /\ granted' = 0
    /\ regress' = 0

Observe == ObserveFromNow /\ UNCHANGED <<now, calls, key, decision>>

\* Activation with reset_runtime_state; a missing hash is an empty bucket.
ScanDelete ==
    /\ water_level' = 0
    /\ last_leak_ms' = now - MaxDelay
    /\ expireAt' = 0
    /\ decision' = NoDecision
    /\ ObserveFromNow
    /\ UNCHANGED <<now, calls>>

Call(r) == ReadClock(r) \/ Execute(r) \/ ExecuteLost(r) \/ Fail(r)

Next ==
    \/ Tick
    \/ \E r \in Requests : Call(r)
    \/ Observe
    \/ ScanDelete

Spec == Init /\ [][Next]_vars

-----------------------------------------------------------------------------
(***************************************************************************)
(* Properties.                                                             *)
(***************************************************************************)

(***************************************************************************)
(* The free space of the bucket is the other limiter's tokens.  Only the   *)
(* remaining budget is computed differently; the mapping shows the one the *)
(* token bucket would answer.                                              *)
(***************************************************************************)
MappedDecision ==
    [decision EXCEPT !.remaining =
        IF decision.kind = "allowed"
        THEN ((Capacity - water_level) \div Unit) \div water_per_request
        ELSE 0]

Bucket == INSTANCE TokenBucket WITH
    tokens_per_request <- water_per_request,
    tokens <- Capacity - water_level,
    last_refill_ms <- last_leak_ms,
    decision <- MappedDecision

\* Every behaviour of the leaky bucket is one of the token bucket: the two
\* limiters admit the same requests under the same parameters, at every
\* order of the scripts, every retry, expiry and reset.
ImplementsTokenBucket == Bucket!Spec

\* Water poured in during an observed interval is bounded by a full bucket,
\* the leak of the time that passed and the leak of every backward move of
\* last_leak_ms by a late script, with one rounding error for each tick.
SustainedLeak ==
    granted - water_level
        =< (Rate + Noise) * (Larger(last_leak_ms, base) - base + regress)

\* How many more requests fit at this instant.
Headroom == (Capacity - water_level) \div Cost

\* The remaining budget of an answer never understates what still fits, and
\* the truncated water level overstates it by at most one request.
RemainingWithinOne ==
    decision.kind = "allowed" =>
        decision.remaining \in Headroom .. Headroom + 1
=============================================================================
