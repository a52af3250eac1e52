------------------------- MODULE SlidingWindowCounter -------------------------
(***************************************************************************)
(* The sliding window counter limiter: SlidingWindowCounterLimiter.Allow   *)
(* and its Lua script, over the Redis counters of one policy and client,   *)
(* one per aligned window                                                  *)
(* (rl:sliding_window_counter:<policy>:<client>:<window_start>).           *)
(*                                                                         *)
(* The script counts every request, denied ones too, and returns the       *)
(* counts of the request's window and of the one before it; the gateway    *)
(* weighs the second by the part of it that the sliding window covers.     *)
(* The clock and the callers are those of TokenBucket.                     *)
(***************************************************************************)
EXTENDS Integers

CONSTANTS
    Requests,         \* concurrent callers of Evaluate
    limit,            \* policy parameter
    window_size_sec,  \* policy parameter
    SecondMs,         \* ticks in a second
    MaxDelay,         \* ticks from reading the clock to the last script run
    MaxRetries,       \* repetitions the Redis client makes of a lost call
    MaxTime,          \* bound on the clock
    MaxCount          \* bound on a counter

ASSUME CounterAssumption ==
    /\ limit \in Nat \ {0}
    /\ window_size_sec \in Nat \ {0}
    /\ SecondMs \in Nat \ {0}
    /\ MaxDelay \in Nat
    /\ MaxRetries \in Nat
    /\ MaxTime \in Nat
    /\ MaxCount \in Nat

\* The TTL has one second to spare: a call to Redis ends within it.
ASSUME DelayAssumption == MaxDelay =< SecondMs

VARIABLES
    now,       \* wall clock
    pc,        \* request -> "idle" | "stamped"
    stamp,     \* request -> nowMS it read
    tries,     \* request -> lost replies so far
    count,     \* window -> its counter
    expireAt,  \* window -> the key exists while now < expireAt
    decision,  \* the last decision, if the script's reply arrived
    \* History since the last reset:
    attempts,  \* window -> scripts run for a stamp of that window
    granted    \* window -> requests admitted

counters == <<count, expireAt>>
calls == <<pc, stamp, tries>>
history == <<attempts, granted>>
vars == <<now, calls, counters, decision, history>>

-----------------------------------------------------------------------------
windowMS == window_size_sec * SecondMs
\* Mutant of ttlSec: the TTL of a fixed window, which is never read again.
ttlSecOneWindow == window_size_sec + 1

ttlSec == 2 * window_size_sec + 1

WindowOf(t) == t \div windowMS
Windows == 0 .. WindowOf(MaxTime)

NoDecision == [kind |-> "none", remaining |-> 0, at |-> 0]

TypeOK ==
    /\ now \in 0 .. MaxTime
    /\ pc \in [Requests -> {"idle", "stamped"}]
    /\ stamp \in [Requests -> 0 .. MaxTime]
    /\ tries \in [Requests -> Nat]
    /\ count \in [Windows -> Nat]
    /\ expireAt \in [Windows -> Nat]
    /\ decision \in [kind : {"none", "allowed", "denied"},
                     remaining : Nat, at : 0 .. MaxTime]
    /\ attempts \in [Windows -> Nat]
    /\ granted \in [Windows -> Nat]

-----------------------------------------------------------------------------
(***************************************************************************)
(* The script: INCR, EXPIRE, GET.                                          *)
(***************************************************************************)
KeyExists(w) == now < expireAt[w]

Current(w) == (IF KeyExists(w) THEN count[w] ELSE 0) + 1

\* Nothing was ever counted before window 0.
Previous(w) == IF w > 0 /\ KeyExists(w - 1) THEN count[w - 1] ELSE 0

(***************************************************************************)
(* The limiter's arithmetic, in units of 1/windowMS of a request: the      *)
(* previous window weighs what is left of the current one.                 *)
(***************************************************************************)
Estimate(current, previous, s) ==
    current * windowMS + previous * (windowMS - (s % windowMS))

\* Mutant of Within: an estimate that reaches the limit is admitted.
WithinOrAt(estimate) == estimate =< limit * windowMS

Within(estimate) == estimate < limit * windowMS

\* Mutant of Remaining: as if the estimate did not count the request itself.
RemainingOneMore(estimate) ==
    IF Within(estimate)
    THEN (limit * windowMS - estimate) \div windowMS + 1
    ELSE 0

\* math.floor of limit - estimate, at least 0.
Remaining(estimate) ==
    IF Within(estimate) THEN (limit * windowMS - estimate) \div windowMS ELSE 0

EstimateAt(s) ==
    Estimate(Current(WindowOf(s)), Previous(WindowOf(s)), s)

Decide(s) ==
    [kind |-> IF Within(EstimateAt(s)) THEN "allowed" ELSE "denied", at |-> s,
     remaining |-> Remaining(EstimateAt(s))]

Script(s) ==
    LET w == WindowOf(s) IN
    /\ count[w] < MaxCount
    /\ count' = [count EXCEPT ![w] = Current(w)]
    /\ expireAt' = [expireAt EXCEPT ![w] = now + ttlSec * SecondMs]
    /\ attempts' = [attempts EXCEPT ![w] = @ + 1]

-----------------------------------------------------------------------------
Init ==
    /\ now = 0
    /\ pc = [r \in Requests |-> "idle"]
    /\ stamp = [r \in Requests |-> 0]
    /\ tries = [r \in Requests |-> 0]
    /\ count = [w \in Windows |-> 0]
    /\ expireAt = [w \in Windows |-> 0]
    /\ decision = NoDecision
    /\ attempts = [w \in Windows |-> 0]
    /\ granted = [w \in Windows |-> 0]

\* Time passes, but not past the deadline of a call on its way to Redis.
Tick ==
    /\ now < MaxTime
    /\ \A r \in Requests : pc[r] = "stamped" => now + 1 - stamp[r] =< MaxDelay
    /\ now' = now + 1
    /\ UNCHANGED <<calls, counters, decision, history>>

ReadClock(r) ==
    /\ pc[r] = "idle"
    /\ pc' = [pc EXCEPT ![r] = "stamped"]
    /\ stamp' = [stamp EXCEPT ![r] = now]
    /\ UNCHANGED <<now, tries, counters, decision, history>>

Return(r) ==
    /\ pc' = [pc EXCEPT ![r] = "idle"]
    /\ stamp' = [stamp EXCEPT ![r] = 0]
    /\ tries' = [tries EXCEPT ![r] = 0]

\* The script runs and its reply reaches the limiter, which decides.
Execute(r) ==
    /\ pc[r] = "stamped"
    /\ Script(stamp[r])
    /\ decision' = Decide(stamp[r])
    /\ granted' = [granted EXCEPT ![WindowOf(stamp[r])] =
                      IF Within(EstimateAt(stamp[r])) THEN @ + 1 ELSE @]
    /\ Return(r)
    /\ UNCHANGED now

\* The script runs, its reply is lost and the client sends the call again:
\* the request is counted twice.
ExecuteLost(r) ==
    /\ pc[r] = "stamped"
    /\ tries[r] < MaxRetries
    /\ Script(stamp[r])
    /\ decision' = NoDecision
    /\ tries' = [tries EXCEPT ![r] = @ + 1]
    /\ UNCHANGED <<now, pc, stamp, granted>>

\* The call fails without (another) run of the script.
Fail(r) ==
    /\ pc[r] = "stamped"
    /\ Return(r)
    /\ UNCHANGED <<now, counters, decision, history>>

\* Activation with reset_runtime_state deletes the counters.
ScanDelete ==
    /\ count' = [w \in Windows |-> 0]
    /\ expireAt' = [w \in Windows |-> 0]
    /\ attempts' = [w \in Windows |-> 0]
    /\ granted' = [w \in Windows |-> 0]
    /\ decision' = NoDecision
    /\ UNCHANGED <<now, calls>>

Call(r) == ReadClock(r) \/ Execute(r) \/ ExecuteLost(r) \/ Fail(r)

Next ==
    \/ Tick
    \/ \E r \in Requests : Call(r)
    \/ ScanDelete

Spec == Init /\ [][Next]_vars

-----------------------------------------------------------------------------
(***************************************************************************)
(* Properties.                                                             *)
(***************************************************************************)

\* Since every request counts itself and must stay below the limit, a window
\* admits at most limit - 1 requests, late ones included.
WindowLimit == \A w \in Windows : granted[w] =< limit - 1

\* Both windows that a request may still be judged by have all their
\* attempts: no counter expires while a call on its way can read it.
CountersKept ==
    \A r \in Requests, w \in Windows :
        pc[r] = "stamped" /\ WindowOf(stamp[r]) \in {w, w + 1} =>
            attempts[w] = IF KeyExists(w) THEN count[w] ELSE 0

\* The decision on the more-th further request of the instant s.
WouldAdmit(s, more) ==
    LET w == WindowOf(s)
    IN  Within(Estimate(attempts[w] + more,
                        IF w > 0 THEN attempts[w - 1] ELSE 0, s))

\* The remaining count of an answer never understates how many more requests
\* of that instant the window admits, and overstates it by at most one: the
\* next request counts itself before it is compared with the limit.
RemainingWithinOne ==
    decision.kind = "allowed" =>
        LET n == decision.remaining
        IN  /\ n > 1 => WouldAdmit(decision.at, n - 1)
            /\ ~ WouldAdmit(decision.at, n + 1)
=============================================================================
