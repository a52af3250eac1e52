----------------------------- MODULE FixedWindow -----------------------------
(***************************************************************************)
(* The fixed window limiter: FixedWindowLimiter.Allow over the Redis       *)
(* counters of one policy and client, one counter per aligned window       *)
(* (rl:fixed_window:<policy>:<client>:<window_start>).                     *)
(*                                                                         *)
(* Unlike the other limiters this one is not a script: INCR and EXPIRE are *)
(* two calls, with other callers, failures and lost replies between them.  *)
(* The clock and the callers are those of TokenBucket.                     *)
(***************************************************************************)
EXTENDS Integers

CONSTANTS
    Requests,         \* concurrent callers of Evaluate
    limit,            \* policy parameter
    window_size_sec,  \* policy parameter
    SecondMs,         \* ticks in a second
    MaxDelay,         \* ticks from reading the clock to the last Redis call
    MaxRetries,       \* repetitions the Redis client makes of a lost call
    MaxTime,          \* bound on the clock
    MaxCount          \* bound on a counter

ASSUME WindowAssumption ==
    /\ limit \in Nat \ {0}
    /\ window_size_sec \in Nat \ {0}
    /\ SecondMs \in Nat \ {0}
    /\ MaxDelay \in Nat
    /\ MaxRetries \in Nat
    /\ MaxTime \in Nat
    /\ MaxCount \in Nat

\* The TTL has one second to spare: the calls of a request end within it.
ASSUME DelayAssumption == MaxDelay =< SecondMs

VARIABLES
    now,       \* wall clock
    pc,        \* request -> "idle" | "stamped" | "counted" (EXPIRE is next)
    stamp,     \* request -> nowMS it read
    tries,     \* request -> lost replies so far
    count,     \* window -> value of its counter, 0 before the first INCR
    expireAt,  \* window -> when its key is deleted, NoTtl for never
    \* History:
    granted,   \* window -> requests the limiter counted within the limit
    orphans    \* windows whose first INCR was not followed by its EXPIRE

counters == <<count, expireAt>>
calls == <<pc, stamp, tries>>
history == <<granted, orphans>>
vars == <<now, calls, counters, history>>

-----------------------------------------------------------------------------
windowMS == window_size_sec * SecondMs

\* A window is named by its number; it starts at windowStartMS(w).
WindowOf(t) == t \div windowMS
windowStartMS(w) == w * windowMS
Windows == 0 .. WindowOf(MaxTime)

NoTtl == 0

\* Mutant of ttlSec: the spare second is left out.
ttlSecNoSpare == window_size_sec

ttlSec == window_size_sec + 1

TypeOK ==
    /\ now \in 0 .. MaxTime
    /\ pc \in [Requests -> {"idle", "stamped", "counted"}]
    /\ stamp \in [Requests -> 0 .. MaxTime]
    /\ tries \in [Requests -> Nat]
    /\ count \in [Windows -> Nat]
    /\ expireAt \in [Windows -> Nat]
    /\ granted \in [Windows -> Nat]
    /\ orphans \in SUBSET Windows

KeyExists(w) == count[w] > 0 /\ (expireAt[w] = NoTtl \/ now < expireAt[w])

-----------------------------------------------------------------------------
Init ==
    /\ now = 0
    /\ pc = [r \in Requests |-> "idle"]
    /\ stamp = [r \in Requests |-> 0]
    /\ tries = [r \in Requests |-> 0]
    /\ count = [w \in Windows |-> 0]
    /\ expireAt = [w \in Windows |-> NoTtl]
    /\ granted = [w \in Windows |-> 0]
    /\ orphans = {}

\* Time passes, but not past the deadline of a request in progress.
Tick ==
    /\ now < MaxTime
    /\ \A r \in Requests : pc[r] # "idle" => now + 1 - stamp[r] =< MaxDelay
    /\ now' = now + 1
    /\ UNCHANGED <<calls, counters, history>>

\* Evaluate reads the clock and calls Allow.
ReadClock(r) ==
    /\ pc[r] = "idle"
    /\ pc' = [pc EXCEPT ![r] = "stamped"]
    /\ stamp' = [stamp EXCEPT ![r] = now]
    /\ UNCHANGED <<now, tries, counters, history>>

Return(r) ==
    /\ pc' = [pc EXCEPT ![r] = "idle"]
    /\ stamp' = [stamp EXCEPT ![r] = 0]
    /\ tries' = [tries EXCEPT ![r] = 0]

\* INCR in Redis: a missing key is created without a TTL.
NextCount(w) == IF KeyExists(w) THEN count[w] + 1 ELSE 1

\* Mutant of Increment: the counter is read and SET, which drops its TTL.
IncrementBySet(w) ==
    /\ count[w] < MaxCount
    /\ count' = [count EXCEPT ![w] = NextCount(w)]
    /\ expireAt' = [expireAt EXCEPT ![w] = NoTtl]

Increment(w) ==
    /\ count[w] < MaxCount
    /\ count' = [count EXCEPT ![w] = NextCount(w)]
    /\ expireAt' = [expireAt EXCEPT ![w] = IF KeyExists(w) THEN @ ELSE NoTtl]

WithinLimit(n) == n =< limit

\* The reply of INCR decides.  Only the first request of a window, always
\* allowed, has another call to make before it answers.
Incr(r) ==
    LET w == WindowOf(stamp[r]) IN
    /\ pc[r] = "stamped"
    /\ Increment(w)
    /\ granted' = [granted EXCEPT ![w] =
                      IF WithinLimit(NextCount(w)) THEN @ + 1 ELSE @]
    /\ IF NextCount(w) = 1
       THEN pc' = [pc EXCEPT ![r] = "counted"] /\ UNCHANGED <<stamp, tries>>
       ELSE Return(r)
    /\ UNCHANGED <<now, orphans>>

\* INCR runs, its reply is lost and the client repeats it: the request is
\* counted twice, and a first INCR is not recognised as the first.
IncrLost(r) ==
    LET w == WindowOf(stamp[r]) IN
    /\ pc[r] = "stamped"
    /\ tries[r] < MaxRetries
    /\ Increment(w)
    /\ tries' = [tries EXCEPT ![r] = @ + 1]
    /\ orphans' = IF NextCount(w) = 1 THEN orphans \cup {w} ELSE orphans
    /\ UNCHANGED <<now, pc, stamp, granted>>

\* EXPIRE sets the TTL of a key that exists, and Allow answers.
Expire(r) ==
    LET w == WindowOf(stamp[r]) IN
    /\ pc[r] = "counted"
    /\ expireAt' = [expireAt EXCEPT ![w] =
                       IF KeyExists(w) THEN now + ttlSec * SecondMs ELSE @]
    /\ Return(r)
    /\ UNCHANGED <<now, count, history>>

\* A call fails, or the gateway stops, before Redis has done it: the caller
\* gets an error, and a counter that was just created keeps no TTL.
Fail(r) ==
    /\ pc[r] # "idle"
    /\ orphans' = IF pc[r] = "counted"
                  THEN orphans \cup {WindowOf(stamp[r])} ELSE orphans
    /\ Return(r)
    /\ UNCHANGED <<now, counters, granted>>

\* Activation with reset_runtime_state deletes the counters.
ScanDelete ==
    /\ count' = [w \in Windows |-> 0]
    /\ expireAt' = [w \in Windows |-> NoTtl]
    /\ granted' = [w \in Windows |-> 0]
    /\ orphans' = {}
    /\ UNCHANGED <<now, calls>>

Call(r) == ReadClock(r) \/ Incr(r) \/ IncrLost(r) \/ Expire(r) \/ Fail(r)

Next ==
    \/ Tick
    \/ \E r \in Requests : Call(r)
    \/ ScanDelete

Spec == Init /\ [][Next]_vars

-----------------------------------------------------------------------------
(***************************************************************************)
(* Properties.                                                             *)
(***************************************************************************)

\* Since the last reset no window admits more than limit requests, although
\* a request may be counted up to MaxDelay after its window has ended: a
\* counter is never deleted and created again while someone can still use it.
WindowLimit == \A w \in Windows : granted[w] =< limit

\* A counter without a TTL has a caller about to set it, unless the EXPIRE
\* of its first request failed or was never sent.
TtlOwned ==
    \A w \in Windows :
        count[w] > 0 /\ expireAt[w] = NoTtl /\ w \notin orphans =>
            \E r \in Requests : pc[r] = "counted" /\ WindowOf(stamp[r]) = w

\* The blueprint gives every counter a TTL of window_size_sec + 1: once no
\* request is in progress, no counter is left without one.
DocCountersExpire ==
    (\A r \in Requests : pc[r] = "idle") =>
        \A w \in Windows : count[w] > 0 => expireAt[w] # NoTtl
=============================================================================
