------------------------------ MODULE SlidingLog ------------------------------
(***************************************************************************)
(* The sliding log limiter: SlidingLogLimiter.Allow and its Lua script,    *)
(* for one sorted set (rl:sliding_log:<policy>:<client>) whose members are *)
(* request tokens scored with the caller's clock.                          *)
(*                                                                         *)
(* The clock and the callers are those of TokenBucket.  A token is unique; *)
(* the model numbers the tokens made at the same instant.                  *)
(***************************************************************************)
EXTENDS Integers, FiniteSets

CONSTANTS
    Requests,         \* concurrent callers of Evaluate
    limit,            \* policy parameter
    window_size_sec,  \* policy parameter
    SecondMs,         \* ticks in a second
    MaxDelay,         \* ticks from reading the clock to the last script run
    MaxRetries,       \* repetitions the Redis client makes of a lost call
    MaxTime,          \* bound on the clock
    MaxPerTick        \* bound on the requests that arrive at one instant

ASSUME LogAssumption ==
    /\ limit \in Nat \ {0}
    /\ window_size_sec \in Nat \ {0}
    /\ SecondMs \in Nat \ {0}
    /\ MaxDelay \in Nat
    /\ MaxRetries \in Nat
    /\ MaxTime \in Nat
    /\ MaxPerTick \in Nat

VARIABLES
    now,       \* wall clock
    issued,    \* tokens made at this instant
    pc,        \* request -> "idle" | "stamped"
    stamp,     \* request -> nowMS it read
    token,     \* request -> number of its token among those of its stamp
    tries,     \* request -> lost replies so far
    log,       \* the sorted set: [ts |-> score, token |-> member]
    expireAt,  \* the key exists while now < expireAt
    decision,  \* the last script's decision, if its reply arrived
    admitted   \* history: the entries of all admitted requests

clock == <<now, issued>>
calls == <<pc, stamp, token, tries>>
key == <<log, expireAt>>
vars == <<clock, calls, key, decision, admitted>>

-----------------------------------------------------------------------------
window_ms == window_size_sec * SecondMs
\* Mutant of ttl_sec: the spare second is left out.
ttl_secNoSpare == window_size_sec

ttl_sec == window_size_sec + 1

Entries == [ts : Nat, token : Nat]

NoDecision == [kind |-> "none", remaining |-> 0, retry |-> 0, at |-> 0]

TypeOK ==
    /\ now \in Nat
    /\ issued \in Nat
    /\ pc \in [Requests -> {"idle", "stamped"}]
    /\ stamp \in [Requests -> Nat]
    /\ token \in [Requests -> Nat]
    /\ tries \in [Requests -> Nat]
    /\ log \in SUBSET Entries
    /\ expireAt \in Nat
    /\ decision \in [kind : {"none", "allowed", "denied"},
                     remaining : Nat, retry : Nat, at : Nat]
    /\ admitted \in SUBSET Entries

-----------------------------------------------------------------------------
(***************************************************************************)
(* The script.                                                             *)
(***************************************************************************)
KeyExists == now < expireAt

\* ZREMRANGEBYSCORE -inf .. now_ms - window_ms - 1 leaves the entry that is
\* exactly a window old.
InWindow(e, s) == e.ts >= s - window_ms

Kept(s) == {e \in log : KeyExists /\ InWindow(e, s)}

\* Mutant of Admits: the new request is left out of the comparison.
AdmitsOneMore(s) == Cardinality(Kept(s)) =< limit

Admits(s) == Cardinality(Kept(s)) < limit

Entry(r) == [ts |-> stamp[r], token |-> token[r]]

Oldest(S) == CHOOSE t \in {e.ts : e \in S} : \A e \in S : t =< e.ts

\* Mutant of RetryAfter: the wait for the newest entry instead of the oldest.
RetryAfterNewest(s) ==
    LET newest == CHOOSE t \in {e.ts : e \in Kept(s)} :
                      \A e \in Kept(s) : e.ts =< t
    IN  newest + window_ms - s

\* (earliest + window) - now, at least one tick.
RetryAfter(s) ==
    LET wait == Oldest(Kept(s)) + window_ms - s
    IN  IF wait < 1 THEN 1 ELSE wait

\* Mutant of Decide: the remaining count of before the request was added.
DecideBeforeAdd(s) ==
    IF Admits(s)
    THEN [kind |-> "allowed", at |-> s, retry |-> 0,
          remaining |-> limit - Cardinality(Kept(s))]
    ELSE [kind |-> "denied", at |-> s, retry |-> RetryAfter(s), remaining |-> 0]

\* ZADD of a member that is already there adds nothing, but is counted.
Decide(s) ==
    IF Admits(s)
    THEN [kind |-> "allowed", at |-> s, retry |-> 0,
          remaining |-> limit - (Cardinality(Kept(s)) + 1)]
    ELSE [kind |-> "denied", at |-> s, retry |-> RetryAfter(s), remaining |-> 0]

Script(r) ==
    LET s == stamp[r]
        added == IF Admits(s) THEN {Entry(r)} ELSE {}
    IN  /\ log' = Kept(s) \cup added
        /\ expireAt' = now + ttl_sec * SecondMs
        /\ admitted' = admitted \cup added

-----------------------------------------------------------------------------
Init ==
    /\ now = 0
    /\ issued = 0
    /\ pc = [r \in Requests |-> "idle"]
    /\ stamp = [r \in Requests |-> 0]
    /\ token = [r \in Requests |-> 0]
    /\ tries = [r \in Requests |-> 0]
    /\ log = {}
    /\ expireAt = 0
    /\ decision = NoDecision
    /\ admitted = {}

\* Time passes, but not past the deadline of a call on its way to Redis.
Tick ==
    /\ now < MaxTime
    /\ \A r \in Requests : pc[r] = "stamped" => now + 1 - stamp[r] =< MaxDelay
    /\ now' = now + 1
    /\ issued' = 0
    /\ UNCHANGED <<calls, key, decision, admitted>>

\* Evaluate reads the clock, and Allow makes a token.
ReadClock(r) ==
    /\ pc[r] = "idle"
    /\ issued < MaxPerTick
    /\ issued' = issued + 1
    /\ pc' = [pc EXCEPT ![r] = "stamped"]
    /\ stamp' = [stamp EXCEPT ![r] = now]
    /\ token' = [token EXCEPT ![r] = issued]
    /\ UNCHANGED <<now, tries, key, decision, admitted>>

Return(r) ==
    /\ pc' = [pc EXCEPT ![r] = "idle"]
    /\ stamp' = [stamp EXCEPT ![r] = 0]
    /\ token' = [token EXCEPT ![r] = 0]
    /\ tries' = [tries EXCEPT ![r] = 0]

\* The script runs and its reply reaches the limiter.
Execute(r) ==
    /\ pc[r] = "stamped"
    /\ Script(r)
    /\ decision' = Decide(stamp[r])
    /\ Return(r)
    /\ UNCHANGED clock

\* The script runs, its reply is lost and the client sends the call again
\* with the same token.
ExecuteLost(r) ==
    /\ pc[r] = "stamped"
    /\ tries[r] < MaxRetries
    /\ Script(r)
    /\ decision' = NoDecision
    /\ tries' = [tries EXCEPT ![r] = @ + 1]
    /\ UNCHANGED <<clock, pc, stamp, token>>

\* The call fails without (another) run of the script.
Fail(r) ==
    /\ pc[r] = "stamped"
    /\ Return(r)
    /\ UNCHANGED <<clock, key, decision, admitted>>

\* Activation with reset_runtime_state deletes the log.
ScanDelete ==
    /\ log' = {}
    /\ expireAt' = 0
    /\ decision' = NoDecision
    /\ admitted' = {}
    /\ UNCHANGED <<clock, calls>>

Call(r) == ReadClock(r) \/ Execute(r) \/ ExecuteLost(r) \/ Fail(r)

Next ==
    \/ Tick
    \/ \E r \in Requests : Call(r)
    \/ ScanDelete

Spec == Init /\ [][Next]_vars

-----------------------------------------------------------------------------
(***************************************************************************)
(* Properties.                                                             *)
(***************************************************************************)

\* An admitted request of the last window_ms is in the log, whatever was
\* removed or expired since: late and early stamps, retries and the TTL
\* never make the limiter forget one that it still has to count.
NothingForgotten ==
    \A e \in admitted : e.ts >= now - window_ms => e \in log /\ KeyExists

\* No interval shorter than the window by the longest delay of a call, ends
\* included, holds more than limit admitted requests.  With calls that reach
\* Redis at once the interval is the whole window.
LimitInAnyWindow ==
    \A t \in 0 .. now :
        Cardinality({e \in admitted :
            t =< e.ts /\ e.ts =< t + window_ms - MaxDelay}) =< limit

\* What is left of the log for a request stamped t.
Survivors(t) == {e \in log : InWindow(e, t)}

\* After an answer the limiter would still admit at least as many requests
\* at the same instant as the answer says.
RemainingHonest ==
    decision.kind = "allowed" =>
        Cardinality(log) + decision.remaining =< limit

\* retry_after_ms of a denial is one tick short, never more and never less:
\* at that instant the oldest entry still counts, one tick later it does not.
RetryOneShort ==
    decision.kind = "denied" =>
        LET ready == decision.at + decision.retry
        IN  /\ \/ Cardinality(Survivors(ready)) >= limit
               \/ decision.retry = 1
            /\ Cardinality(Survivors(ready + 1)) < limit

\* The acceptance steps say that a client that has waited the window out is
\* admitted again; the wait that a denial announces is that time.
DocRetryEnough ==
    decision.kind = "denied" =>
        Cardinality(Survivors(decision.at + decision.retry)) < limit
=============================================================================
