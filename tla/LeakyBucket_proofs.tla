-------------------------- MODULE LeakyBucket_proofs --------------------------
(***************************************************************************)
(* The leaky bucket implements the token bucket, for every value of the    *)
(* constants.                                                              *)
(***************************************************************************)
EXTENDS LeakyBucket, TLAPS

USE LeakyAssumption

-----------------------------------------------------------------------------
LEMMA Constants ==
    /\ Capacity \in Nat \ {0}
    /\ Cost \in Nat \ {0}
    /\ Bucket!Capacity = Capacity
    /\ Bucket!Cost = Cost
    /\ Bucket!ttlSec = ttlSec
    /\ ttlSec \in Nat
<1>1. /\ Capacity \in Nat \ {0}
      /\ Cost \in Nat \ {0}
      /\ Rate * SecondMs \in Nat \ {0}
    BY DEF Capacity, Cost
<1>2. Bucket!Capacity = Capacity /\ Bucket!Cost = Cost
    BY DEF Capacity, Cost, Bucket!Capacity, Bucket!Cost
<1>3. Bucket!ttlSec = ttlSec
    BY <1>2 DEF ttlSec, Bucket!ttlSec, Larger, Bucket!Larger, CeilDiv,
                Bucket!CeilDiv
<1>4. CeilDiv(Capacity, Rate * SecondMs) \in Int
    BY <1>1 DEF CeilDiv
<1>5. ttlSec \in Nat
    BY <1>4 DEF ttlSec, Larger
<1> QED BY <1>1, <1>2, <1>3, <1>5

-----------------------------------------------------------------------------
(***************************************************************************)
(* One script is one script of the token bucket.                           *)
(***************************************************************************)

\* The water a script finds is the room it leaves in the token bucket; an
\* error that leaves more water leaves fewer tokens.
LEMMA LevelMaps ==
    ASSUME TypeOK, NEW s \in Nat, NEW r \in Roundings
    PROVE  /\ WaterAt(s, r) \in 0 .. Capacity
           /\ 0 - r \in Bucket!Roundings
           /\ Bucket!LevelAt(s, 0 - r) = Capacity - WaterAt(s, r)
<1> DEFINE e == Elapsed(s)
<1>1. e \in Nat /\ Bucket!Elapsed(s) = e
    BY DEF TypeOK, Larger, Bucket!Larger, Elapsed, Bucket!Elapsed
<1>2. Rate * e \in Nat
    BY <1>1
<1>3. r \in Int /\ 0 - r \in Bucket!Roundings
    BY DEF Roundings, Bucket!Roundings
<1>4. CASE KeyExists /\ e = 0
    <2>1. WaterAt(s, r) = water_level
        BY <1>4 DEF WaterAt, Leaked
    <2>2. Bucket!LevelAt(s, 0 - r) = Capacity - water_level
        BY <1>1, <1>4 DEF KeyExists, Bucket!KeyExists, Bucket!LevelAt, Bucket!Refilled
    <2> QED BY <1>3, <2>1, <2>2 DEF TypeOK
<1>5. CASE KeyExists /\ e # 0
    <2>1. WaterAt(s, r)
            = Larger(0, Smaller(water_level, water_level - Rate * e + r))
        BY <1>5 DEF WaterAt, Leaked
    <2>2. Bucket!LevelAt(s, 0 - r)
            = Bucket!Smaller(Capacity,
                Bucket!Larger(Capacity - water_level,
                              Capacity - water_level + Rate * e + (0 - r)))
        BY <1>1, <1>5, Constants DEF KeyExists, Bucket!KeyExists, Bucket!LevelAt,
           Bucket!Refilled
    <2> HIDE DEF e
    <2> QED BY <1>2, <1>3, <2>1, <2>2, Constants
            DEF Larger, Smaller, Bucket!Smaller, Bucket!Larger, TypeOK
<1>6. CASE ~ KeyExists
    BY <1>3, <1>6, Constants
    DEF KeyExists, Bucket!KeyExists, WaterAt, Bucket!LevelAt
<1> QED BY <1>4, <1>5, <1>6

\* A request fits exactly when there are the tokens for it.
LEMMA FitsMaps ==
    ASSUME NEW water \in 0 .. Capacity
    PROVE  /\ Capacity - water \in 0 .. Capacity
           /\ Bucket!Admits(Capacity - water) <=> Fits(water)
BY Constants DEF Fits, Bucket!Admits

LEMMA ScriptMaps ==
    ASSUME TypeOK, NEW s \in Nat, NEW water \in 0 .. Capacity, Script(s, water),
           UNCHANGED now
    PROVE  /\ Bucket!Script(s, Capacity - water)
           /\ water_level' \in 0 .. Capacity
           /\ last_leak_ms' \in Int
           /\ expireAt' \in Nat
           /\ base' \in Int
           /\ granted' \in Nat
           /\ regress' \in Nat
<1>1. /\ Capacity - water \in 0 .. Capacity
      /\ Bucket!Admits(Capacity - water) <=> Fits(water)
    BY FitsMaps
<1>2. /\ last_leak_ms' = s
      /\ expireAt' = now + ttlSec * SecondMs
      /\ granted' = granted + (IF Fits(water) THEN Cost ELSE 0)
      /\ regress' = regress + Larger(0, last_leak_ms - s)
      /\ base' = base
      /\ water_level' = water + (IF Fits(water) THEN Cost ELSE 0)
    BY DEF Script
<1>3. water_level' \in 0 .. Capacity
    BY <1>1, <1>2, Constants DEF Fits
<1>4. Capacity - water_level'
          = (Capacity - water)
              - (IF Bucket!Admits(Capacity - water) THEN Bucket!Cost ELSE 0)
    BY <1>1, <1>2, <1>3, Constants
<1>5. Bucket!Script(s, Capacity - water)
    BY <1>1, <1>2, <1>4, Constants
    DEF Bucket!Script, Bucket!StoredRefillTime, Larger, Bucket!Larger,
        Capacity
<1>6. last_leak_ms' \in Int /\ granted' \in Nat /\ regress' \in Nat
      /\ base' \in Int
    BY <1>2, Constants DEF TypeOK, Larger
<1>7. expireAt' \in Nat
    BY <1>2, Constants DEF TypeOK
<1> QED BY <1>3, <1>5, <1>6, <1>7

\* The answers agree, the remaining budget being mapped.
LEMMA DecideMaps ==
    ASSUME TypeOK, NEW s \in Nat, NEW water \in 0 .. Capacity, Script(s, water),
           NEW f \in Roundings, decision' = Decide(water, f), UNCHANGED now
    PROVE  /\ decision' \in [kind : {"none", "allowed", "denied"},
                             remaining : Nat, retry : Nat]
           /\ MappedDecision' = Bucket!Decide(Capacity - water, f)
<1>1. /\ Capacity - water \in 0 .. Capacity
      /\ Bucket!Admits(Capacity - water) <=> Fits(water)
    BY FitsMaps
<1>2. CASE Fits(water)
    <2> DEFINE level == water + Cost
    <2>1. level \in 0 .. Capacity /\ water_level' = level
        BY <1>1, <1>2, Constants DEF Script, Fits
    <2>2. decision' = [kind |-> "allowed", retry |-> 0,
                       remaining |-> RemainingHeadroom(level)]
        BY <1>2 DEF Decide
    <2> HIDE DEF level
    <2>3. RemainingHeadroom(level) \in Nat
        <3>1. level \div Unit \in 0 .. capacity
            <4>1. /\ level \div Unit \in Nat
                  /\ Unit * (level \div Unit) =< level
                BY <2>1, Constants
            <4>2. CASE level \div Unit >= capacity + 1
                <5> DEFINE d == level \div Unit - (capacity + 1)
                <5>1. d \in Nat /\ level \div Unit = capacity + 1 + d
                    BY <4>1, <4>2
                <5> HIDE DEF d
                <5>2. Unit * (level \div Unit) = Unit * capacity + Unit + Unit * d
                    BY <5>1
                <5>3. Unit * d \in Nat /\ level =< capacity * Unit
                    BY <2>1, <5>1 DEF Capacity
                <5> QED BY <2>1, <4>1, <5>2, <5>3 DEF Capacity
            <4> QED BY <4>1, <4>2
        <3> QED BY <3>1 DEF RemainingHeadroom
    <2>4. MappedDecision' =
              [kind |-> "allowed", retry |-> 0,
               remaining |-> ((Capacity - level) \div Unit)
                                 \div water_per_request]
        BY <2>1, <2>2 DEF MappedDecision, Capacity
    <2>5. (Capacity - water) - Bucket!Cost = Capacity - level
        BY <1>1, Constants DEF level
    <2>6. Bucket!Decide(Capacity - water, f) =
              [kind |-> "allowed", retry |-> 0,
               remaining |-> ((Capacity - level) \div Unit)
                                 \div water_per_request]
        BY <1>1, <1>2, <2>5 DEF Bucket!Decide, Bucket!RemainingBudget
    <2> QED BY <2>2, <2>3, <2>4, <2>6
<1>3. CASE ~ Fits(water)
    <2> DEFINE over == water + Cost - Capacity
    <2>1. over \in Nat \ {0}
        BY <1>1, <1>3, Constants DEF Fits
    <2>2. decision' = [kind |-> "denied", remaining |-> 0,
                       retry |-> Larger(1, CeilDiv(over + f, Rate))]
        BY <1>3 DEF Decide, RetryAfter
    <2>3. Bucket!Cost - (Capacity - water) = over
        BY <1>1, Constants
    <2> HIDE DEF over
    <2>4. Larger(1, CeilDiv(over + f, Rate)) \in Nat
        <3>1. CeilDiv(over + f, Rate) \in Int
            BY <2>1 DEF CeilDiv, Roundings
        <3> QED BY <3>1 DEF Larger
    <2>5. Bucket!Decide(Capacity - water, f) = decision'
        BY <1>1, <1>3, <2>2, <2>3
        DEF Bucket!Decide, Bucket!RetryAfter, Larger, Bucket!Larger, CeilDiv,
            Bucket!CeilDiv
    <2>6. MappedDecision' = decision'
        BY <2>2 DEF MappedDecision
    <2> QED BY <2>2, <2>4, <2>5, <2>6
<1> QED BY <1>2, <1>3

\* A decision that is not touched is mapped to one that is not touched.
LEMMA MappedUnchanged ==
    UNCHANGED <<decision, water_level>> => UNCHANGED MappedDecision
BY DEF MappedDecision, Capacity

\* No answer is mapped to no answer.
LEMMA MappedNone ==
    decision' = NoDecision => MappedDecision' = Bucket!NoDecision
BY DEF NoDecision, Bucket!NoDecision, MappedDecision

-----------------------------------------------------------------------------
(***************************************************************************)
(* Initial states and steps map to initial states and steps.               *)
(***************************************************************************)
LEMMA InitMaps == Init => TypeOK /\ Bucket!Init
<1> SUFFICES ASSUME Init PROVE TypeOK /\ Bucket!Init
    OBVIOUS
<1>1. TypeOK
    BY Constants DEF Init, TypeOK, NoDecision
<1>2. MappedDecision = Bucket!NoDecision
    BY DEF Init, MappedDecision, NoDecision, Bucket!NoDecision
<1> QED BY <1>1, <1>2, Constants DEF Init, Bucket!Init

LEMMA NextMaps ==
    TypeOK /\ [Next]_vars => TypeOK' /\ [Bucket!Next]_(Bucket!vars)
<1> SUFFICES ASSUME TypeOK, [Next]_vars
             PROVE  TypeOK' /\ [Bucket!Next]_(Bucket!vars)
    OBVIOUS
<1> USE DEF Bucket!calls, Bucket!key, Bucket!history, calls, key, history
<1>1. CASE Tick
    <2>1. TypeOK'
        BY <1>1 DEF Tick, TypeOK
    <2>2. Bucket!Tick
        BY <1>1, MappedUnchanged DEF Tick, Bucket!Tick
    <2> QED BY <2>1, <2>2 DEF Bucket!Next
<1>2. ASSUME NEW r \in Requests, Call(r)
      PROVE  TypeOK' /\ Bucket!Call(r)
    <2>1. CASE ReadClock(r)
        <3>1. TypeOK'
            BY <2>1 DEF ReadClock, TypeOK
        <3>2. Bucket!ReadClock(r)
            BY <2>1, MappedUnchanged DEF ReadClock, Bucket!ReadClock
        <3> QED BY <3>1, <3>2 DEF Bucket!Call
    <2>2. CASE Execute(r)
        <3>1. PICK e \in Roundings, f \in Roundings :
                  /\ Script(stamp[r], WaterAt(stamp[r], e)) /\ UNCHANGED now
                  /\ decision' = Decide(WaterAt(stamp[r], e), f)
            BY <2>2 DEF Execute
        <3> DEFINE water == WaterAt(stamp[r], e)
        <3>8. /\ stamp[r] \in Nat /\ water \in 0 .. Capacity
              /\ 0 - e \in Bucket!Roundings /\ f \in Bucket!Roundings
              /\ Bucket!LevelAt(stamp[r], 0 - e) = Capacity - water
            BY LevelMaps DEF TypeOK, Roundings, Bucket!Roundings
        <3> HIDE DEF water
        <3>2. Bucket!Return(r) /\ pc[r] = "stamped"
            BY <2>2 DEF Execute, Return, Bucket!Return
        <3>3. /\ pc' \in [Requests -> {"idle", "stamped"}]
              /\ stamp' \in [Requests -> Nat]
              /\ tries' \in [Requests -> Nat]
            BY <2>2 DEF Execute, Return, TypeOK
        <3>4. /\ decision' \in [kind : {"none", "allowed", "denied"},
                                remaining : Nat, retry : Nat]
              /\ MappedDecision' = Bucket!Decide(Capacity - water, f)
            BY <3>1, <3>8, DecideMaps DEF water
        <3>5. /\ Bucket!Script(stamp[r], Capacity - water)
              /\ water_level' \in 0 .. Capacity
              /\ last_leak_ms' \in Int
              /\ expireAt' \in Nat
              /\ base' \in Int
              /\ granted' \in Nat
              /\ regress' \in Nat
            BY <3>1, <3>8, ScriptMaps DEF water
        <3>6. TypeOK'
            BY <3>1, <3>3, <3>4, <3>5 DEF TypeOK
        <3>7. Bucket!Execute(r)
            BY <3>1, <3>2, <3>4, <3>5, <3>8 DEF Bucket!Execute
        <3> QED BY <3>6, <3>7 DEF Bucket!Call
    <2>3. CASE ExecuteLost(r)
        <3>1. PICK e \in Roundings :
                  /\ Script(stamp[r], WaterAt(stamp[r], e)) /\ UNCHANGED now
                  /\ decision' = NoDecision
            BY <2>3 DEF ExecuteLost
        <3> DEFINE water == WaterAt(stamp[r], e)
        <3>6. /\ stamp[r] \in Nat /\ water \in 0 .. Capacity
              /\ 0 - e \in Bucket!Roundings
              /\ Bucket!LevelAt(stamp[r], 0 - e) = Capacity - water
            BY LevelMaps DEF TypeOK
        <3> HIDE DEF water
        <3>2. /\ pc' \in [Requests -> {"idle", "stamped"}]
              /\ stamp' \in [Requests -> Nat]
              /\ tries' \in [Requests -> Nat]
              /\ decision' \in [kind : {"none", "allowed", "denied"},
                                remaining : Nat, retry : Nat]
            BY <2>3 DEF ExecuteLost, TypeOK, NoDecision
        <3>3. /\ Bucket!Script(stamp[r], Capacity - water)
              /\ water_level' \in 0 .. Capacity
              /\ last_leak_ms' \in Int
              /\ expireAt' \in Nat
              /\ base' \in Int
              /\ granted' \in Nat
              /\ regress' \in Nat
            BY <3>1, <3>6, ScriptMaps DEF water
        <3>4. TypeOK'
            BY <3>1, <3>2, <3>3 DEF TypeOK
        <3>5. Bucket!ExecuteLost(r)
            BY <2>3, <3>1, <3>3, <3>6, MappedNone DEF ExecuteLost, Bucket!ExecuteLost
        <3> QED BY <3>4, <3>5 DEF Bucket!Call
    <2>4. CASE Fail(r)
        <3>1. TypeOK'
            BY <2>4 DEF Fail, Return, TypeOK
        <3>2. Bucket!Fail(r)
            BY <2>4, MappedUnchanged
            DEF Fail, Return, Bucket!Fail, Bucket!Return
        <3> QED BY <3>1, <3>2 DEF Bucket!Call
    <2> QED BY <1>2, <2>1, <2>2, <2>3, <2>4 DEF Call
<1>3. CASE Observe
    <2>1. TypeOK'
        BY <1>3 DEF Observe, ObserveFromNow, TypeOK
    <2>2. Bucket!Observe
        BY <1>3, MappedUnchanged
        DEF Observe, ObserveFromNow, Bucket!Observe, Bucket!ObserveFromNow
    <2> QED BY <2>1, <2>2 DEF Bucket!Next
<1>4. CASE ScanDelete
    <2>1. TypeOK'
        BY <1>4, Constants DEF ScanDelete, ObserveFromNow, TypeOK, NoDecision
    <2>2. Bucket!ScanDelete
        BY <1>4, MappedNone, Constants
        DEF ScanDelete, ObserveFromNow, Bucket!ScanDelete,
            Bucket!ObserveFromNow, Capacity
    <2> QED BY <2>1, <2>2 DEF Bucket!Next
<1>5. CASE UNCHANGED vars
    <2>1. TypeOK'
        BY <1>5 DEF vars, TypeOK
    <2>2. UNCHANGED Bucket!vars
        BY <1>5, MappedUnchanged DEF vars, Bucket!vars
    <2> QED BY <2>1, <2>2
<1> QED BY <1>1, <1>2, <1>3, <1>4, <1>5 DEF Next, Bucket!Next

-----------------------------------------------------------------------------
(***************************************************************************)
(* Theorems.                                                               *)
(***************************************************************************)

\* Every variable keeps its type: the water stays in the bucket.
THEOREM TypeCorrect == Spec => []TypeOK
BY InitMaps, NextMaps, PTL DEF Spec

\* Every behaviour of the leaky bucket limiter, with its late scripts, lost
\* replies, expiry and resets, is a behaviour of the token bucket limiter.
THEOREM Implements == Spec => ImplementsTokenBucket
BY InitMaps, NextMaps, PTL DEF Spec, ImplementsTokenBucket, Bucket!Spec

\* What is proved of the token bucket holds of the mapped state.
BucketProofs == INSTANCE TokenBucket_proofs WITH
    tokens_per_request <- water_per_request,
    tokens <- Capacity - water_level,
    last_refill_ms <- last_leak_ms,
    decision <- MappedDecision

\* Over any observed interval the water poured in is bounded by a full
\* bucket, the leak of the time that passed and that of the backward moves.
THEOREM LeakSustained == Spec => []SustainedLeak
<1>1. BucketProofs!BucketAssumption /\ BucketProofs!DelayAssumption
    BY LeakyAssumption
    DEF BucketProofs!BucketAssumption, BucketProofs!DelayAssumption
<1>2. BucketProofs!Spec => []BucketProofs!SustainedRate
    BY <1>1, BucketProofs!RateSustained
<1>3. Spec => BucketProofs!Spec
    \* The two instances of TokenBucket are the same formulas.
    <2>1. Bucket!Init => BucketProofs!Init
        BY DEF Bucket!Init, BucketProofs!Init, Bucket!Capacity,
               BucketProofs!Capacity, Bucket!NoDecision,
               BucketProofs!NoDecision
    <2>2. [Bucket!Next]_(Bucket!vars) => [BucketProofs!Next]_(BucketProofs!vars)
        BY DEF
       Bucket!Next, BucketProofs!Next, Bucket!Tick, BucketProofs!Tick,
       Bucket!Call, BucketProofs!Call, Bucket!ReadClock,
       BucketProofs!ReadClock, Bucket!Execute, BucketProofs!Execute,
       Bucket!ExecuteLost, BucketProofs!ExecuteLost, Bucket!Fail,
       BucketProofs!Fail, Bucket!Return, BucketProofs!Return,
       Bucket!Observe, BucketProofs!Observe, Bucket!ObserveFromNow,
       BucketProofs!ObserveFromNow, Bucket!ScanDelete,
       BucketProofs!ScanDelete, Bucket!Script, BucketProofs!Script,
       Bucket!StoredRefillTime, BucketProofs!StoredRefillTime,
       Bucket!LevelAt, BucketProofs!LevelAt, Bucket!Refilled,
       BucketProofs!Refilled, Bucket!Elapsed, BucketProofs!Elapsed,
       Bucket!Roundings, BucketProofs!Roundings, Bucket!Admits,
       BucketProofs!Admits, Bucket!KeyExists, BucketProofs!KeyExists,
       Bucket!Smaller, BucketProofs!Smaller, Bucket!Larger,
       BucketProofs!Larger, Bucket!CeilDiv, BucketProofs!CeilDiv,
       Bucket!Capacity, BucketProofs!Capacity, Bucket!Cost,
       BucketProofs!Cost, Bucket!ttlSec, BucketProofs!ttlSec,
       Bucket!NoDecision, BucketProofs!NoDecision, Bucket!Decide,
       BucketProofs!Decide, Bucket!RemainingBudget,
       BucketProofs!RemainingBudget, Bucket!RetryAfter,
       BucketProofs!RetryAfter, Bucket!vars, BucketProofs!vars,
       Bucket!calls, BucketProofs!calls, Bucket!key, BucketProofs!key,
       Bucket!history, BucketProofs!history
    <2>3. Spec => Bucket!Spec
        BY Implements DEF ImplementsTokenBucket
    <2> QED BY <2>1, <2>2, <2>3, PTL DEF Bucket!Spec, BucketProofs!Spec
<1>4. TypeOK /\ BucketProofs!SustainedRate => SustainedLeak
    <2> SUFFICES ASSUME TypeOK, BucketProofs!SustainedRate
                 PROVE  SustainedLeak
        OBVIOUS
    <2> DEFINE passed == Larger(last_leak_ms, base) - base + regress
    <2>1. BucketProofs!Larger(last_leak_ms, base) = Larger(last_leak_ms, base)
        BY DEF Larger, BucketProofs!Larger
    <2>2. BucketProofs!Capacity = Capacity
        BY DEF Capacity, BucketProofs!Capacity
    <2>3. /\ BucketProofs!FastestRate = Rate + Noise
          /\ (Rate + Noise) * passed \in Int
        BY DEF Larger, TypeOK, BucketProofs!FastestRate
    <2> QED BY <2>1, <2>2, <2>3, Constants
            DEF SustainedLeak, BucketProofs!SustainedRate, TypeOK
<1> QED BY <1>2, <1>3, <1>4, TypeCorrect, PTL

-----------------------------------------------------------------------------
(***************************************************************************)
(* The remaining budget, although the water level is truncated.            *)
(***************************************************************************)

\* A quotient is at least k when k divisors fit, and at most k when one more
\* does not.
LEMMA QuotientBounds ==
    ASSUME NEW n \in Int, NEW d \in Nat \ {0}, NEW k \in Int
    PROVE  /\ d * k =< n => k =< n \div d
           /\ n < d * k + d => n \div d =< k
<1> DEFINE q == n \div d
<1>1. /\ q \in Int
      /\ d * q =< n
      /\ n < d * q + d
    OBVIOUS
<1> HIDE DEF q
<1>2. ASSUME NEW a \in Int, NEW b \in Int, a < b
      PROVE  d * a + d =< d * b
    <2>1. PICK e \in Nat : b = a + 1 + e
        <3>1. b - a - 1 \in Nat /\ b = a + 1 + (b - a - 1)
            BY <1>2
        <3> QED BY <3>1
    <2>2. d * b = d * a + d + d * e
        BY <2>1
    <2>3. d * e \in Nat
        OBVIOUS
    <2> QED BY <2>2, <2>3
<1>3. ASSUME d * k =< n PROVE k =< q
    <2>1. ~ (q < k)
        BY <1>1, <1>2, <1>3
    <2> QED BY <1>1, <2>1
<1>4. ASSUME n < d * k + d PROVE q =< k
    <2>1. ~ (k < q)
        BY <1>1, <1>2, <1>4
    <2> QED BY <1>1, <2>1
<1> QED BY <1>3, <1>4 DEF q

\* Truncating the level to whole water units overstates what fits by one
\* request at most.
LEMMA HeadroomWithinOne ==
    ASSUME NEW level \in 0 .. Capacity
    PROVE  LET exact == (Capacity - level) \div Cost
           IN  RemainingHeadroom(level) \in exact .. exact + 1
<1> DEFINE f == level \div Unit
           a == capacity - f
           q == a \div water_per_request
           room == Capacity - level
           exact == room \div Cost
<1>1. level \in Nat /\ f \in Int /\ Unit * f =< level /\ level < Unit * f + Unit
    BY Constants
<1>2. a \in Int
    BY <1>1
<1>3. /\ q \in Int
      /\ water_per_request * q =< a
      /\ a < water_per_request * q + water_per_request
    BY <1>2
<1>4. Unit * a = Capacity - Unit * f
    BY <1>1 DEF Capacity
<1> HIDE DEF f, a, q
<1>5. room \in Int /\ room =< Unit * a /\ Unit * a < room + Unit
    BY <1>1, <1>2, <1>4, Constants
<1>6. Cost * q = Unit * (water_per_request * q)
    BY <1>3 DEF Cost
<1>7. exact =< q
    <2> DEFINE b == water_per_request * q + water_per_request - a
    <2>1. b \in Nat /\ b >= 1
        BY <1>2, <1>3
    <2>2. Unit * a + Unit * b = Unit * (water_per_request * q) + Cost
        BY <1>2, <1>3 DEF Cost
    <2> HIDE DEF b
    <2>3. Unit * b >= 1 /\ Unit * b \in Nat
        BY <2>1
    <2>4. room < Cost * q + Cost
        BY <1>2, <1>3, <1>5, <1>6, <2>2, <2>3, Constants
    <2> QED BY <1>3, <1>5, <2>4, QuotientBounds, Constants
<1>8. q - 1 =< exact
    <2> DEFINE b == a - water_per_request * q
               c == water_per_request - 1
    <2>1. b \in Nat /\ c \in Nat
        BY <1>2, <1>3
    <2>2. Unit * a = Unit * (water_per_request * q) + Unit * b
        BY <1>2, <1>3
    <2>3. Cost = Unit + Unit * c
        BY DEF Cost
    <2>4. Cost * (q - 1) = Cost * q - Cost
        BY <1>3, Constants
    <2> HIDE DEF b, c
    <2>5. Unit * b \in Nat /\ Unit * c \in Nat
        BY <2>1
    <2>6. Cost * (q - 1) =< room
        BY <1>2, <1>3, <1>5, <1>6, <2>2, <2>3, <2>4, <2>5, Constants
    <2> HIDE DEF exact
    <2>7. q - 1 \in Int
        BY <1>3
    <2> QED BY <1>5, <2>6, <2>7, QuotientBounds, Constants DEF exact
<1>9. exact \in Int
    BY <1>5, Constants
<1> QED BY <1>3, <1>7, <1>8, <1>9 DEF RemainingHeadroom, q, a, f

\* The remaining budget of an answer never understates what still fits and
\* overstates it by at most one request.
THEOREM RemainingBudgetWithinOne == Spec => []RemainingWithinOne
<1>1. Init => RemainingWithinOne
    BY DEF Init, RemainingWithinOne, NoDecision
<1>2. TypeOK /\ RemainingWithinOne /\ [Next]_vars => RemainingWithinOne'
    <2> SUFFICES ASSUME TypeOK, RemainingWithinOne, [Next]_vars
                 PROVE  RemainingWithinOne'
        OBVIOUS
    <2>1. CASE UNCHANGED <<decision, water_level>>
        BY <2>1 DEF RemainingWithinOne, Headroom
    <2>2. CASE decision' = NoDecision
        BY <2>2 DEF RemainingWithinOne, NoDecision
    <2>3. ASSUME NEW r \in Requests, Execute(r)
          PROVE  RemainingWithinOne'
        <3>1. PICK e \in Roundings, f \in Roundings :
                  /\ Script(stamp[r], WaterAt(stamp[r], e))
                  /\ decision' = Decide(WaterAt(stamp[r], e), f)
            BY <2>3 DEF Execute
        <3> DEFINE water == WaterAt(stamp[r], e)
                   level == water + Cost
        <3>4. water \in 0 .. Capacity
            BY LevelMaps DEF TypeOK
        <3> HIDE DEF water
        <3>2. CASE Fits(water)
            <4>1. level \in 0 .. Capacity /\ water_level' = level
                BY <3>1, <3>2, <3>4, Constants DEF Script, Fits, water
            <4>2. decision'.remaining = RemainingHeadroom(level)
                BY <3>1, <3>2 DEF Decide, water
            <4> HIDE DEF level
            <4> QED BY <4>1, <4>2, HeadroomWithinOne
                    DEF RemainingWithinOne, Headroom, Capacity, Cost
        <3>3. CASE ~ Fits(water)
            BY <3>1, <3>3 DEF Decide, RemainingWithinOne, water
        <3> QED BY <3>2, <3>3
    <2> QED BY <2>1, <2>2, <2>3
            DEF Next, Tick, Call, ReadClock, ExecuteLost, Fail, Observe, ScanDelete,
                vars, key
<1> QED BY <1>1, <1>2, TypeCorrect, PTL DEF Spec
=============================================================================
