-------------------------- MODULE TokenBucket_proofs --------------------------
(***************************************************************************)
(* Proofs about TokenBucket, for every number of callers, every policy and *)
(* every clock bound.                                                      *)
(***************************************************************************)
EXTENDS TokenBucket, TLAPS

USE BucketAssumption, DelayAssumption

-----------------------------------------------------------------------------
(***************************************************************************)
(* The inductive invariant.                                                *)
(***************************************************************************)

\* A call in flight carries a stamp at most MaxDelay old.
StampsRecent ==
    \A r \in Requests :
        pc[r] = "stamped" => stamp[r] =< now /\ now - MaxDelay =< stamp[r]

\* What is stored was stored by a past script; the interval began in the past.
Past == last_refill_ms =< now /\ base =< now - MaxDelay

\* Nothing is granted before the interval's first script has run.
FirstGrant == last_refill_ms < base => granted = 0

\* A missing hash stands for a full bucket; a stored one outlives its script
\* by ttlSec.
ExpiryBound ==
    IF expireAt = 0
    THEN tokens = Capacity /\ last_refill_ms =< now - MaxDelay
    ELSE last_refill_ms + ttlSec * SecondMs =< expireAt

\* The part of the invariant about what a script writes.
StoreInv ==
    /\ tokens \in 0 .. Capacity
    /\ last_refill_ms \in Int
    /\ expireAt \in Nat
    /\ granted \in Nat
    /\ regress \in Nat
    /\ Past
    /\ FirstGrant
    /\ ExpiryBound
    /\ SustainedRate

\* The last decision was taken on the level that is stored.
LastDecision ==
    /\ decision.kind = "allowed" => decision.remaining = RemainingBudget(tokens)
    /\ decision.kind = "denied" =>
           /\ tokens < Cost
           /\ \E e \in Roundings :
                decision.retry = Larger(1, CeilDiv(Cost - tokens + e, Rate))

IInv ==
    /\ TypeOK
    /\ StampsRecent
    /\ Past
    /\ FirstGrant
    /\ ExpiryBound
    /\ SustainedRate
    /\ LastDecision

-----------------------------------------------------------------------------
(***************************************************************************)
(* Arithmetic.                                                             *)
(***************************************************************************)

\* Multiplying by a natural number preserves an order.
LEMMA MulMono ==
    ASSUME NEW c \in Nat, NEW a \in Int, NEW b \in Int, a =< b
    PROVE  c * a =< c * b
<1>1. PICK d \in Nat : b = a + d
    <2>1. b - a \in Nat /\ b = a + (b - a)
        OBVIOUS
    <2> QED BY <2>1
<1>2. c * b = c * a + c * d
    BY <1>1
<1>3. c * d >= 0
    OBVIOUS
<1> QED BY <1>2, <1>3

\* Rounding a quotient up covers the dividend.
LEMMA CeilDivCovers ==
    ASSUME NEW a \in Int, NEW b \in Nat \ {0}
    PROVE  /\ CeilDiv(a, b) \in Int
           /\ a \in Nat => CeilDiv(a, b) \in Nat
           /\ b * CeilDiv(a, b) >= a
           /\ b * CeilDiv(a, b) < a + b
<1> DEFINE n == a + b - 1
<1>1. n \in Int /\ (a \in Nat => n \in Nat)
    OBVIOUS
<1>2. n = (b * (n \div b)) + (n % b) /\ n % b \in 0 .. (b - 1) /\ n \div b \in Int
    BY <1>1
<1>3. a \in Nat => n \div b \in Nat
    BY <1>1
<1> QED BY <1>2, <1>3 DEF CeilDiv

\* A wait is a number of ticks.
LEMMA WaitIsTyped == ASSUME NEW n \in Int PROVE Larger(1, CeilDiv(n, Rate)) \in Nat
<1> DEFINE wait == CeilDiv(n, Rate)
<1>1. wait \in Int
    BY CeilDivCovers
<1> HIDE DEF wait
<1>2. Larger(1, wait) \in Nat
    BY <1>1 DEF Larger
<1> QED BY <1>2 DEF wait

LEMMA Constants ==
    /\ Capacity \in Nat \ {0}
    /\ Cost \in Nat \ {0}
    /\ ttlSec \in Nat
    /\ Rate * SecondMs \in Nat \ {0}
    /\ FastestRate \in Nat \ {0} /\ Rate =< FastestRate
<1>1. /\ Capacity \in Nat \ {0}
      /\ Cost \in Nat \ {0}
      /\ Rate * SecondMs \in Nat \ {0}
    BY DEF Capacity, Cost
<1>2. CeilDiv(Capacity, Rate * SecondMs) \in Nat
    BY <1>1, CeilDivCovers
<1> QED BY <1>1, <1>2 DEF ttlSec, Larger, FastestRate

\* A bucket refills completely in the time its key is kept, less the longest
\* delay of a call.
LEMMA TtlCovers == Rate * (ttlSec * SecondMs - MaxDelay) >= Capacity
<1> DEFINE c == CeilDiv(Capacity, Rate * SecondMs)
<1>1. c \in Nat /\ (Rate * SecondMs) * c >= Capacity
    BY Constants, CeilDivCovers
<1>2. ttlSec >= c + 1
    BY <1>1 DEF ttlSec, Larger
<1>3. SecondMs * (c + 1) =< SecondMs * ttlSec
    BY <1>1, <1>2, Constants, MulMono
<1>4. SecondMs * c =< ttlSec * SecondMs - MaxDelay
    BY <1>1, <1>3, Constants
<1>5. Rate * (SecondMs * c) =< Rate * (ttlSec * SecondMs - MaxDelay)
    BY <1>1, <1>4, Constants, MulMono
<1>6. Rate * (SecondMs * c) = (Rate * SecondMs) * c
    BY <1>1
<1> QED BY <1>1, <1>5, <1>6, Constants

-----------------------------------------------------------------------------
(***************************************************************************)
(* Deleting an idle key grants nothing, and what that says of a script.    *)
(***************************************************************************)

\* The TTL of a bucket is never shorter than its refill time: the invariant
\* implies that expiry is harmless.
LEMMA ExpiryIsRefill == IInv => ExpiryHarmless
<1> SUFFICES ASSUME IInv, ~ KeyExists
             PROVE  tokens + Rate * (now - MaxDelay - last_refill_ms) >= Capacity
    BY DEF ExpiryHarmless
<1> USE DEF IInv, TypeOK, ExpiryBound, KeyExists
<1> DEFINE idle == now - MaxDelay - last_refill_ms
<1>1. idle \in Int
    OBVIOUS
<1>2. CASE expireAt = 0
    <2>1. idle >= 0
        BY <1>2
    <2>2. Rate * 0 =< Rate * idle
        BY <1>1, <2>1, MulMono
    <2> QED BY <1>1, <1>2, <2>2, Constants
<1>3. CASE expireAt # 0
    <2>1. ttlSec * SecondMs - MaxDelay =< idle
        BY <1>3, Constants
    <2>2. Rate * (ttlSec * SecondMs - MaxDelay) =< Rate * idle
        BY <1>1, <2>1, Constants, MulMono
    <2> QED BY <1>1, <2>2, TtlCovers, Constants
<1> QED BY <1>2, <1>3

\* Whatever a script finds is at most the stored tokens and their refill, with
\* one rounding error for each tick.
LEMMA LevelBounds ==
    ASSUME IInv, NEW s \in Nat, s =< now, now - MaxDelay =< s, NEW r \in Roundings
    PROVE  /\ LevelAt(s, r) \in 0 .. Capacity
           /\ LevelAt(s, r) =< tokens + FastestRate * Elapsed(s)
<1> DEFINE e == Elapsed(s)
<1>1. e \in Nat /\ s - last_refill_ms =< e
    BY DEF IInv, TypeOK, Elapsed, Larger
<1>2. Rate * e \in Nat /\ Noise * e \in Nat /\ FastestRate * e = Rate * e + Noise * e
    BY <1>1 DEF FastestRate
<1>3. tokens \in 0 .. Capacity /\ Capacity \in Nat
    BY Constants DEF IInv, TypeOK
<1>4. CASE KeyExists /\ e = 0
    <2>1. LevelAt(s, r) = tokens
        BY <1>4 DEF LevelAt, Refilled
    <2> QED BY <1>2, <1>3, <2>1
<1>5. CASE KeyExists /\ e # 0
    <2>1. LevelAt(s, r) = Smaller(Capacity, Larger(tokens, tokens + Rate * e + r))
        BY <1>5 DEF LevelAt, Refilled
    <2>2. Noise * 1 =< Noise * e
        BY <1>1, <1>5, MulMono
    <2>3. r \in Int /\ r =< Noise * e
        BY <1>2, <2>2 DEF Roundings
    <2> QED BY <1>2, <1>3, <2>1, <2>3 DEF Smaller, Larger
<1>6. CASE ~ KeyExists
    <2>1. LevelAt(s, r) = Capacity
        BY <1>6 DEF LevelAt
    <2>2. tokens + Rate * (now - MaxDelay - last_refill_ms) >= Capacity
        BY <1>6, ExpiryIsRefill DEF ExpiryHarmless
    <2>3. Rate * (now - MaxDelay - last_refill_ms) =< Rate * e
        BY <1>1, MulMono DEF IInv, TypeOK
    <2> QED BY <1>2, <1>3, <2>1, <2>2, <2>3 DEF IInv, TypeOK
<1> QED BY <1>4, <1>5, <1>6

-----------------------------------------------------------------------------
(***************************************************************************)
(* A script preserves every part of the invariant that it can disturb.     *)
(***************************************************************************)
LEMMA ScriptPreserves ==
    ASSUME IInv, NEW s \in Nat, s =< now, now - MaxDelay =< s, NEW r \in Roundings,
           Script(s, LevelAt(s, r)), now' = now
    PROVE  StoreInv' /\ base' = base
<1> USE DEF IInv, TypeOK
<1> DEFINE level == LevelAt(s, r)
           e == Elapsed(s)
           back == Larger(0, last_refill_ms - s)
<1>1. level \in 0 .. Capacity /\ level =< tokens + FastestRate * e
    BY LevelBounds
<1>2. /\ tokens' \in 0 .. Capacity
      /\ granted' \in Nat
      /\ granted' + tokens' = granted + level
    BY <1>1, Constants DEF Script, Admits
<1>3. /\ last_refill_ms' = s
      /\ expireAt' = now + ttlSec * SecondMs
      /\ base' = base
      /\ regress' = regress + back
    BY DEF Script, StoredRefillTime
<1>4. back \in Nat /\ regress' \in Nat
    BY <1>3 DEF Larger
<1>5. base =< s
    BY DEF Past
<1>6. Past' /\ FirstGrant'
    BY <1>3, <1>5 DEF Past, FirstGrant
<1>7. ttlSec * SecondMs \in Nat
    BY Constants
<1>8. expireAt' \in Nat /\ ExpiryBound'
    <2>1. ttlSec * SecondMs > 0
        <3>1. ttlSec >= 2
            BY Constants, CeilDivCovers DEF ttlSec, Larger
        <3>2. SecondMs * 1 =< SecondMs * ttlSec
            BY <3>1, Constants, MulMono
        <3> QED BY <3>2, Constants
    <2> QED BY <1>3, <1>7, <2>1 DEF ExpiryBound
<1>9. SustainedRate'
    <2> DEFINE passed == s - base + (regress + back)
    <2>1. passed \in Nat
        BY <1>4, <1>5
    <2>2. Larger(last_refill_ms', base') = s
        BY <1>3, <1>5 DEF Larger
    <2>3. SustainedRate' <=> granted' + tokens' =< Capacity + FastestRate * passed
        BY <1>3, <2>2 DEF SustainedRate
    <2>4. FastestRate * passed \in Nat
        BY <2>1, Constants
    <2>5. CASE last_refill_ms < base
        <3>1. granted = 0
            BY <2>5 DEF FirstGrant
        <3> QED BY <1>1, <1>2, <2>3, <2>4, <3>1, Constants
    <2>6. CASE base =< last_refill_ms
        <3> DEFINE before == last_refill_ms - base + regress
        <3>1. before \in Nat /\ passed = e + before
            BY <2>6 DEF Larger, Elapsed
        <3>2. e \in Nat
            BY DEF Larger, Elapsed
        <3>3. FastestRate * passed = FastestRate * e + FastestRate * before
            BY <3>1, <3>2, Constants
        <3>4. granted + tokens =< Capacity + FastestRate * before
            BY <2>6 DEF SustainedRate, Larger
        <3>5. FastestRate * e \in Nat /\ FastestRate * before \in Nat
            BY <3>1, <3>2, Constants
        <3>6. granted + level =< Capacity + FastestRate * passed
            BY <1>1, <3>3, <3>4, <3>5, Constants
        <3> QED BY <1>2, <2>3, <3>6
    <2> QED BY <2>5, <2>6
<1> QED BY <1>2, <1>3, <1>4, <1>6, <1>8, <1>9 DEF StoreInv

\* Truncating to whole tokens and then dividing by the price of a request
\* loses nothing.
LEMMA RemainingOfLevel ==
    ASSUME NEW level \in Nat
    PROVE  /\ RemainingBudget(level) \in Nat
           /\ RemainingBudget(level) * Cost =< level
           /\ level < (RemainingBudget(level) + 1) * Cost
<1> DEFINE whole == level \div Unit
           rest == whole \div tokens_per_request
<1>1. /\ whole \in Nat
      /\ Unit * whole =< level
      /\ level < Unit * (whole + 1)
    OBVIOUS
<1>2. /\ rest \in Nat
      /\ tokens_per_request * rest =< whole
      /\ whole + 1 =< tokens_per_request * (rest + 1)
    BY <1>1
<1> HIDE DEF whole, rest
<1>3. Unit * (tokens_per_request * rest) =< Unit * whole
    BY <1>1, <1>2, MulMono
<1>4. Unit * (whole + 1) =< Unit * (tokens_per_request * (rest + 1))
    BY <1>1, <1>2, MulMono
<1>5. /\ rest * Cost = Unit * (tokens_per_request * rest)
      /\ (rest + 1) * Cost = Unit * (tokens_per_request * (rest + 1))
    BY <1>2 DEF Cost
<1>6. rest * Cost =< level /\ level < (rest + 1) * Cost
    BY <1>1, <1>2, <1>3, <1>4, <1>5
<1> QED BY <1>2, <1>6 DEF RemainingBudget, whole, rest

\* The decision a script returns is about the level it stores.
LEMMA DecisionPreserves ==
    ASSUME IInv, NEW s \in Nat, s =< now, now - MaxDelay =< s,
           NEW e \in Roundings, NEW f \in Roundings,
           Script(s, LevelAt(s, e)), decision' = Decide(LevelAt(s, e), f)
    PROVE  decision' \in Decisions /\ LastDecision'
<1> DEFINE level == LevelAt(s, e)
<1>1. level \in 0 .. Capacity
    BY LevelBounds
<1>2. CASE Admits(level)
    <2>1. /\ tokens' = level - Cost
          /\ tokens' \in Nat
        BY <1>1, <1>2, Constants DEF Script, Admits
    <2>2. decision' = [kind |-> "allowed", retry |-> 0,
                       remaining |-> RemainingBudget(tokens')]
        BY <1>2, <2>1 DEF Decide
    <2>3. RemainingBudget(tokens') \in Nat
        BY <2>1, RemainingOfLevel
    <2> QED BY <2>2, <2>3 DEF Decisions, LastDecision, RemainingBudget
<1>3. CASE ~ Admits(level)
    <2>1. tokens' = level /\ tokens' \in Nat /\ tokens' < Cost
        BY <1>1, <1>3, Constants DEF Script, Admits
    <2>2. decision' = [kind |-> "denied", remaining |-> 0,
                       retry |-> Larger(1, CeilDiv(Cost - tokens' + f, Rate))]
        BY <1>3, <2>1 DEF Decide, RetryAfter
    <2>3. Cost - tokens' + f \in Int
        BY <2>1, Constants DEF Roundings
    <2>4. Larger(1, CeilDiv(Cost - tokens' + f, Rate)) \in Nat
        BY <2>3, WaitIsTyped
    <2>5. Roundings' = Roundings
        BY DEF Roundings
    <2> QED BY <2>1, <2>2, <2>4, <2>5 DEF Decisions, LastDecision
<1> QED BY <1>2, <1>3

-----------------------------------------------------------------------------
(***************************************************************************)
(* The invariant is inductive.                                             *)
(***************************************************************************)
LEMMA InitIInv == Init => IInv
<1> SUFFICES ASSUME Init PROVE IInv
    OBVIOUS
<1> USE DEF Init
<1>1. decision \in Decisions /\ LastDecision
    BY DEF NoDecision, Decisions, LastDecision
<1>2. TypeOK
    BY <1>1, Constants DEF TypeOK
<1>3. StampsRecent /\ Past /\ FirstGrant /\ ExpiryBound
    BY DEF StampsRecent, Past, FirstGrant, ExpiryBound
<1>4. SustainedRate
    BY Constants DEF SustainedRate, Larger
<1> QED BY <1>1, <1>2, <1>3, <1>4 DEF IInv

LEMMA NoDecisionTyped == NoDecision \in Decisions /\ NoDecision.kind = "none"
BY DEF NoDecision, Decisions

LEMMA NextIInv == IInv /\ [Next]_vars => IInv'
<1> SUFFICES ASSUME IInv, [Next]_vars PROVE IInv'
    OBVIOUS
<1> USE DEF IInv
<1>1. CASE Tick
    <2> USE <1>1 DEF Tick, calls, key, history
    <2>1. TypeOK'
        BY DEF TypeOK
    <2>2. StampsRecent'
        BY DEF StampsRecent, TypeOK
    <2>3. Past' /\ FirstGrant' /\ ExpiryBound'
        BY DEF Past, FirstGrant, ExpiryBound, TypeOK
    <2>4. SustainedRate' /\ LastDecision'
        BY DEF SustainedRate, LastDecision, RemainingBudget
    <2> QED BY <2>1, <2>2, <2>3, <2>4
<1>2. ASSUME NEW r \in Requests, Call(r)
      PROVE  IInv'
    <2>1. CASE ReadClock(r)
        <3> USE <2>1 DEF ReadClock, key, history
        <3>1. TypeOK' /\ StampsRecent'
            BY DEF TypeOK, StampsRecent
        <3>2. Past' /\ FirstGrant' /\ ExpiryBound'
            BY DEF Past, FirstGrant, ExpiryBound
        <3>3. SustainedRate' /\ LastDecision'
            BY DEF SustainedRate, LastDecision, RemainingBudget
        <3> QED BY <3>1, <3>2, <3>3
    <2>2. CASE Execute(r)
        <3>1. PICK e \in Roundings, f \in Roundings :
              /\ Script(stamp[r], LevelAt(stamp[r], e))
              /\ now' = now
              /\ decision' = Decide(LevelAt(stamp[r], e), f)
              /\ stamp[r] \in Nat
              /\ stamp[r] =< now
              /\ now - MaxDelay =< stamp[r]
            BY <2>2 DEF Execute, StampsRecent, TypeOK
        <3>2. /\ pc' \in [Requests -> {"idle", "stamped"}]
              /\ stamp' \in [Requests -> Nat]
              /\ tries' \in [Requests -> Nat]
              /\ StampsRecent'
            BY <2>2 DEF Execute, Return, StampsRecent, TypeOK
        <3>3. decision' \in Decisions /\ LastDecision'
            BY <3>1, DecisionPreserves
        <3>4. StoreInv' /\ base' = base
            BY <3>1, ScriptPreserves
        <3>5. TypeOK'
            BY <3>1, <3>2, <3>3, <3>4 DEF StoreInv, TypeOK
        <3> QED BY <3>2, <3>3, <3>4, <3>5 DEF StoreInv
    <2>3. CASE ExecuteLost(r)
        <3>1. PICK e \in Roundings :
              /\ Script(stamp[r], LevelAt(stamp[r], e))
              /\ now' = now
              /\ decision' = NoDecision
              /\ stamp[r] \in Nat
              /\ stamp[r] =< now
              /\ now - MaxDelay =< stamp[r]
            BY <2>3 DEF ExecuteLost, StampsRecent, TypeOK
        <3>2. /\ pc' \in [Requests -> {"idle", "stamped"}]
              /\ stamp' \in [Requests -> Nat]
              /\ tries' \in [Requests -> Nat]
              /\ StampsRecent'
            BY <2>3 DEF ExecuteLost, StampsRecent, TypeOK
        <3>3. decision' \in Decisions /\ LastDecision'
            BY <3>1, NoDecisionTyped DEF LastDecision
        <3>4. StoreInv' /\ base' = base
            BY <3>1, ScriptPreserves
        <3>5. TypeOK'
            BY <3>1, <3>2, <3>3, <3>4 DEF StoreInv, TypeOK
        <3> QED BY <3>2, <3>3, <3>4, <3>5 DEF StoreInv
    <2>4. CASE Fail(r)
        <3> USE <2>4 DEF Fail, Return, key, history
        <3>1. TypeOK' /\ StampsRecent'
            BY DEF TypeOK, StampsRecent
        <3>2. Past' /\ FirstGrant' /\ ExpiryBound'
            BY DEF Past, FirstGrant, ExpiryBound
        <3>3. SustainedRate' /\ LastDecision'
            BY DEF SustainedRate, LastDecision, RemainingBudget
        <3> QED BY <3>1, <3>2, <3>3
    <2> QED BY <1>2, <2>1, <2>2, <2>3, <2>4 DEF Call
<1>3. CASE Observe
    <2> USE <1>3 DEF Observe, ObserveFromNow, calls, key
    <2>1. TypeOK' /\ StampsRecent'
        BY DEF TypeOK, StampsRecent
    <2>2. Past' /\ FirstGrant' /\ ExpiryBound' /\ LastDecision'
        BY DEF Past, FirstGrant, ExpiryBound, LastDecision, RemainingBudget,
               TypeOK
    <2>3. SustainedRate'
        <3> DEFINE passed == Larger(last_refill_ms, now - MaxDelay)
                                 - (now - MaxDelay) + 0
        <3>1. passed \in Nat
            BY DEF Larger, TypeOK
        <3>2. (Rate + Noise) * passed \in Nat
            BY <3>1
        <3> QED BY <3>2, Constants DEF SustainedRate, TypeOK, FastestRate
    <2> QED BY <2>1, <2>2, <2>3
<1>4. CASE ScanDelete
    <2> USE <1>4 DEF ScanDelete, ObserveFromNow, calls
    <2>1. TypeOK' /\ StampsRecent'
        BY NoDecisionTyped, Constants DEF TypeOK, StampsRecent
    <2>2. Past' /\ FirstGrant' /\ ExpiryBound'
        BY DEF Past, FirstGrant, ExpiryBound, TypeOK
    <2>3. LastDecision'
        BY NoDecisionTyped DEF LastDecision
    <2>4. SustainedRate'
        BY Constants DEF SustainedRate, Larger, TypeOK
    <2> QED BY <2>1, <2>2, <2>3, <2>4
<1>5. CASE UNCHANGED vars
    <2> USE <1>5 DEF vars, calls, key, history
    <2>1. TypeOK' /\ StampsRecent' /\ Past'
        BY DEF TypeOK, StampsRecent, Past
    <2>2. FirstGrant' /\ ExpiryBound'
        BY DEF FirstGrant, ExpiryBound
    <2>3. SustainedRate' /\ LastDecision'
        BY DEF SustainedRate, LastDecision, RemainingBudget
    <2> QED BY <2>1, <2>2, <2>3
<1> QED BY <1>1, <1>2, <1>3, <1>4, <1>5 DEF Next

-----------------------------------------------------------------------------
(***************************************************************************)
(* Theorems.                                                               *)
(***************************************************************************)
THEOREM Invariance == Spec => []IInv
BY InitIInv, NextIInv, PTL DEF Spec

\* Every variable keeps its type; in particular the stored tokens stay
\* between an empty and a full bucket.
THEOREM TypeCorrect == Spec => []TypeOK
<1>1. IInv => TypeOK
    BY DEF IInv
<1> QED BY <1>1, Invariance, PTL

\* Over any observed interval, no order of the scripts, no lost reply and no
\* expiry of the key grants more than a full bucket, the refill of the time
\* that passed and the refill of the backward moves of last_refill_ms.
THEOREM RateSustained == Spec => []SustainedRate
<1>1. IInv => SustainedRate
    BY DEF IInv
<1> QED BY <1>1, Invariance, PTL

\* The TTL that Allow computes never deletes a bucket that is not full again.
THEOREM HarmlessExpiry == Spec => []ExpiryHarmless
BY ExpiryIsRefill, Invariance, PTL

\* The remaining budget of an answer is the number of requests still granted.
THEOREM RemainingIsExact == Spec => []RemainingExact
<1>1. IInv => RemainingExact
    <2> SUFFICES ASSUME IInv, decision.kind = "allowed"
                 PROVE  /\ decision.remaining * Cost =< tokens
                        /\ tokens < (decision.remaining + 1) * Cost
        BY DEF RemainingExact
    <2>1. decision.remaining = RemainingBudget(tokens) /\ tokens \in Nat
        BY DEF IInv, LastDecision, TypeOK
    <2> QED BY <2>1, RemainingOfLevel
<1> QED BY <1>1, Invariance, PTL

\* If a request costs at most a full bucket and a tick refills more than the
\* rounding errors of two scripts, the announced wait is right to a tick:
\* whatever the rounding, it is enough a tick later and not two ticks earlier.
THEOREM RetryIsWithinOne ==
    ASSUME Cost =< Capacity, 2 * Noise =< Rate
    PROVE  Spec => []RetryWithinOne
<1>1. IInv => RetryWithinOne
    <2> SUFFICES ASSUME IInv, decision.kind = "denied", NEW e \in Roundings
                 PROVE  /\ Refilled(last_refill_ms + decision.retry + 1, e) >= Cost
                        /\ Refilled(last_refill_ms + decision.retry - 2, e) < Cost
        BY DEF RetryWithinOne
    <2>1. PICK f \in Roundings :
              /\ tokens \in Nat /\ tokens < Cost
              /\ last_refill_ms \in Int
              /\ decision.retry = Larger(1, CeilDiv(Cost - tokens + f, Rate))
        BY DEF IInv, LastDecision, TypeOK
    <2> DEFINE need == Cost - tokens
               wait == CeilDiv(need + f, Rate)
    <2>2. /\ e \in Int /\ f \in Int /\ need \in Nat \ {0}
          /\ 0 - Noise =< e /\ e =< Noise /\ 0 - Noise =< f /\ f =< Noise
        BY <2>1, Constants DEF Roundings
    <2> HIDE DEF need
    <2>3. wait \in Int /\ Rate * wait >= need + f /\ Rate * wait < need + f + Rate
        BY <2>2, CeilDivCovers
    <2>4. decision.retry = Larger(1, wait)
        BY <2>1 DEF need
    <2> HIDE DEF wait
    <2> DEFINE R == decision.retry
    <2>5. R \in Nat /\ R >= 1 /\ R >= wait /\ (R = 1 \/ R = wait)
        BY <2>3, <2>4 DEF Larger
    <2> HIDE DEF R
    <2>6. Refilled(last_refill_ms + R + 1, e) >= Cost
        <3>1. Elapsed(last_refill_ms + R + 1) = R + 1 /\ R + 1 # 0
            BY <2>1, <2>5 DEF Elapsed, Larger
        <3>2. Rate * wait =< Rate * R
            BY <2>3, <2>5, MulMono
        <3>3. Rate * (R + 1) = Rate * R + Rate /\ Rate * R \in Int /\ Rate * wait \in Int
            BY <2>3, <2>5
        <3>4. tokens + Rate * (R + 1) + e >= Cost
            BY <2>1, <2>2, <2>3, <3>2, <3>3, Constants DEF need
        <3>5. Refilled(last_refill_ms + R + 1, e)
                = Smaller(Capacity, Larger(tokens, tokens + Rate * (R + 1) + e))
            BY <3>1 DEF Refilled
        <3> QED BY <2>1, <2>2, <3>3, <3>4, <3>5, Constants DEF Smaller, Larger
    <2>7. Refilled(last_refill_ms + R - 2, e) < Cost
        <3>1. CASE R =< 2
            <4>1. Elapsed(last_refill_ms + R - 2) = 0
                BY <2>1, <2>5, <3>1 DEF Elapsed, Larger
            <4> QED BY <2>1, <4>1 DEF Refilled
        <3>2. CASE R > 2
            <4>1. Elapsed(last_refill_ms + R - 2) = R - 2 /\ R - 2 # 0 /\ R = wait
                BY <2>1, <2>5, <3>2 DEF Elapsed, Larger
            <4>2. Rate * (R - 2) = Rate * wait - 2 * Rate
                  /\ Rate * wait \in Int /\ Rate * (R - 2) \in Int
                BY <2>3, <4>1
            <4>3. tokens + Rate * (R - 2) + e < Cost
                BY <2>1, <2>2, <2>3, <4>2, Constants DEF need
            <4>4. Refilled(last_refill_ms + R - 2, e)
                    = Smaller(Capacity, Larger(tokens, tokens + Rate * (R - 2) + e))
                BY <4>1 DEF Refilled
            <4> QED BY <2>1, <2>2, <4>2, <4>3, <4>4, Constants DEF Smaller, Larger
        <3> QED BY <2>5, <3>1, <3>2
    <2> QED BY <2>6, <2>7 DEF R
<1> QED BY <1>1, Invariance, PTL
=============================================================================
