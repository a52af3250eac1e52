---------------------- MODULE SlidingWindowCounter_proofs ----------------------
(***************************************************************************)
(* Proofs about SlidingWindowCounter, for every number of callers, every   *)
(* policy and every bound on the clock and the counters.                   *)
(***************************************************************************)
EXTENDS SlidingWindowCounter, TLAPS

USE CounterAssumption, DelayAssumption

-----------------------------------------------------------------------------
(***************************************************************************)
(* The inductive invariant.                                                *)
(***************************************************************************)
windowStartMS(w) == w * windowMS

\* A request in progress read the clock at most MaxDelay ago.
StampsRecent ==
    \A r \in Requests :
        pc[r] = "stamped" => stamp[r] =< now /\ now =< stamp[r] + MaxDelay

\* A counter in use outlives the window after its own by a second.
TtlBound ==
    \A w \in Windows :
        \/ count[w] = 0
        \/ windowStartMS(w) + 2 * windowMS + SecondMs =< expireAt[w]

\* Every script of a window is in its counter.
AllCounted == \A w \in Windows : attempts[w] = count[w]

\* Every admitted request has a number of its own below the limit.
GrantBound ==
    \A w \in Windows : granted[w] =< count[w] /\ granted[w] =< limit - 1

IInv ==
    /\ TypeOK
    /\ StampsRecent
    /\ TtlBound
    /\ AllCounted
    /\ GrantBound
    /\ RemainingWithinOne

-----------------------------------------------------------------------------
(***************************************************************************)
(* Windows.                                                                *)
(***************************************************************************)
LEMMA Constants ==
    /\ windowMS \in Nat \ {0}
    /\ ttlSec * SecondMs = 2 * windowMS + SecondMs
<1>1. windowMS \in Nat \ {0}
    BY DEF windowMS
<1>2. (2 * window_size_sec + 1) * SecondMs
          = 2 * (window_size_sec * SecondMs) + SecondMs
    OBVIOUS
<1> QED BY <1>1, <1>2 DEF windowMS, ttlSec

\* A time lies in its window.
LEMMA WindowOfBounds ==
    ASSUME NEW t \in Nat
    PROVE  /\ WindowOf(t) \in Nat
           /\ windowStartMS(WindowOf(t)) =< t
           /\ t < windowStartMS(WindowOf(t)) + windowMS
<1>1. /\ t \div windowMS \in Nat
      /\ windowMS * (t \div windowMS) =< t
      /\ t < windowMS * (t \div windowMS) + windowMS
    BY Constants
<1>2. (t \div windowMS) * windowMS = windowMS * (t \div windowMS)
    BY <1>1, Constants
<1> QED BY <1>1, <1>2 DEF WindowOf, windowStartMS

\* Windows are ordered as their numbers.
LEMMA WindowsOrdered ==
    ASSUME NEW v \in Nat, NEW w \in Nat, v > w
    PROVE  windowStartMS(v) >= windowStartMS(w) + windowMS
<1>1. PICK d \in Nat : v = w + 1 + d
    <2>1. v - w - 1 \in Nat /\ v = w + 1 + (v - w - 1)
        OBVIOUS
    <2> QED BY <2>1
<1>2. v * windowMS = w * windowMS + windowMS + d * windowMS
    BY <1>1, Constants
<1>3. d * windowMS \in Nat /\ w * windowMS \in Nat
    BY <1>1, Constants
<1> QED BY <1>2, <1>3, Constants DEF windowStartMS

\* The windows of the clock are those the model keeps a counter for.
LEMMA WindowOfTyped ==
    ASSUME NEW t \in 0 .. MaxTime
    PROVE  WindowOf(t) \in Windows
<1> DEFINE w == WindowOf(t)
           m == WindowOf(MaxTime)
<1>1. /\ w \in Nat /\ windowStartMS(w) =< t
      /\ m \in Nat /\ MaxTime < windowStartMS(m) + windowMS
    BY WindowOfBounds
<1> HIDE DEF w, m
<1>2. windowStartMS(w) \in Nat /\ windowStartMS(m) \in Nat
    BY <1>1, Constants DEF windowStartMS
<1>3. ~ (w > m)
    BY <1>1, <1>2, WindowsOrdered, Constants
<1> QED BY <1>1, <1>3 DEF Windows, w, m

LEMMA WindowBefore ==
    ASSUME NEW v \in Windows, v > 0
    PROVE  v - 1 \in Windows /\ v - 1 # v
<1>1. WindowOf(MaxTime) \in Nat
    BY WindowOfBounds
<1> QED BY <1>1 DEF Windows

-----------------------------------------------------------------------------
(***************************************************************************)
(* What a request on its way finds.                                        *)
(***************************************************************************)

\* Counters of the request's window and of the one before have not expired.
LEMMA CountersLive ==
    ASSUME TypeOK, StampsRecent, TtlBound,
           NEW r \in Requests, pc[r] = "stamped",
           NEW w \in Windows, WindowOf(stamp[r]) \in {w, w + 1}
    PROVE  count[w] = 0 \/ KeyExists(w)
<1> DEFINE v == WindowOf(stamp[r])
<1>1. /\ stamp[r] \in Nat /\ now \in Nat
      /\ now =< stamp[r] + MaxDelay
    BY DEF TypeOK, StampsRecent
<1>2. v \in Nat /\ stamp[r] < windowStartMS(v) + windowMS
    BY <1>1, WindowOfBounds
<1>3. v = w \/ v = w + 1
    OBVIOUS
<1> HIDE DEF v
<1>4. w \in Nat /\ windowStartMS(w) \in Nat
    BY <1>2, <1>3, Constants DEF windowStartMS, Windows, WindowOf
<1>5. windowStartMS(v) =< windowStartMS(w) + windowMS
    <2>1. (w + 1) * windowMS = w * windowMS + windowMS
        BY <1>4, Constants
    <2> QED BY <1>3, <1>4, <2>1, Constants DEF windowStartMS
<1>6. now < windowStartMS(w) + 2 * windowMS + SecondMs
    <2>1. windowStartMS(v) \in Nat
        BY <1>2, Constants DEF windowStartMS
    <2> QED BY <1>1, <1>2, <1>4, <1>5, <2>1, Constants
<1>7. expireAt[w] \in Nat
    BY DEF TypeOK
<1>8. \/ count[w] = 0
      \/ windowStartMS(w) + 2 * windowMS + SecondMs =< expireAt[w]
    BY DEF TtlBound
<1> QED BY <1>1, <1>4, <1>6, <1>7, <1>8, Constants DEF KeyExists

\* So the script counts and returns all the attempts.
LEMMA ScriptReads ==
    ASSUME IInv, NEW r \in Requests, pc[r] = "stamped",
           NEW v, v = WindowOf(stamp[r])
    PROVE  /\ v \in Windows
           /\ Current(v) = count[v] + 1
           /\ Previous(v) = IF v > 0 THEN count[v - 1] ELSE 0
           /\ Previous(v) \in Nat
<1>1. v \in Windows /\ v \in Nat
    BY WindowOfTyped, WindowOfBounds DEF IInv, TypeOK
<1>2. Current(v) = count[v] + 1
    BY <1>1, CountersLive DEF Current, IInv, TypeOK
<1>3. CASE v > 0
    <2>1. v - 1 \in Windows /\ v = (v - 1) + 1
        BY <1>1, <1>3, WindowBefore
    <2>2. count[v - 1] = 0 \/ KeyExists(v - 1)
        BY <2>1, CountersLive DEF IInv
    <2>3. count[v - 1] \in Nat
        BY <2>1 DEF IInv, TypeOK
    <2> QED BY <1>1, <1>2, <1>3, <2>2, <2>3 DEF Previous
<1>4. CASE v = 0
    BY <1>1, <1>2, <1>4 DEF Previous
<1> QED BY <1>1, <1>3, <1>4

-----------------------------------------------------------------------------
(***************************************************************************)
(* The limiter's arithmetic.                                               *)
(***************************************************************************)

\* The share of the previous window, and what the division keeps of the rest.
LEMMA EstimateBounds ==
    ASSUME NEW previous \in Nat, NEW s \in Nat
    PROVE  \E share \in Nat :
               \A c \in Nat : Estimate(c, previous, s) = c * windowMS + share
<1> DEFINE left == windowMS - (s % windowMS)
           share == previous * left
<1>1. left \in Nat
    BY Constants
<1> HIDE DEF left
<1>2. share \in Nat
    BY <1>1
<1>3. \A c \in Nat : Estimate(c, previous, s) = c * windowMS + share
    BY DEF Estimate, left
<1> HIDE DEF share
<1> QED BY <1>2, <1>3

\* An admitted request is one of the limit - 1 first.
LEMMA WithinBounds ==
    ASSUME NEW current \in Nat, NEW previous \in Nat, NEW s \in Nat,
           Within(Estimate(current, previous, s))
    PROVE  current =< limit - 1
<1>1. current * windowMS < limit * windowMS
    <2>1. PICK share \in Nat :
              \A c \in Nat : Estimate(c, previous, s) = c * windowMS + share
        BY EstimateBounds
    <2>2. current * windowMS \in Nat /\ limit * windowMS \in Nat
        BY Constants
    <2>3. current * windowMS + share < limit * windowMS
        BY <2>1 DEF Within
    <2> QED BY <2>2, <2>3
<1>2. CASE current >= limit
    <2>1. PICK d \in Nat : current = limit + d
        <3>1. current - limit \in Nat /\ current = limit + (current - limit)
            BY <1>2
        <3> QED BY <3>1
    <2>2. current * windowMS = limit * windowMS + d * windowMS
        BY <2>1, Constants
    <2>3. d * windowMS \in Nat /\ limit * windowMS \in Nat
        BY <2>1, Constants
    <2> QED BY <1>1, <2>2, <2>3
<1> QED BY <1>2

\* The remaining count of an estimate.
LEMMA RemainingBounds ==
    ASSUME NEW current \in Nat, NEW previous \in Nat, NEW s \in Nat,
           Within(Estimate(current, previous, s)),
           NEW n, n = Remaining(Estimate(current, previous, s))
    PROVE  /\ n \in Nat
           /\ n > 1 => Within(Estimate(current + (n - 1), previous, s))
           /\ ~ Within(Estimate(current + (n + 1), previous, s))
<1>1. PICK share \in Nat :
          \A c \in Nat : Estimate(c, previous, s) = c * windowMS + share
    BY EstimateBounds
<1> DEFINE e == current * windowMS + share
           rest == limit * windowMS - e
<1>2. /\ current * windowMS \in Nat
      /\ limit * windowMS \in Nat
      /\ e < limit * windowMS
    BY <1>1, Constants DEF Within
<1>3. rest \in Nat /\ e \in Nat
    BY <1>1, <1>2
<1>4. n = rest \div windowMS
    BY <1>1 DEF Remaining
<1>5. limit * windowMS = e + rest
    BY <1>2, <1>3
<1> HIDE DEF rest
<1>6. /\ n \in Nat
      /\ windowMS * n =< rest
      /\ rest < windowMS * n + windowMS
    BY <1>3, <1>4, Constants
<1>7. (current + (n + 1)) * windowMS
          = current * windowMS + windowMS * n + windowMS
    BY <1>6, Constants
<1>8. ~ Within(Estimate(current + (n + 1), previous, s))
    <2>1. current + (n + 1) \in Nat
        BY <1>6
    <2>2. Estimate(current + (n + 1), previous, s)
              = (current + (n + 1)) * windowMS + share
        BY <1>1, <2>1
    <2>3. windowMS * n \in Nat
        BY <1>6, Constants
    <2> QED BY <1>2, <1>3, <1>5, <1>6, <1>7, <2>2, <2>3, Constants DEF Within
<1>9. ASSUME n > 1
      PROVE  Within(Estimate(current + (n - 1), previous, s))
    <2>1. current + (n - 1) \in Nat
        BY <1>6, <1>9
    <2>2. Estimate(current + (n - 1), previous, s)
              = (current + (n - 1)) * windowMS + share
        BY <1>1, <2>1
    <2>3. (current + (n - 1)) * windowMS
              = current * windowMS + windowMS * n - windowMS
        BY <1>6, Constants
    <2>4. windowMS * n \in Nat
        BY <1>6, Constants
    <2> QED BY <1>2, <1>3, <1>5, <1>6, <2>2, <2>3, <2>4, Constants DEF Within
<1> QED BY <1>6, <1>8, <1>9

-----------------------------------------------------------------------------
(***************************************************************************)
(* The invariant is inductive.                                             *)
(***************************************************************************)
LEMMA InitIInv == Init => IInv
<1> SUFFICES ASSUME Init PROVE IInv
    OBVIOUS
<1> USE DEF Init
<1>1. TypeOK
    BY DEF TypeOK, NoDecision
<1>2. StampsRecent /\ TtlBound /\ AllCounted /\ GrantBound
    BY DEF StampsRecent, TtlBound, AllCounted, GrantBound
<1>3. RemainingWithinOne
    BY DEF RemainingWithinOne, NoDecision
<1> QED BY <1>1, <1>2, <1>3 DEF IInv

\* One more script in a window keeps its counter, its TTL and its attempts.
LEMMA ScriptPreserves ==
    ASSUME IInv, NEW r \in Requests, pc[r] = "stamped", Script(stamp[r]),
           UNCHANGED now, NEW v, v = WindowOf(stamp[r])
    PROVE  /\ v \in Windows
           /\ count' = [count EXCEPT ![v] = count[v] + 1]
           /\ attempts' = [attempts EXCEPT ![v] = attempts[v] + 1]
           /\ count' \in [Windows -> Nat]
           /\ attempts' \in [Windows -> Nat]
           /\ expireAt' \in [Windows -> Nat]
           /\ TtlBound'
           /\ AllCounted'
<1>1. v \in Windows /\ Current(v) = count[v] + 1
    BY ScriptReads
<1>2. /\ count' = [count EXCEPT ![v] = count[v] + 1]
      /\ attempts' = [attempts EXCEPT ![v] = attempts[v] + 1]
      /\ expireAt' = [expireAt EXCEPT ![v] = now + (2 * windowMS + SecondMs)]
    BY <1>1, Constants DEF Script
<1>3. /\ stamp[r] \in Nat /\ now \in Nat
      /\ stamp[r] =< now
    BY DEF IInv, TypeOK, StampsRecent
<1>4. v \in Nat /\ windowStartMS(v) =< now /\ windowStartMS(v) \in Nat
    BY <1>3, WindowOfBounds, Constants DEF windowStartMS
<1>5. /\ count' \in [Windows -> Nat]
      /\ attempts' \in [Windows -> Nat]
      /\ expireAt' \in [Windows -> Nat]
    BY <1>1, <1>2, <1>3, Constants DEF IInv, TypeOK
<1>6. AllCounted'
    BY <1>1, <1>2 DEF IInv, TypeOK, AllCounted
<1>7. TtlBound'
    <2> SUFFICES ASSUME NEW w \in Windows
                 PROVE  \/ count'[w] = 0
                        \/ windowStartMS(w) + 2 * windowMS + SecondMs
                               =< expireAt'[w]
        BY DEF TtlBound, windowStartMS, windowMS
    <2>1. CASE w = v
        BY <1>1, <1>2, <1>3, <1>4, <2>1, Constants DEF IInv, TypeOK
    <2>2. CASE w # v
        BY <1>2, <2>2 DEF IInv, TypeOK, TtlBound
    <2> QED BY <2>1, <2>2
<1> QED BY <1>1, <1>2, <1>5, <1>6, <1>7

LEMMA NextIInv == IInv /\ [Next]_vars => IInv'
<1> SUFFICES ASSUME IInv, [Next]_vars PROVE IInv'
    OBVIOUS
<1> USE DEF IInv
<1>1. CASE Tick
    <2> USE <1>1 DEF Tick, calls, counters, history
    <2>1. TypeOK' /\ StampsRecent'
        BY DEF TypeOK, StampsRecent
    <2>2. TtlBound' /\ AllCounted' /\ GrantBound'
        BY DEF TtlBound, AllCounted, GrantBound
    <2>3. RemainingWithinOne'
        BY DEF RemainingWithinOne, WouldAdmit, Estimate, Within
    <2> QED BY <2>1, <2>2, <2>3
<1>2. ASSUME NEW r \in Requests, Call(r)
      PROVE  IInv'
    <2>1. CASE ReadClock(r)
        <3> USE <2>1 DEF ReadClock, counters, history
        <3>1. TypeOK' /\ StampsRecent'
            BY DEF TypeOK, StampsRecent
        <3>2. TtlBound' /\ AllCounted' /\ GrantBound'
            BY DEF TtlBound, AllCounted, GrantBound
        <3>3. RemainingWithinOne'
            BY DEF RemainingWithinOne, WouldAdmit, Estimate, Within
        <3> QED BY <3>1, <3>2, <3>3
    <2>2. CASE Execute(r)
        <3> DEFINE s == stamp[r]
                   v == WindowOf(s)
        <3>1. pc[r] = "stamped" /\ Script(s) /\ UNCHANGED now /\ s \in 0 .. MaxTime
            BY <2>2 DEF Execute, TypeOK
        <3>2. /\ v \in Windows
              /\ Current(v) = count[v] + 1
              /\ Previous(v) = IF v > 0 THEN count[v - 1] ELSE 0
              /\ Previous(v) \in Nat
            BY <3>1, ScriptReads
        <3>3. /\ count' = [count EXCEPT ![v] = count[v] + 1]
              /\ attempts' = [attempts EXCEPT ![v] = attempts[v] + 1]
              /\ count' \in [Windows -> Nat]
              /\ attempts' \in [Windows -> Nat]
              /\ expireAt' \in [Windows -> Nat]
              /\ TtlBound'
              /\ AllCounted'
            BY <3>1, ScriptPreserves
        <3>4. /\ decision' = Decide(s)
              /\ granted' = [granted EXCEPT ![v] =
                     IF Within(EstimateAt(s)) THEN granted[v] + 1 ELSE granted[v]]
              /\ Return(r)
            BY <2>2 DEF Execute
        <3> DEFINE c == count[v] + 1
                   p == Previous(v)
                   After(n) == Within(Estimate(attempts'[v] + n,
                                   IF v > 0 THEN attempts'[v - 1] ELSE 0, s))
        <3>5. EstimateAt(s) = Estimate(c, p, s) /\ c \in Nat /\ p \in Nat
            BY <3>2 DEF EstimateAt, TypeOK
        <3>6. attempts[v] = count[v]
            BY <3>2 DEF AllCounted
        <3>7. v > 0 => attempts'[v - 1] = count[v - 1]
            <4> SUFFICES ASSUME v > 0 PROVE attempts'[v - 1] = count[v - 1]
                OBVIOUS
            <4>1. v - 1 \in Windows /\ v - 1 # v
                BY <3>2, WindowBefore
            <4>2. attempts'[v - 1] = attempts[v - 1]
                BY <3>3, <4>1 DEF TypeOK
            <4> QED BY <4>1, <4>2 DEF AllCounted
        <3>8. attempts'[v] = c
            BY <3>2, <3>3, <3>6 DEF TypeOK
        <3>9. \A n : After(n) <=> Within(Estimate(c + n, p, s))
            <4>1. v > 0 => p = attempts'[v - 1]
                BY <3>2, <3>7
            <4>2. ~ (v > 0) => p = 0
                BY <3>2
            <4>3. p = IF v > 0 THEN attempts'[v - 1] ELSE 0
                BY <4>1, <4>2
            <4> HIDE DEF c, p
            <4>4. SUFFICES ASSUME NEW n
                           PROVE  After(n) <=> Within(Estimate(c + n, p, s))
                OBVIOUS
            <4> QED BY <3>8, <4>3
        <3> HIDE DEF c, p
        <3>10. decision' \in [kind : {"none", "allowed", "denied"},
                              remaining : Nat, at : 0 .. MaxTime]
            <4>1. Remaining(EstimateAt(s)) \in Nat
                <5>1. CASE Within(EstimateAt(s))
                    BY <3>1, <3>5, <5>1, RemainingBounds
                <5>2. CASE ~ Within(EstimateAt(s))
                    BY <5>2 DEF Remaining
                <5> QED BY <5>1, <5>2
            <4> QED BY <3>1, <3>4, <4>1 DEF Decide
        <3>11. granted' \in [Windows -> Nat] /\ GrantBound'
            <4>1. Within(EstimateAt(s)) => c =< limit - 1
                BY <3>1, <3>5, WithinBounds
            <4>2. granted' \in [Windows -> Nat]
                BY <3>2, <3>4 DEF TypeOK
            <4>3. \A w \in Windows : granted'[w] =< count'[w]
                BY <3>2, <3>3, <3>4 DEF TypeOK, GrantBound
            <4>4. \A w \in Windows : granted'[w] =< limit - 1
                <5> SUFFICES ASSUME NEW w \in Windows
                             PROVE  granted'[w] =< limit - 1
                    OBVIOUS
                <5>1. granted[w] =< count[w] /\ granted[w] =< limit - 1
                    BY DEF GrantBound
                <5>2. granted[w] \in Nat /\ count[w] \in Nat
                    BY DEF TypeOK
                <5>3. CASE w = v /\ Within(EstimateAt(s))
                    BY <3>2, <3>4, <4>1, <5>1, <5>2, <5>3 DEF TypeOK, c
                <5>4. CASE ~ (w = v /\ Within(EstimateAt(s)))
                    BY <3>2, <3>4, <5>1, <5>4 DEF TypeOK
                <5> QED BY <5>3, <5>4
            <4> QED BY <4>2, <4>3, <4>4 DEF GrantBound
        <3>12. TypeOK' /\ StampsRecent'
            BY <3>1, <3>3, <3>4, <3>10, <3>11 DEF TypeOK, StampsRecent, Return
        <3> HIDE DEF After
        <3>13. RemainingWithinOne'
            <4>1. CASE decision'.kind # "allowed"
                BY <4>1 DEF RemainingWithinOne
            <4>2. CASE decision'.kind = "allowed"
                <5> DEFINE n == decision'.remaining
                <5>1. /\ Within(Estimate(c, p, s))
                      /\ decision'.at = s
                      /\ n = Remaining(Estimate(c, p, s))
                    BY <3>4, <3>5, <4>2 DEF Decide
                <5>2. /\ n > 1 => Within(Estimate(c + (n - 1), p, s))
                      /\ ~ Within(Estimate(c + (n + 1), p, s))
                    BY <3>1, <3>5, <5>1, RemainingBounds
                <5>3. (n > 1 => After(n - 1)) /\ ~ After(n + 1)
                    BY <3>9, <5>2
                <5> QED BY <5>1, <5>3
                        DEF RemainingWithinOne, WouldAdmit, After, Within,
                            Estimate, WindowOf, windowMS
            <4> QED BY <4>1, <4>2
        <3> QED BY <3>3, <3>11, <3>12, <3>13
    <2>3. CASE ExecuteLost(r)
        <3> DEFINE v == WindowOf(stamp[r])
        <3>1. /\ pc[r] = "stamped" /\ Script(stamp[r])
              /\ decision' = NoDecision
              /\ tries' = [tries EXCEPT ![r] = tries[r] + 1]
              /\ UNCHANGED <<now, pc, stamp, granted>>
            BY <2>3 DEF ExecuteLost
        <3>2. /\ v \in Windows
              /\ count' = [count EXCEPT ![v] = count[v] + 1]
              /\ count' \in [Windows -> Nat]
              /\ attempts' \in [Windows -> Nat]
              /\ expireAt' \in [Windows -> Nat]
              /\ TtlBound'
              /\ AllCounted'
            BY <3>1, ScriptPreserves
        <3> HIDE DEF v
        <3>3. TypeOK' /\ StampsRecent'
            BY <3>1, <3>2 DEF TypeOK, StampsRecent, NoDecision
        <3>4. GrantBound'
            BY <3>1, <3>2 DEF GrantBound, TypeOK
        <3>5. RemainingWithinOne'
            BY <3>1 DEF RemainingWithinOne, NoDecision
        <3> QED BY <3>2, <3>3, <3>4, <3>5
    <2>4. CASE Fail(r)
        <3> USE <2>4 DEF Fail, Return, counters, history
        <3>1. TypeOK' /\ StampsRecent'
            BY DEF TypeOK, StampsRecent
        <3>2. TtlBound' /\ AllCounted' /\ GrantBound'
            BY DEF TtlBound, AllCounted, GrantBound
        <3>3. RemainingWithinOne'
            BY DEF RemainingWithinOne, WouldAdmit, Estimate, Within
        <3> QED BY <3>1, <3>2, <3>3
    <2> QED BY <1>2, <2>1, <2>2, <2>3, <2>4 DEF Call
<1>3. CASE ScanDelete
    <2> USE <1>3 DEF ScanDelete, calls
    <2>1. TypeOK' /\ StampsRecent'
        BY DEF TypeOK, StampsRecent, NoDecision
    <2>2. TtlBound' /\ AllCounted' /\ GrantBound'
        BY DEF TtlBound, AllCounted, GrantBound
    <2>3. RemainingWithinOne'
        BY DEF RemainingWithinOne, NoDecision
    <2> QED BY <2>1, <2>2, <2>3
<1>4. CASE UNCHANGED vars
    <2> USE <1>4 DEF vars, calls, counters, history
    <2>1. TypeOK' /\ StampsRecent'
        BY DEF TypeOK, StampsRecent
    <2>2. TtlBound' /\ AllCounted' /\ GrantBound'
        BY DEF TtlBound, AllCounted, GrantBound
    <2>3. RemainingWithinOne'
        BY DEF RemainingWithinOne, WouldAdmit, Estimate, Within
    <2> QED BY <2>1, <2>2, <2>3
<1> QED BY <1>1, <1>2, <1>3, <1>4 DEF Next

-----------------------------------------------------------------------------
(***************************************************************************)
(* Theorems.                                                               *)
(***************************************************************************)

\* The invariant of the limiter: every counter that can still be read holds
\* every script of its window.
THEOREM Invariance == Spec => []IInv
BY InitIInv, NextIInv, PTL DEF Spec

\* Every variable keeps its type.
THEOREM TypeCorrect == Spec => []TypeOK
<1>1. IInv => TypeOK
    BY DEF IInv
<1> QED BY <1>1, Invariance, PTL

\* No window admits more than limit - 1 requests between two resets, however
\* late, lost or repeated the calls are: each request counts itself.
THEOREM LimitHolds == Spec => []WindowLimit
<1>1. IInv => WindowLimit
    BY DEF IInv, GrantBound, WindowLimit
<1> QED BY <1>1, Invariance, PTL

\* The counters that judge a request have not expired when its script runs.
THEOREM CountersAreKept == Spec => []CountersKept
<1>1. ASSUME IInv PROVE CountersKept
    <2> SUFFICES ASSUME NEW r \in Requests, NEW w \in Windows,
                        pc[r] = "stamped", WindowOf(stamp[r]) \in {w, w + 1}
                 PROVE  attempts[w] = IF KeyExists(w) THEN count[w] ELSE 0
        BY DEF CountersKept
    <2>1. count[w] = 0 \/ KeyExists(w)
        BY <1>1, CountersLive DEF IInv
    <2> QED BY <1>1, <2>1 DEF IInv, AllCounted
<1> QED BY <1>1, Invariance, PTL

\* The remaining count is the number of further requests of the same instant
\* that are admitted, or one more.
THEOREM RemainingIsWithinOne == Spec => []RemainingWithinOne
<1>1. IInv => RemainingWithinOne
    BY DEF IInv
<1> QED BY <1>1, Invariance, PTL
=============================================================================
