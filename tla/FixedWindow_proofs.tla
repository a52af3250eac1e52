-------------------------- MODULE FixedWindow_proofs --------------------------
(***************************************************************************)
(* Proofs about FixedWindow, for every number of callers, every policy and *)
(* every bound on the clock and the counters.                              *)
(***************************************************************************)
EXTENDS FixedWindow, TLAPS

USE WindowAssumption, DelayAssumption

-----------------------------------------------------------------------------
(***************************************************************************)
(* The inductive invariant.                                                *)
(***************************************************************************)

\* A request in progress read the clock at most MaxDelay ago.
StampsRecent ==
    \A r \in Requests :
        pc[r] # "idle" => stamp[r] =< now /\ now =< stamp[r] + MaxDelay

\* A counter with a TTL outlives its window by a second.
TtlBound ==
    \A w \in Windows :
        \/ expireAt[w] = NoTtl
        \/ windowStartMS(w) + windowMS + SecondMs =< expireAt[w]

\* Every admitted request has a number of its own between 1 and limit.
GrantBound ==
    \A w \in Windows : granted[w] =< count[w] /\ granted[w] =< limit

IInv ==
    /\ TypeOK
    /\ StampsRecent
    /\ TtlBound
    /\ GrantBound
    /\ TtlOwned

-----------------------------------------------------------------------------
(***************************************************************************)
(* Windows.                                                                *)
(***************************************************************************)
LEMMA Constants ==
    windowMS \in Nat \ {0} /\ ttlSec * SecondMs = windowMS + SecondMs
BY DEF windowMS, ttlSec

\* A time lies in its window.
LEMMA WindowOfBounds ==
    ASSUME NEW t \in Nat
    PROVE  /\ WindowOf(t) \in Nat
           /\ windowStartMS(WindowOf(t)) =< t
           /\ t < windowStartMS(WindowOf(t)) + windowMS
<1>1. /\ t \div windowMS \in Nat
      /\ windowMS * (t \div windowMS) =< t
      /\ t < windowMS * (t \div windowMS) + windowMS
    BY Constants
<1>2. (t \div windowMS) * windowMS = windowMS * (t \div windowMS)
    BY <1>1, Constants
<1> QED BY <1>1, <1>2 DEF WindowOf, windowStartMS

\* The windows of the clock are those the model keeps a counter for.
LEMMA WindowOfTyped ==
    ASSUME NEW t \in 0 .. MaxTime
    PROVE  WindowOf(t) \in Windows
<1> DEFINE w == WindowOf(t)
           m == WindowOf(MaxTime)
<1>1. /\ w \in Nat /\ windowStartMS(w) =< t
      /\ m \in Nat /\ MaxTime < windowStartMS(m) + windowMS
    BY WindowOfBounds
<1> HIDE DEF w, m
<1>2. w * windowMS < m * windowMS + windowMS
    BY <1>1, Constants DEF windowStartMS
<1>3. CASE w > m
    <2>1. PICK d \in Nat : w = m + 1 + d
        <3>1. w - m - 1 \in Nat /\ w = m + 1 + (w - m - 1)
            BY <1>1, <1>3
        <3> QED BY <3>1
    <2>2. w * windowMS = m * windowMS + windowMS + d * windowMS
        BY <1>1, <2>1, Constants
    <2>3. d * windowMS \in Nat /\ m * windowMS \in Nat
        BY <1>1, <2>1, Constants
    <2> QED BY <1>2, <2>2, <2>3, Constants
<1> QED BY <1>1, <1>3 DEF Windows, w, m

\* A request finds the counter of its window as the last one left it, even
\* when its calls come after the end of the window.
LEMMA CounterKept ==
    ASSUME IInv, NEW r \in Requests, pc[r] # "idle"
    PROVE  /\ WindowOf(stamp[r]) \in Windows
           /\ NextCount(WindowOf(stamp[r])) = count[WindowOf(stamp[r])] + 1
<1> DEFINE w == WindowOf(stamp[r])
<1>1. /\ stamp[r] \in 0 .. MaxTime
      /\ now \in Nat
      /\ now =< stamp[r] + MaxDelay
    BY DEF IInv, TypeOK, StampsRecent
<1>2. w \in Windows
    BY <1>1, WindowOfTyped
<1>3. stamp[r] < windowStartMS(w) + windowMS
    BY <1>1, WindowOfBounds
<1> HIDE DEF w
<1>4. windowStartMS(w) \in Nat
    BY <1>2, Constants, WindowOfBounds DEF Windows, windowStartMS
<1>5. count[w] = 0 \/ KeyExists(w)
    <2>1. count[w] \in Nat /\ expireAt[w] \in Nat
        BY <1>2 DEF IInv, TypeOK
    <2>2. expireAt[w] = NoTtl
              \/ windowStartMS(w) + windowMS + SecondMs =< expireAt[w]
        BY <1>2 DEF IInv, TtlBound
    <2> QED BY <1>1, <1>3, <1>4, <2>1, <2>2, Constants DEF KeyExists
<1>6. NextCount(w) = count[w] + 1
    BY <1>2, <1>5 DEF NextCount, KeyExists, IInv, TypeOK
<1> QED BY <1>2, <1>6 DEF w

-----------------------------------------------------------------------------
(***************************************************************************)
(* The invariant is inductive.                                             *)
(***************************************************************************)
LEMMA InitIInv == Init => IInv
<1> SUFFICES ASSUME Init PROVE IInv
    OBVIOUS
<1> USE DEF Init
<1>1. TypeOK
    BY DEF TypeOK, NoTtl
<1>2. StampsRecent /\ TtlBound /\ GrantBound /\ TtlOwned
    BY DEF StampsRecent, TtlBound, GrantBound, TtlOwned
<1> QED BY <1>1, <1>2 DEF IInv

\* INCR keeps the limit: a granted request gets the next number.
LEMMA IncrementPreserves ==
    ASSUME IInv, NEW r \in Requests, pc[r] # "idle",
           Increment(WindowOf(stamp[r]))
    PROVE  /\ count' \in [Windows -> Nat]
           /\ expireAt' \in [Windows -> Nat]
           /\ TtlBound'
           /\ \A w \in Windows : count'[w] >= count[w]
<1> DEFINE v == WindowOf(stamp[r])
<1>1. v \in Windows /\ NextCount(v) = count[v] + 1
    BY CounterKept
<1> HIDE DEF v
<1>2. /\ count' = [count EXCEPT ![v] = count[v] + 1]
      /\ expireAt' =
             [expireAt EXCEPT ![v] = IF KeyExists(v) THEN expireAt[v] ELSE NoTtl]
    BY <1>1 DEF Increment, v
<1>3. count' \in [Windows -> Nat] /\ expireAt' \in [Windows -> Nat]
    BY <1>1, <1>2 DEF IInv, TypeOK, NoTtl
<1>4. \A w \in Windows : count'[w] >= count[w]
    BY <1>1, <1>2 DEF IInv, TypeOK
<1>5. \A w \in Windows : expireAt'[w] = expireAt[w] \/ expireAt'[w] = NoTtl
    BY <1>1, <1>2 DEF IInv, TypeOK
<1>6. TtlBound'
    BY <1>5 DEF IInv, TtlBound, windowStartMS, windowMS
<1> QED BY <1>3, <1>4, <1>6

LEMMA NextIInv == IInv /\ [Next]_vars => IInv'
<1> SUFFICES ASSUME IInv, [Next]_vars PROVE IInv'
    OBVIOUS
<1> USE DEF IInv
<1>1. CASE Tick
    <2> USE <1>1 DEF Tick, calls, counters, history
    <2>1. TypeOK' /\ StampsRecent'
        BY DEF TypeOK, StampsRecent
    <2>2. TtlBound' /\ GrantBound' /\ TtlOwned'
        BY DEF TtlBound, GrantBound, TtlOwned
    <2> QED BY <2>1, <2>2
<1>2. ASSUME NEW r \in Requests, Call(r)
      PROVE  IInv'
    <2> DEFINE v == WindowOf(stamp[r])
    <2>1. CASE ReadClock(r)
        <3> USE <2>1 DEF ReadClock, counters, history
        <3>1. TypeOK' /\ StampsRecent'
            BY DEF TypeOK, StampsRecent
        <3>2. TtlBound' /\ GrantBound'
            BY DEF TtlBound, GrantBound
        <3>3. TtlOwned'
            BY DEF TtlOwned, TypeOK
        <3> QED BY <3>1, <3>2, <3>3
    <2>2. CASE Incr(r)
        <3>1. /\ v \in Windows
              /\ NextCount(v) = count[v] + 1
              /\ pc[r] = "stamped"
              /\ Increment(v)
            BY <2>2, CounterKept DEF Incr
        <3>2. /\ count' \in [Windows -> Nat]
              /\ expireAt' \in [Windows -> Nat]
              /\ TtlBound'
              /\ \A w \in Windows : count'[w] >= count[w]
            BY <3>1, IncrementPreserves
        <3> HIDE DEF v
        <3>3. /\ count' = [count EXCEPT ![v] = count[v] + 1]
              /\ granted' = [granted EXCEPT ![v] =
                    IF count[v] + 1 =< limit THEN granted[v] + 1 ELSE granted[v]]
              /\ UNCHANGED <<now, orphans>>
            BY <2>2, <3>1 DEF Incr, Increment, WithinLimit, v
        <3>4. \/ /\ count[v] = 0
                 /\ pc' = [pc EXCEPT ![r] = "counted"]
                 /\ UNCHANGED <<stamp, tries>>
              \/ count[v] # 0 /\ Return(r)
            BY <2>2, <3>1 DEF Incr, v, TypeOK
        <3>5. TypeOK' /\ StampsRecent'
            BY <3>1, <3>2, <3>3, <3>4 DEF TypeOK, StampsRecent, Return
        <3>6. GrantBound'
            BY <3>1, <3>2, <3>3 DEF GrantBound, TypeOK
        <3>7. TtlOwned'
            <4> SUFFICES ASSUME NEW w \in Windows, count'[w] > 0,
                                expireAt'[w] = NoTtl, w \notin orphans
                         PROVE  \E q \in Requests :
                                    pc'[q] = "counted" /\ WindowOf(stamp'[q]) = w
                BY <3>3 DEF TtlOwned
            <4>1. CASE w = v /\ count[v] = 0
                BY <3>1, <3>4, <4>1 DEF v, TypeOK
            <4>2. CASE ~ (w = v /\ count[v] = 0)
                <5>1. count[w] > 0 /\ expireAt[w] = NoTtl
                    <6>1. CASE w # v
                        BY <3>1, <3>3, <6>1 DEF Increment, v, TypeOK
                    <6>2. CASE w = v
                        <7>1. count[v] > 0
                            BY <3>1, <4>2, <6>2 DEF TypeOK
                        <7>2. NextCount(v) # 1
                            BY <3>1, <7>1 DEF TypeOK
                        <7>3. KeyExists(v)
                            BY <7>2 DEF NextCount
                        <7>4. expireAt'[v] = expireAt[v]
                            BY <3>1, <7>3 DEF Increment, TypeOK
                        <7> QED BY <6>2, <7>1, <7>4
                    <6> QED BY <6>1, <6>2
                <5>2. PICK q \in Requests :
                          pc[q] = "counted" /\ WindowOf(stamp[q]) = w
                    BY <5>1 DEF TtlOwned
                <5>3. q # r
                    BY <3>1, <5>2
                <5>4. pc'[q] = pc[q] /\ stamp'[q] = stamp[q]
                    BY <3>4, <5>3 DEF Return, TypeOK
                <5> QED BY <5>2, <5>4
            <4> QED BY <4>1, <4>2
        <3> QED BY <3>2, <3>5, <3>6, <3>7
    <2>3. CASE IncrLost(r)
        <3>1. /\ v \in Windows
              /\ NextCount(v) = count[v] + 1
              /\ pc[r] = "stamped"
              /\ Increment(v)
            BY <2>3, CounterKept DEF IncrLost
        <3>2. /\ count' \in [Windows -> Nat]
              /\ expireAt' \in [Windows -> Nat]
              /\ TtlBound'
              /\ \A w \in Windows : count'[w] >= count[w]
            BY <3>1, IncrementPreserves
        <3>3. /\ orphans' = IF count[v] = 0 THEN orphans \cup {v} ELSE orphans
              /\ tries' = [tries EXCEPT ![r] = tries[r] + 1]
              /\ UNCHANGED <<now, pc, stamp, granted>>
            BY <2>3, <3>1 DEF IncrLost, TypeOK
        <3> HIDE DEF v
        <3>4. TypeOK' /\ StampsRecent' /\ GrantBound'
            BY <3>1, <3>2, <3>3 DEF TypeOK, StampsRecent, GrantBound
        <3>5. TtlOwned'
            <4> SUFFICES ASSUME NEW w \in Windows, count'[w] > 0,
                                expireAt'[w] = NoTtl, w \notin orphans'
                         PROVE  \E q \in Requests :
                                    pc[q] = "counted" /\ WindowOf(stamp[q]) = w
                BY <3>3 DEF TtlOwned
            <4>1. w \notin orphans /\ ~ (w = v /\ count[v] = 0)
                BY <3>3
            <4>2. CASE w # v
                BY <3>1, <4>1, <4>2 DEF Increment, TtlOwned, TypeOK
            <4>3. CASE w = v
                <5>1. count[v] > 0
                    BY <3>1, <4>1, <4>3 DEF TypeOK
                <5>2. KeyExists(v)
                    BY <3>1, <5>1 DEF NextCount, TypeOK
                <5>3. expireAt'[v] = expireAt[v]
                    BY <3>1, <5>2 DEF Increment, TypeOK
                <5> QED BY <4>1, <4>3, <5>1, <5>3 DEF TtlOwned
            <4> QED BY <4>2, <4>3
        <3> QED BY <3>2, <3>4, <3>5
    <2>4. CASE Expire(r)
        <3>1. /\ v \in Windows
              /\ NextCount(v) = count[v] + 1
              /\ pc[r] = "counted"
            BY <2>4, CounterKept DEF Expire
        <3>2. /\ expireAt' = [expireAt EXCEPT ![v] =
                    IF KeyExists(v) THEN now + (windowMS + SecondMs)
                                    ELSE expireAt[v]]
              /\ Return(r)
              /\ UNCHANGED <<now, count, granted, orphans>>
            BY <2>4, Constants DEF Expire, history
        <3>3. stamp[r] \in Nat /\ stamp[r] =< now /\ now \in Nat
            BY <3>1 DEF StampsRecent, TypeOK
        <3>4. windowStartMS(v) =< now
            BY <3>3, <3>1, WindowOfBounds, Constants DEF windowStartMS, Windows
        <3>5. \A q \in Requests : q # r => pc'[q] = pc[q] /\ stamp'[q] = stamp[q]
            BY <3>2 DEF Return, TypeOK
        <3>6. count[v] = 0 \/ KeyExists(v)
            BY <3>1 DEF NextCount, TypeOK
        <3>7. WindowOf(stamp[r]) = v
            OBVIOUS
        <3> HIDE DEF v
        <3>8. windowStartMS(v) \in Nat
            BY <3>1, Constants DEF windowStartMS, Windows
        <3>9. TypeOK' /\ StampsRecent' /\ GrantBound'
            BY <3>1, <3>2, Constants
            DEF TypeOK, StampsRecent, GrantBound, Return
        <3>10. TtlBound'
            <4> SUFFICES ASSUME NEW w \in Windows
                         PROVE  \/ expireAt'[w] = NoTtl
                                \/ windowStartMS(w) + windowMS + SecondMs
                                       =< expireAt'[w]
                BY DEF TtlBound, windowStartMS, windowMS
            <4>1. CASE w = v /\ KeyExists(v)
                BY <3>1, <3>2, <3>3, <3>4, <3>8, <4>1, Constants DEF TypeOK
            <4>2. CASE ~ (w = v /\ KeyExists(v))
                BY <3>2, <4>2 DEF TtlBound, TypeOK
            <4> QED BY <4>1, <4>2
        <3>11. TtlOwned'
            <4> SUFFICES ASSUME NEW w \in Windows, count[w] > 0,
                                expireAt'[w] = NoTtl, w \notin orphans
                         PROVE  \E q \in Requests :
                                    pc'[q] = "counted" /\ WindowOf(stamp'[q]) = w
                BY <3>2 DEF TtlOwned
            <4>1. w # v
                BY <3>1, <3>2, <3>3, <3>6, Constants DEF NoTtl, TypeOK
            <4>2. expireAt[w] = NoTtl
                BY <3>2, <4>1 DEF TypeOK
            <4>3. PICK q \in Requests :
                      pc[q] = "counted" /\ WindowOf(stamp[q]) = w
                BY <4>2 DEF TtlOwned
            <4> QED BY <3>5, <3>7, <4>1, <4>3
        <3> QED BY <3>9, <3>10, <3>11
    <2>5. CASE Fail(r)
        <3>1. v \in Windows /\ pc[r] # "idle"
            BY <2>5, CounterKept DEF Fail
        <3>2. /\ orphans' = IF pc[r] = "counted" THEN orphans \cup {v} ELSE orphans
              /\ Return(r)
              /\ UNCHANGED <<now, count, expireAt, granted>>
            BY <2>5 DEF Fail, counters
        <3>3. TypeOK' /\ StampsRecent' /\ GrantBound' /\ TtlBound'
            BY <3>1, <3>2
            DEF TypeOK, StampsRecent, GrantBound, TtlBound, Return
        <3>4. TtlOwned'
            <4> SUFFICES ASSUME NEW w \in Windows, count[w] > 0,
                                expireAt[w] = NoTtl, w \notin orphans'
                         PROVE  \E q \in Requests :
                                    pc'[q] = "counted" /\ WindowOf(stamp'[q]) = w
                BY <3>2 DEF TtlOwned
            <4>1. w \notin orphans
                BY <3>2
            <4>2. PICK q \in Requests :
                      pc[q] = "counted" /\ WindowOf(stamp[q]) = w
                BY <4>1 DEF TtlOwned
            <4>3. q # r
                BY <3>2, <4>2
            <4> QED BY <3>2, <4>2, <4>3 DEF Return, TypeOK
        <3> QED BY <3>3, <3>4
    <2> QED BY <1>2, <2>1, <2>2, <2>3, <2>4, <2>5 DEF Call
<1>3. CASE ScanDelete
    <2> USE <1>3 DEF ScanDelete, calls
    <2>1. TypeOK' /\ StampsRecent'
        BY DEF TypeOK, StampsRecent, NoTtl
    <2>2. TtlBound' /\ GrantBound' /\ TtlOwned'
        BY DEF TtlBound, GrantBound, TtlOwned
    <2> QED BY <2>1, <2>2
<1>4. CASE UNCHANGED vars
    <2> USE <1>4 DEF vars, calls, counters, history
    <2>1. TypeOK' /\ StampsRecent'
        BY DEF TypeOK, StampsRecent
    <2>2. TtlBound' /\ GrantBound' /\ TtlOwned'
        BY DEF TtlBound, GrantBound, TtlOwned
    <2> QED BY <2>1, <2>2
<1> QED BY <1>1, <1>2, <1>3, <1>4 DEF Next

-----------------------------------------------------------------------------
(***************************************************************************)
(* Theorems.                                                               *)
(***************************************************************************)
THEOREM Invariance == Spec => []IInv
BY InitIInv, NextIInv, PTL DEF Spec

\* Every variable keeps its type.
THEOREM TypeCorrect == Spec => []TypeOK
<1>1. IInv => TypeOK
    BY DEF IInv
<1> QED BY <1>1, Invariance, PTL

\* No window admits more than limit requests between two resets, however
\* the calls of its requests interleave, fail, get lost or come late.
THEOREM LimitHolds == Spec => []WindowLimit
<1>1. IInv => WindowLimit
    BY DEF IInv, GrantBound, WindowLimit
<1> QED BY <1>1, Invariance, PTL

\* Only a lost or failed call leaves a counter without a TTL.
THEOREM TtlIsOwned == Spec => []TtlOwned
<1>1. IInv => TtlOwned
    BY DEF IInv
<1> QED BY <1>1, Invariance, PTL
=============================================================================
