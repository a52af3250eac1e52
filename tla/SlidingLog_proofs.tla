---------------------------- MODULE SlidingLog_proofs ----------------------------
(***************************************************************************)
(* Proofs about SlidingLog, for every number of callers, every limit and   *)
(* window, and every delay of a call: nothing here needs calls to be fast. *)
(***************************************************************************)
EXTENDS SlidingLog, FiniteSetTheorems, WellFoundedInduction, TLAPS

USE LogAssumption

-----------------------------------------------------------------------------
(***************************************************************************)
(* The inductive invariant.                                                *)
(***************************************************************************)

\* A request in progress read the clock at most MaxDelay ago.
StampsRecent ==
    \A r \in Requests :
        pc[r] = "stamped" => stamp[r] =< now /\ now =< stamp[r] + MaxDelay

\* The log never holds more than limit entries.
LogBounded == IsFiniteSet(log) /\ Cardinality(log) =< limit

\* Admitted entries are of the past, those of the last window are in the log,
\* and the key outlives them all.
AdmittedKept ==
    \A e \in admitted :
        /\ e.ts =< now
        /\ e.ts >= now - window_ms => e \in log
        /\ e.ts + window_ms + SecondMs =< expireAt

Interval(t) ==
    {e \in admitted : t =< e.ts /\ e.ts =< t + window_ms - MaxDelay}

IInv ==
    /\ TypeOK
    /\ StampsRecent
    /\ LogBounded
    /\ AdmittedKept
    /\ LimitInAnyWindow
    /\ RemainingHonest
    /\ RetryOneShort

-----------------------------------------------------------------------------
(***************************************************************************)
(* Facts about the script.                                                 *)
(***************************************************************************)
LEMMA Constants ==
    /\ window_ms \in Nat \ {0}
    /\ ttl_sec * SecondMs = window_ms + SecondMs
BY DEF window_ms, ttl_sec

\* A nonempty set of natural numbers has a least element.
LEMMA Least ==
    ASSUME NEW S, S \subseteq Nat, S # {}
    PROVE  \E t \in S : \A u \in S : t =< u
<1> DEFINE R == {p \in Nat \X Nat : p[1] < p[2]}
<1>1. IsWellFoundedOn(R, Nat)
    BY NatLessThanWellFounded DEF OpToRel
<1>2. \A a, b \in Nat : a < b => <<a, b>> \in R
    OBVIOUS
<1> HIDE DEF R
<1>3. \E t \in S : \A u \in S : ~ (<<u, t>> \in R)
    BY <1>1, WFMin
<1>4. \A a, b \in Nat : ~ (<<a, b>> \in R) => b =< a
    BY <1>2
<1> QED BY <1>3, <1>4

LEMMA OldestIsLeast ==
    ASSUME NEW S \in SUBSET Entries, S # {}
    PROVE  /\ Oldest(S) \in Nat
           /\ \E e \in S : e.ts = Oldest(S)
           /\ \A e \in S : Oldest(S) =< e.ts
<1> DEFINE T == {e.ts : e \in S}
<1>1. T \subseteq Nat /\ T # {}
    BY DEF Entries
<1>2. \E t \in T : \A u \in T : t =< u
    BY <1>1, Least
<1>3. \E t \in T : \A e \in S : t =< e.ts
    BY <1>2
<1>4. Oldest(S) \in T /\ \A e \in S : Oldest(S) =< e.ts
    BY <1>3 DEF Oldest
<1> QED BY <1>1, <1>4

LEMMA PlusOne ==
    ASSUME NEW S, IsFiniteSet(S), NEW x
    PROVE  /\ IsFiniteSet(S \cup {x})
           /\ Cardinality(S \cup {x}) \in Nat
           /\ Cardinality(S \cup {x}) =< Cardinality(S) + 1
<1>1. Cardinality(S) \in Nat
    BY FS_CardinalityType
<1>2. IsFiniteSet(S \cup {x})
    BY FS_AddElement
<1>3. Cardinality(S \cup {x}) = IF x \in S THEN Cardinality(S)
                                           ELSE Cardinality(S) + 1
    BY FS_AddElement
<1> QED BY <1>1, <1>2, <1>3

\* What ZREMRANGEBYSCORE leaves is a finite part of the log.
LEMMA KeptFinite ==
    ASSUME IInv, NEW s
    PROVE  /\ Kept(s) \in SUBSET Entries /\ Kept(s) \subseteq log
           /\ IsFiniteSet(Kept(s))
           /\ Cardinality(Kept(s)) \in Nat
           /\ Cardinality(Kept(s)) =< Cardinality(log)
           /\ Cardinality(Kept(s)) =< limit
<1>1. Kept(s) \in SUBSET log
    BY DEF Kept
<1>2. IsFiniteSet(Kept(s)) /\ Cardinality(Kept(s)) =< Cardinality(log)
    BY <1>1, FS_Subset DEF IInv, LogBounded
<1>3. Cardinality(Kept(s)) \in Nat /\ Cardinality(log) \in Nat
    BY <1>2, FS_CardinalityType DEF IInv, LogBounded
<1> QED BY <1>1, <1>2, <1>3 DEF IInv, TypeOK, LogBounded

\* A denial is told to wait for the oldest entry.
LEMMA RetryTyped ==
    ASSUME IInv, NEW s \in Nat, ~ Admits(s)
    PROVE  /\ Kept(s) # {}
           /\ Oldest(Kept(s)) \in Nat
           /\ RetryAfter(s) \in Nat
           /\ \/ RetryAfter(s) = Oldest(Kept(s)) + window_ms - s
              \/ RetryAfter(s) = 1
           /\ RetryAfter(s) >= Oldest(Kept(s)) + window_ms - s
<1>1. Kept(s) # {}
    BY KeptFinite, FS_EmptySet DEF Admits
<1>2. Oldest(Kept(s)) \in Nat
    BY <1>1, KeptFinite, OldestIsLeast
<1> QED BY <1>1, <1>2, Constants DEF RetryAfter

-----------------------------------------------------------------------------
(***************************************************************************)
(* The invariant is inductive.                                             *)
(***************************************************************************)
LEMMA InitIInv == Init => IInv
<1> SUFFICES ASSUME Init PROVE IInv
    OBVIOUS
<1> USE DEF Init
<1>1. TypeOK /\ StampsRecent /\ AdmittedKept /\ RemainingHonest /\ RetryOneShort
    BY DEF TypeOK, StampsRecent, AdmittedKept, RemainingHonest, RetryOneShort,
           NoDecision
<1>2. LogBounded
    BY FS_EmptySet DEF LogBounded
<1>3. LimitInAnyWindow
    <2>1. \A t : {e \in admitted : t =< e.ts /\ e.ts =< t + window_ms - MaxDelay}
                     = {}
        OBVIOUS
    <2> QED BY <2>1, FS_EmptySet DEF LimitInAnyWindow
<1> QED BY <1>1, <1>2, <1>3 DEF IInv

\* What a script does to the log and to the history.
LEMMA ScriptPreserves ==
    ASSUME IInv, NEW r \in Requests, pc[r] = "stamped", Script(r),
           UNCHANGED clock
    PROVE  /\ log' \in SUBSET Entries /\ admitted' \in SUBSET Entries
           /\ expireAt' \in Nat
           /\ LogBounded'
           /\ AdmittedKept'
           /\ LimitInAnyWindow'
<1> DEFINE s == stamp[r]
           entry == Entry(r)
           added == IF Admits(s) THEN {entry} ELSE {}
<1>1. /\ s \in Nat /\ now \in Nat
      /\ s =< now /\ now =< s + MaxDelay
      /\ now' = now
    BY DEF IInv, TypeOK, StampsRecent, clock
<1>2. entry \in Entries /\ entry.ts = s
    BY <1>1 DEF Entry, Entries, IInv, TypeOK
<1>3. /\ log' = Kept(s) \cup added
      /\ admitted' = admitted \cup added
      /\ expireAt' = now + (window_ms + SecondMs)
    BY Constants DEF Script
<1>4. added \subseteq {entry} /\ (added # {} => Admits(s))
    OBVIOUS
<1> HIDE DEF s, entry
<1>5. log' \in SUBSET Entries /\ admitted' \in SUBSET Entries
    BY <1>2, <1>3, <1>4, KeptFinite DEF IInv, TypeOK
<1>6. expireAt' \in Nat
    BY <1>1, <1>3, Constants
<1>7. LogBounded'
    <2>1. CASE Admits(s)
        <3>1. log' = Kept(s) \cup {entry}
            BY <1>3, <2>1
        <3>2. /\ IsFiniteSet(Kept(s) \cup {entry})
              /\ Cardinality(Kept(s) \cup {entry}) =< Cardinality(Kept(s)) + 1
              /\ Cardinality(Kept(s) \cup {entry}) \in Nat
            BY KeptFinite, PlusOne
        <3>3. Cardinality(Kept(s)) < limit /\ Cardinality(Kept(s)) \in Nat
            BY <2>1, KeptFinite DEF Admits
        <3>4. Cardinality(Kept(s) \cup {entry}) =< limit
            BY <3>2, <3>3
        <3> QED BY <3>1, <3>2, <3>4 DEF LogBounded
    <2>2. CASE ~ Admits(s)
        BY <1>3, <2>2, KeptFinite DEF LogBounded
    <2> QED BY <2>1, <2>2
<1> HIDE DEF added
\* Entries that a script stamped s, now, may still have to count.
<1>8. ASSUME NEW e \in admitted, e.ts >= now - window_ms, e.ts >= s - window_ms
      PROVE  e \in Kept(s)
    <2>1. /\ e \in log /\ e.ts \in Nat
          /\ e.ts + window_ms + SecondMs =< expireAt
          /\ expireAt \in Nat
        BY <1>8 DEF IInv, TypeOK, AdmittedKept, Entries
    <2>2. now < expireAt
        BY <1>1, <1>8, <2>1, Constants
    <2> QED BY <1>8, <2>1, <2>2 DEF Kept, KeyExists, InWindow
<1>9. AdmittedKept'
    <2> SUFFICES ASSUME NEW e \in admitted'
                 PROVE  /\ e.ts =< now
                        /\ e.ts >= now - window_ms => e \in log'
                        /\ e.ts + window_ms + SecondMs =< expireAt'
        BY <1>1 DEF AdmittedKept, window_ms
    <2>1. CASE e \in admitted
        <3>1. e.ts =< now /\ e.ts \in Nat
            BY <2>1 DEF IInv, TypeOK, AdmittedKept, Entries
        <3>2. e.ts >= now - window_ms => e \in log'
            BY <1>1, <1>3, <1>8, <2>1, <3>1, Constants
        <3> QED BY <1>1, <1>3, <3>1, <3>2, Constants
    <2>2. CASE e \in added
        BY <1>1, <1>2, <1>3, <1>4, <2>2, Constants
    <2> QED BY <1>3, <2>1, <2>2
<1>10. LimitInAnyWindow'
    <2> DEFINE After(t) == {e \in admitted' :
                               t =< e.ts /\ e.ts =< t + window_ms - MaxDelay}
    <2> SUFFICES ASSUME NEW t \in 0 .. now
                 PROVE  Cardinality(After(t)) =< limit
        BY <1>1 DEF LimitInAnyWindow, window_ms
    <2>1. CASE added = {} \/ ~ (t =< s /\ s =< t + window_ms - MaxDelay)
        <3>1. After(t) = {e \in admitted :
                             t =< e.ts /\ e.ts =< t + window_ms - MaxDelay}
            BY <1>2, <1>3, <1>4, <2>1
        <3> HIDE DEF After
        <3> QED BY <3>1 DEF IInv, LimitInAnyWindow
    <2>2. CASE added # {} /\ t =< s /\ s =< t + window_ms - MaxDelay
        <3>1. now =< t + window_ms /\ t \in Nat
            BY <1>1, <2>2, Constants
        <3>2. After(t) \subseteq log'
            <4> SUFFICES ASSUME NEW e \in After(t) PROVE e \in log'
                OBVIOUS
            <4>1. e \in admitted' /\ e.ts >= t
                OBVIOUS
            <4>2. CASE e \in admitted
                <5>1. e.ts \in Nat
                    BY <4>2 DEF IInv, TypeOK, Entries
                <5>2. e.ts >= now - window_ms /\ e.ts >= s - window_ms
                    BY <1>1, <3>1, <4>1, <5>1, Constants
                <5> QED BY <1>3, <1>8, <4>2, <5>2
            <4>3. CASE e \in added
                BY <1>3, <4>3
            <4> QED BY <1>3, <4>1, <4>2, <4>3
        <3> HIDE DEF After
        <3>3. Cardinality(After(t)) =< Cardinality(log') /\ IsFiniteSet(After(t))
            BY <1>7, <3>2, FS_Subset DEF LogBounded
        <3>4. /\ Cardinality(After(t)) \in Nat /\ Cardinality(log') \in Nat
              /\ Cardinality(log') =< limit
            BY <1>7, <3>3, FS_CardinalityType DEF LogBounded
        <3> QED BY <3>3, <3>4
    <2> QED BY <2>1, <2>2
<1> QED BY <1>5, <1>6, <1>7, <1>9, <1>10

\* The answer a script gives is honest.
LEMMA DecidePreserves ==
    ASSUME IInv, NEW r \in Requests, pc[r] = "stamped", Script(r),
           decision' = Decide(stamp[r]), UNCHANGED clock
    PROVE  /\ decision' \in [kind : {"none", "allowed", "denied"},
                             remaining : Nat, retry : Nat, at : Nat]
           /\ RemainingHonest'
           /\ RetryOneShort'
<1> DEFINE s == stamp[r]
           k == Cardinality(Kept(s))
<1>1. s \in Nat
    BY DEF IInv, TypeOK
<1>2. k \in Nat /\ k =< limit /\ IsFiniteSet(Kept(s))
    BY KeptFinite
<1>3. Admits(s) <=> k < limit
    BY DEF Admits
<1>4. CASE Admits(s)
    <2>1. decision' = [kind |-> "allowed", at |-> s, retry |-> 0,
                       remaining |-> limit - (k + 1)]
        BY <1>4 DEF Decide
    <2>2. log' = Kept(s) \cup {Entry(r)}
        BY <1>4 DEF Script
    <2>3. /\ Cardinality(Kept(s) \cup {Entry(r)}) =< k + 1
          /\ Cardinality(Kept(s) \cup {Entry(r)}) \in Nat
        BY <1>2, PlusOne
    <2> HIDE DEF k
    <2>4. Cardinality(log') =< k + 1 /\ Cardinality(log') \in Nat
        BY <2>2, <2>3
    <2>5. limit - (k + 1) \in Nat
        BY <1>2, <1>3, <1>4
    <2>6. RemainingHonest'
        BY <1>2, <2>1, <2>4, <2>5 DEF RemainingHonest
    <2>7. RetryOneShort'
        BY <2>1 DEF RetryOneShort
    <2> QED BY <1>1, <2>1, <2>5, <2>6, <2>7
<1>5. CASE ~ Admits(s)
    <2>1. decision' = [kind |-> "denied", at |-> s, retry |-> RetryAfter(s),
                       remaining |-> 0]
        BY <1>5 DEF Decide
    <2>2. log' = Kept(s)
        BY <1>5 DEF Script
    <2> DEFINE oldest == Oldest(Kept(s))
               retry == RetryAfter(s)
               ready == s + retry
               Left(t) == {e \in Kept(s) : e.ts >= t - window_ms}
    <2>3. /\ Kept(s) # {} /\ Kept(s) \in SUBSET Entries
          /\ oldest \in Nat /\ retry \in Nat
          /\ retry = oldest + window_ms - s \/ retry = 1
          /\ retry >= oldest + window_ms - s
        BY <1>1, <1>5, RetryTyped, KeptFinite
    <2>4. /\ \E e \in Kept(s) : e.ts = oldest
          /\ \A e \in Kept(s) : oldest =< e.ts
        BY <2>3, OldestIsLeast
    <2>5. k = limit
        BY <1>2, <1>3, <1>5
    <2> HIDE DEF oldest, retry
    <2>6. ready \in Nat
        BY <1>1, <2>3
    <2>7. retry = oldest + window_ms - s => Left(ready) = Kept(s)
        <3>1. ASSUME retry = oldest + window_ms - s, NEW e \in Kept(s)
              PROVE  e.ts >= ready - window_ms
            <4>1. e.ts \in Nat /\ oldest =< e.ts
                BY <2>3, <2>4 DEF Entries
            <4> QED BY <1>1, <2>3, <3>1, <4>1, Constants
        <3> QED BY <3>1
    <2>8. Cardinality(Left(ready + 1)) < limit
        <3>1. PICK e \in Kept(s) : e.ts = oldest
            BY <2>4
        <3>2. e \notin Left(ready + 1)
            BY <1>1, <2>3, <3>1, Constants
        <3> DEFINE L == Left(ready + 1)
        <3>3. L \in SUBSET Kept(s) /\ L # Kept(s)
            BY <3>1, <3>2
        <3> HIDE DEF L
        <3>4. /\ IsFiniteSet(L) /\ Cardinality(L) =< k
              /\ Cardinality(L) # k
            BY <1>2, <3>3, FS_Subset
        <3>5. Cardinality(L) \in Nat
            BY <3>4, FS_CardinalityType
        <3>6. Cardinality(L) < limit
            BY <1>2, <2>5, <3>4, <3>5
        <3> QED BY <3>6 DEF L
    <2>9. Cardinality(Left(ready)) >= limit \/ retry = 1
        BY <2>3, <2>5, <2>7
    <2>10. RetryOneShort'
        <3>1. decision'.at + decision'.retry = ready
            BY <2>1 DEF retry
        <3>2. \A t : {e \in log' : e.ts >= t - window_ms} = Left(t)
            BY <2>2
        <3> HIDE DEF Left, ready
        <3>3. decision'.retry = retry
            BY <2>1 DEF retry
        <3> QED BY <2>8, <2>9, <3>1, <3>2, <3>3
                DEF RetryOneShort, Survivors, InWindow, window_ms
    <2>11. RemainingHonest'
        BY <2>1 DEF RemainingHonest
    <2> QED BY <1>1, <2>1, <2>3, <2>10, <2>11 DEF retry
<1> QED BY <1>4, <1>5

LEMMA NextIInv == IInv /\ [Next]_vars => IInv'
<1> SUFFICES ASSUME IInv, [Next]_vars PROVE IInv'
    OBVIOUS
<1> USE DEF IInv
\* Steps that leave the log and the decision alone.
<1>1. ASSUME UNCHANGED <<now, key, decision, admitted>>, TypeOK', StampsRecent'
      PROVE  IInv'
    <2> USE <1>1 DEF key
    <2>1. LogBounded' /\ AdmittedKept' /\ LimitInAnyWindow'
        BY DEF LogBounded, AdmittedKept, LimitInAnyWindow, window_ms
    <2>2. RemainingHonest' /\ RetryOneShort'
        BY DEF RemainingHonest, RetryOneShort, Survivors, InWindow, window_ms
    <2> QED BY <1>1, <2>1, <2>2
<1>2. CASE Tick
    <2> USE <1>2 DEF Tick, calls, key
    <2>1. TypeOK' /\ StampsRecent'
        BY DEF TypeOK, StampsRecent
    <2>2. LogBounded'
        BY DEF LogBounded
    <2>3. AdmittedKept'
        <3> SUFFICES ASSUME NEW e \in admitted
                     PROVE  /\ e.ts =< now'
                            /\ e.ts >= now' - window_ms => e \in log
                            /\ e.ts + window_ms + SecondMs =< expireAt
            BY DEF AdmittedKept, window_ms
        <3>1. e.ts \in Nat /\ now \in Nat
            BY DEF TypeOK, Entries
        <3> QED BY <3>1, Constants DEF AdmittedKept
    <2>4. LimitInAnyWindow'
        <3> SUFFICES ASSUME NEW t \in 0 .. now + 1
                     PROVE  Cardinality(Interval(t)) =< limit
            BY DEF LimitInAnyWindow, Interval, window_ms
        <3>1. CASE t = now + 1
            <4>1. \A e \in admitted : e.ts \in Nat /\ e.ts =< now
                BY DEF TypeOK, Entries, AdmittedKept
            <4>2. Interval(t) = {}
                BY <3>1, <4>1 DEF Interval, TypeOK
            <4> QED BY <4>2, FS_EmptySet
        <3>2. CASE t # now + 1
            <4>1. t \in 0 .. now
                BY <3>2 DEF TypeOK
            <4> QED BY <4>1 DEF LimitInAnyWindow, Interval
        <3> QED BY <3>1, <3>2
    <2>5. RemainingHonest' /\ RetryOneShort'
        BY DEF RemainingHonest, RetryOneShort, Survivors, InWindow, window_ms
    <2> QED BY <2>1, <2>2, <2>3, <2>4, <2>5
<1>3. ASSUME NEW r \in Requests, Call(r)
      PROVE  IInv'
    <2>1. CASE ReadClock(r)
        <3> USE <2>1 DEF ReadClock, key
        <3>1. TypeOK' /\ StampsRecent'
            BY DEF TypeOK, StampsRecent
        <3> QED BY <1>1, <3>1
    <2>2. CASE Fail(r)
        <3> USE <2>2 DEF Fail, Return, clock, key
        <3>1. TypeOK' /\ StampsRecent'
            BY DEF TypeOK, StampsRecent
        <3> QED BY <1>1, <3>1
    <2>3. CASE Execute(r)
        <3>1. /\ pc[r] = "stamped" /\ Script(r) /\ UNCHANGED clock
              /\ decision' = Decide(stamp[r])
              /\ Return(r)
            BY <2>3 DEF Execute
        <3>2. /\ log' \in SUBSET Entries /\ admitted' \in SUBSET Entries
              /\ expireAt' \in Nat
              /\ LogBounded' /\ AdmittedKept' /\ LimitInAnyWindow'
            BY <3>1, ScriptPreserves
        <3>3. /\ decision' \in [kind : {"none", "allowed", "denied"},
                                remaining : Nat, retry : Nat, at : Nat]
              /\ RemainingHonest' /\ RetryOneShort'
            BY <3>1, DecidePreserves
        <3>4. TypeOK' /\ StampsRecent'
            BY <3>1, <3>2, <3>3 DEF TypeOK, StampsRecent, Return, clock
        <3> QED BY <3>2, <3>3, <3>4
    <2>4. CASE ExecuteLost(r)
        <3>1. /\ pc[r] = "stamped" /\ Script(r) /\ UNCHANGED clock
              /\ decision' = NoDecision
              /\ tries' = [tries EXCEPT ![r] = tries[r] + 1]
              /\ UNCHANGED <<pc, stamp, token>>
            BY <2>4 DEF ExecuteLost
        <3>2. /\ log' \in SUBSET Entries /\ admitted' \in SUBSET Entries
              /\ expireAt' \in Nat
              /\ LogBounded' /\ AdmittedKept' /\ LimitInAnyWindow'
            BY <3>1, ScriptPreserves
        <3>3. TypeOK' /\ StampsRecent'
            BY <3>1, <3>2 DEF TypeOK, StampsRecent, NoDecision, clock
        <3>4. RemainingHonest' /\ RetryOneShort'
            BY <3>1 DEF RemainingHonest, RetryOneShort, NoDecision
        <3> QED BY <3>2, <3>3, <3>4
    <2> QED BY <1>3, <2>1, <2>2, <2>3, <2>4 DEF Call
<1>4. CASE ScanDelete
    <2> USE <1>4 DEF ScanDelete, clock, calls
    <2>1. TypeOK' /\ StampsRecent'
        BY DEF TypeOK, StampsRecent, NoDecision
    <2>2. LogBounded' /\ AdmittedKept'
        BY FS_EmptySet DEF LogBounded, AdmittedKept
    <2>3. LimitInAnyWindow'
        <3>1. \A t : {e \in admitted' : t =< e.ts
                                         /\ e.ts =< t + window_ms - MaxDelay} = {}
            OBVIOUS
        <3> QED BY <3>1, FS_EmptySet DEF LimitInAnyWindow, window_ms
    <2>4. RemainingHonest' /\ RetryOneShort'
        BY DEF RemainingHonest, RetryOneShort, NoDecision
    <2> QED BY <2>1, <2>2, <2>3, <2>4
<1>5. CASE UNCHANGED vars
    <2> USE <1>5 DEF vars, clock, calls, key
    <2>1. TypeOK' /\ StampsRecent'
        BY DEF TypeOK, StampsRecent
    <2> QED BY <1>1, <2>1
<1> QED BY <1>2, <1>3, <1>4, <1>5 DEF Next

-----------------------------------------------------------------------------
(***************************************************************************)
(* Theorems.                                                               *)
(***************************************************************************)

\* The invariant of the limiter.
THEOREM Invariance == Spec => []IInv
BY InitIInv, NextIInv, PTL DEF Spec

\* Every variable keeps its type.
THEOREM TypeCorrect == Spec => []TypeOK
<1>1. IInv => TypeOK
    BY DEF IInv
<1> QED BY <1>1, Invariance, PTL

\* An admitted request of the last window is in the log and its key exists,
\* whatever late and early stamps, repeated calls and the TTL removed.
THEOREM NothingIsForgotten == Spec => []NothingForgotten
<1>1. ASSUME IInv PROVE NothingForgotten
    <2> SUFFICES ASSUME NEW e \in admitted, e.ts >= now - window_ms
                 PROVE  e \in log /\ KeyExists
        BY DEF NothingForgotten
    <2>1. /\ e.ts \in Nat /\ now \in Nat /\ expireAt \in Nat
          /\ e \in log
          /\ e.ts + window_ms + SecondMs =< expireAt
        BY <1>1 DEF IInv, TypeOK, Entries, AdmittedKept
    <2> QED BY <2>1, Constants DEF KeyExists
<1> QED BY <1>1, Invariance, PTL

\* No interval shorter than the window by the longest delay of a call holds
\* more than limit admitted requests.
THEOREM LimitHolds == Spec => []LimitInAnyWindow
<1>1. IInv => LimitInAnyWindow
    BY DEF IInv
<1> QED BY <1>1, Invariance, PTL

\* The limiter would still admit as many requests as its answer says.
THEOREM RemainingIsHonest == Spec => []RemainingHonest
<1>1. IInv => RemainingHonest
    BY DEF IInv
<1> QED BY <1>1, Invariance, PTL

\* The announced wait is one tick short, never more and never less.
THEOREM RetryIsOneShort == Spec => []RetryOneShort
<1>1. IInv => RetryOneShort
    BY DEF IInv
<1> QED BY <1>1, Invariance, PTL
=============================================================================
