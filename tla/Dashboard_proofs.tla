----------------------------- MODULE Dashboard_proofs -----------------------------
(***************************************************************************)
(* Proofs about Dashboard, for any number of starts, any rate, concurrency *)
(* and duration.                                                           *)
(***************************************************************************)
EXTENDS Dashboard, FiniteSetTheorems, TLAPS

USE DashboardAssumption

-----------------------------------------------------------------------------
(***************************************************************************)
(* The inductive invariant.                                                *)
(***************************************************************************)
LoopStates == [pc : {"new", "run", "drain", "done"},
               begun : 0 .. MaxTime, budget : 0 .. 2 * rps,
               last : 0 .. MaxTime, waits : SUBSET Slots, sent : Nat]

\* What a loop has sent and may still send fits in the time it has looked at.
BudgetKept ==
    \A l \in Loops : loop[l].pc = "run" =>
        /\ loop[l].begun =< loop[l].last
        /\ loop[l].last =< now
        /\ loop[l].sent + loop[l].budget
               =< rps * (loop[l].last - loop[l].begun)

\* Leaving the page stops all loops for good.
StoppedWhenLeft == ~ mounted => stopRequested

\* While no reload has hidden a sync, there is one start at a time.
OneStart ==
    /\ syncs =< 1
    /\ syncs > 0 => status = "idle" /\ (mounted => policySyncStatus = "syncing")
    /\ status = "idle" => Alive = {}
    /\ \A k, l \in Alive : k = l

\* ... and all that is unanswered is counted, by its only loop.
AllCounted ==
    /\ outstanding = inFlight
    /\ Cardinality(outstanding) =< concurrency
    /\ Alive = {} => outstanding = {}
    /\ \A l \in Loops : loop[l].pc = "drain" => outstanding \subseteq loop[l].waits

IInv ==
    /\ TypeOK
    /\ FlagsMatchStatus
    /\ StoppedWhenLeft
    /\ BudgetKept
    /\ overtaken \/ (OneStart /\ AllCounted)

-----------------------------------------------------------------------------
(***************************************************************************)
(* The tokens of a pass.                                                   *)
(***************************************************************************)
LEMMA BudgetBound ==
    ASSUME TypeOK, BudgetKept, NEW l \in Loops, loop[l].pc = "run"
    PROVE  /\ Budget(l) \in 0 .. 2 * rps
           /\ loop[l].sent + Budget(l) =< rps * (now - loop[l].begun)
<1>1. /\ loop[l].sent \in Nat /\ loop[l].budget \in 0 .. 2 * rps
      /\ loop[l].begun \in Nat /\ loop[l].last \in Nat /\ now \in Nat
    BY DEF TypeOK
<1>2. /\ loop[l].begun =< loop[l].last /\ loop[l].last =< now
      /\ loop[l].sent + loop[l].budget
             =< rps * (loop[l].last - loop[l].begun)
    BY DEF BudgetKept
<1> DEFINE a == loop[l].last - loop[l].begun
           b == now - loop[l].last
<1>3. a \in Nat /\ b \in Nat /\ now - loop[l].begun = a + b
    BY <1>1, <1>2
<1>4. loop[l].sent + loop[l].budget =< rps * a
    BY <1>2
<1>5. Budget(l) = Smaller(loop[l].budget + b * rps, 2 * rps)
    BY DEF Budget
<1> HIDE DEF a, b
<1>6. rps * (a + b) = rps * a + b * rps /\ b * rps \in Nat /\ rps * a \in Nat
    BY <1>3
<1>7. Budget(l) \in 0 .. 2 * rps /\ Budget(l) =< loop[l].budget + b * rps
    BY <1>1, <1>5, <1>6 DEF Smaller
<1> QED BY <1>1, <1>3, <1>4, <1>6, <1>7

-----------------------------------------------------------------------------
(***************************************************************************)
(* The invariant is inductive.                                             *)
(***************************************************************************)
LEMMA NewLoopState ==
    NewLoop \in LoopStates /\ NewLoop.pc = "new"
        /\ NewLoop.sent = 0 /\ NewLoop.budget = 0
BY DEF NewLoop, LoopStates

LEMMA DisjointUnion ==
    ASSUME NEW S, NEW T, IsFiniteSet(S), IsFiniteSet(T), S \cap T = {}
    PROVE  Cardinality(S \cup T) = Cardinality(S) + Cardinality(T)
<1>1. Cardinality(S \cap T) = 0
    BY FS_EmptySet
<1>2. Cardinality(S) \in Nat /\ Cardinality(T) \in Nat
    BY FS_CardinalityType
<1>3. Cardinality(S \cup T)
          = Cardinality(S) + Cardinality(T) - Cardinality(S \cap T)
    BY FS_Union
<1> QED BY <1>1, <1>2, <1>3

LEMMA InitIInv == Init => IInv
<1> SUFFICES ASSUME Init PROVE IInv
    OBVIOUS
<1> USE NewLoopState DEF Init
<1>1. TypeOK
    <2>1. loop \in [Loops -> LoopStates]
        BY NewLoopState
    <2>2. now \in 0 .. MaxTime
        OBVIOUS
    <2> QED BY <2>1, <2>2 DEF TypeOK, LoopStates
<1>2. FlagsMatchStatus /\ StoppedWhenLeft /\ BudgetKept
    BY DEF FlagsMatchStatus, StoppedWhenLeft, BudgetKept
<1>3. Alive = {}
    BY DEF Alive
<1>4. OneStart /\ AllCounted
    BY <1>3, FS_EmptySet DEF OneStart, AllCounted
<1> QED BY <1>1, <1>2, <1>4 DEF IInv

\* A finished loop is out of the game.
LEMMA FinishPreserves ==
    ASSUME IInv, NEW l \in Loops, Finish(l), loop[l].pc \in {"run", "drain"},
           overtaken \/ outstanding = {},
           UNCHANGED <<now, mounted, traffic, sync>>
    PROVE  IInv'
<1> USE DEF IInv, traffic, sync, flags
<1> DEFINE finished == [NewLoop EXCEPT !.pc = "done"]
<1>1. finished \in LoopStates /\ finished.pc = "done"
    BY DEF NewLoop, LoopStates, TypeOK
<1>2. loop' = [loop EXCEPT ![l] = finished]
    BY DEF Finish
<1> HIDE DEF finished
<1>3. /\ loop' \in [Loops -> LoopStates]
      /\ loop'[l].pc = "done"
      /\ \A k \in Loops \ {l} : loop'[k] = loop[k]
    BY <1>1, <1>2 DEF TypeOK, LoopStates
<1>4. TypeOK' /\ FlagsMatchStatus' /\ StoppedWhenLeft'
    BY <1>3 DEF Finish, TypeOK, FlagsMatchStatus, StoppedWhenLeft, LoopStates
<1>5. BudgetKept'
    <2> SUFFICES ASSUME NEW k \in Loops, loop'[k].pc = "run"
                 PROVE  /\ loop'[k].begun =< loop'[k].last
                        /\ loop'[k].last =< now
                        /\ loop'[k].sent + loop'[k].budget
                               =< rps * (loop'[k].last - loop'[k].begun)
        BY DEF BudgetKept
    <2>1. k # l /\ loop'[k] = loop[k]
        BY <1>3
    <2> QED BY <2>1 DEF BudgetKept
<1>6. ASSUME OneStart, AllCounted, outstanding = {}
      PROVE  OneStart' /\ AllCounted'
    <2>1. l \in Alive
        BY DEF Alive
    <2>2. Alive' = {}
        <3>1. \A k \in Loops : loop[k].pc \in {"run", "drain"} => k = l
            BY <1>6, <2>1 DEF OneStart, Alive
        <3> QED BY <1>3, <3>1 DEF Alive
    <2>3. syncs = 0
        <3>1. status # "idle"
            BY <1>6, <2>1 DEF OneStart
        <3> QED BY <1>6, <3>1 DEF OneStart, TypeOK
    <2>4. OneStart'
        BY <2>2, <2>3 DEF OneStart
    <2>5. AllCounted'
        BY <1>6, <2>2 DEF AllCounted
    <2> QED BY <2>4, <2>5
<1> QED BY <1>4, <1>5, <1>6

LEMMA LeavePreserves ==
    ASSUME IInv, NEW l \in Loops, Leave(l)
    PROVE  IInv'
<1> USE DEF IInv
<1>1. /\ loop[l].pc = "run"
      /\ UNCHANGED <<now, mounted, traffic, sync>>
    BY DEF Leave
<1>2. CASE inFlight = {}
    <2>1. Finish(l)
        BY <1>2 DEF Leave, Awaited
    <2>2. overtaken \/ outstanding = {}
        BY <1>2 DEF AllCounted
    <2> QED BY <1>1, <2>1, <2>2, FinishPreserves
<1>3. CASE inFlight # {}
    <2> DEFINE draining == [NewLoop EXCEPT !.pc = "drain", !.waits = inFlight]
    <2>1. /\ draining \in LoopStates /\ draining.pc = "drain"
          /\ draining.waits = inFlight
        BY NewLoopState DEF LoopStates, TypeOK
    <2>2. /\ loop' = [loop EXCEPT ![l] = draining]
          /\ UNCHANGED <<status, stopRequested, pauseRequested>>
        BY <1>3 DEF Leave, Awaited, flags
    <2> HIDE DEF draining
    <2>3. /\ loop' \in [Loops -> LoopStates]
          /\ loop'[l].pc = "drain" /\ loop'[l].waits = inFlight
          /\ \A k \in Loops \ {l} : loop'[k] = loop[k]
        BY <2>1, <2>2 DEF TypeOK, LoopStates
    <2>4. UNCHANGED <<now, mounted, inFlight, outstanding, policySyncStatus,
                      syncs, loads, overtaken>>
        BY <1>1 DEF traffic, sync
    <2>5. TypeOK' /\ FlagsMatchStatus' /\ StoppedWhenLeft'
        BY <2>2, <2>3, <2>4
           DEF TypeOK, FlagsMatchStatus, StoppedWhenLeft, LoopStates
    <2>6. BudgetKept'
        <3> SUFFICES ASSUME NEW k \in Loops, loop'[k].pc = "run"
                     PROVE  /\ loop'[k].begun =< loop'[k].last
                            /\ loop'[k].last =< now
                            /\ loop'[k].sent + loop'[k].budget
                                   =< rps * (loop'[k].last - loop'[k].begun)
            BY <2>4 DEF BudgetKept
        <3>1. loop'[k] = loop[k]
            BY <2>3
        <3> QED BY <3>1 DEF BudgetKept
    <2>7. Alive' = Alive
        BY <1>1, <2>3 DEF Alive
    <2>8. ASSUME OneStart, AllCounted
          PROVE  OneStart' /\ AllCounted'
        <3>1. OneStart'
            BY <2>2, <2>4, <2>7, <2>8 DEF OneStart
        <3>2. \A k \in Loops : loop'[k].pc = "drain" =>
                                   outstanding \subseteq loop'[k].waits
            BY <2>3, <2>8 DEF AllCounted
        <3>3. AllCounted'
            BY <2>4, <2>7, <2>8, <3>2 DEF AllCounted
        <3> QED BY <3>1, <3>3
    <2> QED BY <2>4, <2>5, <2>6, <2>8
<1> QED BY <1>2, <1>3

LEMMA ReturnPreserves ==
    ASSUME IInv, NEW l \in Loops, Return(l)
    PROVE  IInv'
<1>1. overtaken \/ outstanding = {}
    BY DEF IInv, AllCounted, Return
<1> QED BY <1>1, FinishPreserves DEF Return

LEMMA PassPreserves ==
    ASSUME IInv, NEW l \in Loops, Pass(l)
    PROVE  IInv'
<1> USE DEF IInv
<1> DEFINE n == Smaller(Budget(l), concurrency - Cardinality(inFlight))
<1>1. PICK new \in SUBSET (Slots \ outstanding) :
          /\ Cardinality(new) = n
          /\ inFlight' = inFlight \cup new
          /\ outstanding' = outstanding \cup new
    BY DEF Pass
<1>2. /\ loop[l].pc = "run" /\ ~ stopRequested
      /\ loop' = [loop EXCEPT ![l].budget = Budget(l) - n, ![l].last = now,
                              ![l].sent = @ + n]
      /\ UNCHANGED <<now, mounted, status, stopRequested, pauseRequested,
                     policySyncStatus, syncs, loads, overtaken>>
    BY DEF Pass, Over, flags, sync
<1>3. /\ IsFiniteSet(new) /\ Cardinality(new) \in Nat
      /\ IsFiniteSet(inFlight) /\ Cardinality(inFlight) \in Nat
    <2>1. IsFiniteSet(new) /\ IsFiniteSet(inFlight)
        BY <1>1, FS_Subset DEF TypeOK
    <2> QED BY <2>1, FS_CardinalityType
<1>4. /\ Budget(l) \in 0 .. 2 * rps
      /\ loop[l].sent + Budget(l) =< rps * (now - loop[l].begun)
    BY <1>2, BudgetBound
<1>5. n \in Nat /\ n =< Budget(l) /\ n =< concurrency - Cardinality(inFlight)
    BY <1>1, <1>3, <1>4 DEF Smaller
<1> HIDE DEF n
<1>6. /\ loop[l] \in LoopStates /\ now \in 0 .. MaxTime
      /\ loop \in [Loops -> LoopStates]
    BY DEF TypeOK, LoopStates
<1>7. /\ loop'[l].pc = "run"
      /\ loop'[l].begun = loop[l].begun
      /\ loop'[l].last = now
      /\ loop'[l].budget = Budget(l) - n
      /\ loop'[l].sent = loop[l].sent + n
      /\ \A k \in Loops \ {l} : loop'[k] = loop[k]
    BY <1>2, <1>6 DEF LoopStates
<1>8. loop' \in [Loops -> LoopStates]
    <2> DEFINE next == [loop[l] EXCEPT !.budget = Budget(l) - n, !.last = now,
                                       !.sent = loop[l].sent + n]
    <2>1. next \in LoopStates
        <3>1. Budget(l) - n \in 0 .. 2 * rps
            BY <1>4, <1>5
        <3>2. loop[l].sent + n \in Nat
            BY <1>5, <1>6 DEF LoopStates
        <3> QED BY <1>6, <3>1, <3>2 DEF LoopStates
    <2>2. loop' = [loop EXCEPT ![l] = next]
        BY <1>2, <1>6
    <2> HIDE DEF next
    <2> QED BY <1>6, <2>1, <2>2
<1>9. TypeOK'
    BY <1>1, <1>2, <1>8 DEF TypeOK, LoopStates
<1>10. FlagsMatchStatus' /\ StoppedWhenLeft'
    BY <1>2 DEF FlagsMatchStatus, StoppedWhenLeft
<1>11. BudgetKept'
    <2> SUFFICES ASSUME NEW k \in Loops, loop'[k].pc = "run"
                 PROVE  /\ loop'[k].begun =< loop'[k].last
                        /\ loop'[k].last =< now
                        /\ loop'[k].sent + loop'[k].budget
                               =< rps * (loop'[k].last - loop'[k].begun)
        BY <1>2 DEF BudgetKept
    <2>1. CASE k = l
        <3>1. /\ loop[l].begun \in Nat /\ loop[l].last \in Nat
              /\ loop[l].begun =< loop[l].last /\ loop[l].last =< now
              /\ loop[l].sent \in Nat /\ now \in Nat
            BY <1>2, <1>6 DEF BudgetKept, LoopStates
        <3>2. loop'[k].sent + loop'[k].budget = loop[l].sent + Budget(l)
            BY <1>4, <1>5, <1>7, <2>1, <3>1
        <3> QED BY <1>4, <1>7, <2>1, <3>1, <3>2
    <2>2. CASE k # l
        <3>1. loop'[k] = loop[k]
            BY <1>7, <2>2
        <3> QED BY <3>1 DEF BudgetKept
    <2> QED BY <2>1, <2>2
<1>12. Alive' = Alive
    BY <1>2, <1>7 DEF Alive
<1>13. ASSUME OneStart, AllCounted
       PROVE  OneStart' /\ AllCounted'
    <2>1. OneStart'
        BY <1>2, <1>12, <1>13 DEF OneStart
    <2>2. outstanding' = inFlight' /\ inFlight \cap new = {}
        BY <1>1, <1>13 DEF AllCounted
    <2>3. Cardinality(outstanding') =< concurrency
        <3>1. Cardinality(inFlight \cup new)
                  = Cardinality(inFlight) + Cardinality(new)
            BY <1>3, <2>2, DisjointUnion
        <3>2. outstanding' = inFlight \cup new
            BY <1>1, <2>2
        <3>3. Cardinality(outstanding') = Cardinality(inFlight) + n
            BY <1>1, <3>1, <3>2
        <3> QED BY <1>3, <1>5, <3>3
    <2>4. l \in Alive
        BY <1>2 DEF Alive
    <2>5. \A k \in Loops : loop'[k].pc # "drain"
        <3>1. \A k \in Loops : loop[k].pc = "drain" => k = l
            BY <1>13, <2>4 DEF OneStart, Alive
        <3> QED BY <1>2, <1>7, <3>1
    <2>6. AllCounted'
        BY <1>12, <2>2, <2>3, <2>4, <2>5 DEF AllCounted
    <2> QED BY <2>1, <2>6
<1> QED BY <1>2, <1>9, <1>10, <1>11, <1>13

LEMMA SettlePreserves ==
    ASSUME IInv, NEW r \in Slots, Settle(r)
    PROVE  IInv'
<1> USE DEF IInv, Settle, flags, sync
<1>1. TypeOK'
    BY DEF TypeOK
<1>2. FlagsMatchStatus' /\ StoppedWhenLeft' /\ BudgetKept'
    BY DEF FlagsMatchStatus, StoppedWhenLeft, BudgetKept
<1>3. ASSUME OneStart, AllCounted
      PROVE  OneStart' /\ AllCounted'
    <2>1. OneStart' /\ Alive' = Alive
        BY <1>3 DEF OneStart, Alive
    <2>2. Cardinality(outstanding') =< concurrency
        <3>1. /\ IsFiniteSet(outstanding) /\ outstanding' \in SUBSET outstanding
              /\ Cardinality(outstanding) =< concurrency
            BY <1>3, FS_Subset DEF TypeOK, AllCounted
        <3>2. IsFiniteSet(outstanding')
              /\ Cardinality(outstanding') =< Cardinality(outstanding)
            BY <3>1, FS_Subset
        <3> QED BY <3>1, <3>2, FS_CardinalityType
    <2>3. AllCounted'
        BY <1>3, <2>1, <2>2 DEF AllCounted
    <2> QED BY <2>1, <2>3
<1> QED BY <1>1, <1>2, <1>3

\* A session begins, and with it a loop.
LEMMA SyncedPreserves ==
    ASSUME IInv, Synced
    PROVE  IInv'
<1> USE DEF IInv
<1>1. /\ syncs > 0 /\ syncs' = syncs - 1 /\ syncs' \in Nat
      /\ UNCHANGED <<now, mounted, loads, overtaken>>
    BY DEF Synced, TypeOK
<1>2. CASE mounted
    <2>1. policySyncStatus' = "ready"
        BY <1>2 DEF Synced
    <2>2. PICK l \in Loops : BeginLoop(l)
        BY <1>2 DEF Synced
    <2> DEFINE begun == [NewLoop EXCEPT !.pc = "run", !.begun = now,
                                        !.last = now]
    <2>3. /\ begun \in LoopStates /\ begun.pc = "run"
          /\ begun.begun = now /\ begun.last = now
          /\ begun.sent = 0 /\ begun.budget = 0
        BY NewLoopState DEF LoopStates, TypeOK
    <2>4. /\ loop[l].pc = "new"
          /\ loop' = [loop EXCEPT ![l] = begun]
          /\ status' = "running"
          /\ stopRequested' = FALSE /\ pauseRequested' = FALSE
          /\ inFlight' = {} /\ outstanding' = outstanding
        BY <2>2 DEF BeginLoop
    <2> HIDE DEF begun
    <2>5. /\ loop' \in [Loops -> LoopStates]
          /\ loop'[l] = begun
          /\ \A k \in Loops \ {l} : loop'[k] = loop[k]
        BY <2>3, <2>4 DEF TypeOK, LoopStates
    <2>6. TypeOK'
        BY <1>1, <2>1, <2>4, <2>5 DEF TypeOK, LoopStates
    <2>7. FlagsMatchStatus' /\ StoppedWhenLeft'
        BY <1>1, <1>2, <2>4 DEF FlagsMatchStatus, StoppedWhenLeft
    <2>8. BudgetKept'
        <3> SUFFICES ASSUME NEW k \in Loops, loop'[k].pc = "run"
                     PROVE  /\ loop'[k].begun =< loop'[k].last
                            /\ loop'[k].last =< now
                            /\ loop'[k].sent + loop'[k].budget
                                   =< rps * (loop'[k].last - loop'[k].begun)
            BY <1>1 DEF BudgetKept
        <3>1. CASE k = l
            <4>1. now \in Nat /\ rps * (now - now) = 0
                BY DEF TypeOK
            <4> QED BY <2>3, <2>5, <3>1, <4>1
        <3>2. CASE k # l
            <4>1. loop'[k] = loop[k]
                BY <2>5, <3>2
            <4> QED BY <4>1 DEF BudgetKept
        <3> QED BY <3>1, <3>2
    <2>9. ASSUME OneStart, AllCounted
          PROVE  OneStart' /\ AllCounted'
        <3>1. /\ Alive = {} /\ outstanding = {} /\ syncs' = 0
            BY <1>1, <2>9 DEF OneStart, AllCounted, TypeOK
        <3>2. \A k \in Loops : loop[k].pc \notin {"run", "drain"}
            BY <3>1 DEF Alive
        <3>3. \A k \in Loops : loop'[k].pc \in {"run", "drain"} <=> k = l
            BY <2>3, <2>5, <3>2
        <3>4. Alive' = {l}
            BY <3>3 DEF Alive
        <3>5. OneStart'
            BY <2>4, <3>1, <3>4 DEF OneStart
        <3>6. AllCounted'
            BY <2>4, <3>1, <3>4, FS_EmptySet DEF AllCounted
        <3> QED BY <3>5, <3>6
    <2> QED BY <1>1, <2>6, <2>7, <2>8, <2>9
<1>3. CASE ~ mounted
    <2>1. UNCHANGED <<policySyncStatus, status, flags, traffic, loop>>
        BY <1>3 DEF Synced
    <2> USE <1>1, <1>3, <2>1 DEF flags, traffic
    <2>2. TypeOK' /\ FlagsMatchStatus' /\ StoppedWhenLeft' /\ BudgetKept'
        BY DEF TypeOK, FlagsMatchStatus, StoppedWhenLeft, BudgetKept
    <2>3. Alive' = Alive
        BY DEF Alive
    <2>4. OneStart /\ AllCounted => OneStart' /\ AllCounted'
        BY <2>3 DEF OneStart, AllCounted, TypeOK
    <2> QED BY <2>2, <2>4
<1> QED BY <1>2, <1>3

\* Time, the buttons and the syncs leave the loops and the requests alone.
LEMMA OthersPreserve ==
    ASSUME IInv,
           Tick \/ Reload \/ Loaded \/ Start \/ SyncFailed
               \/ Pause \/ Resume \/ Stop \/ Unmount \/ UNCHANGED vars
    PROVE  IInv'
<1> USE DEF IInv
<1>1. UNCHANGED <<loop, inFlight, outstanding>> /\ now' \in 0 .. MaxTime
      /\ now =< now'
    BY DEF Tick, Reload, Loaded, Start, SyncFailed, Pause, Resume, Stop, Unmount,
           vars, traffic, TypeOK
<1>2. TypeOK'
    <2>1. CASE Start \/ SyncFailed \/ Loaded \/ Reload
        BY <2>1 DEF Start, SyncFailed, Loaded, Reload, SetSyncStatus, TypeOK,
                    flags, traffic
    <2>2. CASE Pause \/ Resume \/ Stop \/ Unmount
        BY <2>2 DEF Pause, Resume, Stop, Unmount, TypeOK, flags, traffic, sync
    <2>3. CASE Tick
        BY <1>1, <2>3 DEF Tick, TypeOK, flags, traffic, sync
    <2>4. CASE UNCHANGED vars
        BY <2>4 DEF vars, TypeOK, flags, traffic, sync
    <2> QED BY <2>1, <2>2, <2>3, <2>4
<1>3. FlagsMatchStatus' /\ StoppedWhenLeft'
    <2>1. CASE Pause \/ Resume \/ Stop \/ Unmount
        BY <2>1 DEF Pause, Resume, Stop, Unmount, TypeOK, FlagsMatchStatus,
                    StoppedWhenLeft
    <2>2. CASE Tick \/ Reload \/ Loaded \/ Start \/ SyncFailed \/ UNCHANGED vars
        BY <2>2 DEF Tick, Reload, Loaded, Start, SyncFailed, vars, flags,
                    FlagsMatchStatus, StoppedWhenLeft
    <2> QED BY <2>1, <2>2
<1>4. BudgetKept'
    <2> SUFFICES ASSUME NEW l \in Loops, loop[l].pc = "run"
                 PROVE  /\ loop[l].begun =< loop[l].last
                        /\ loop[l].last =< now'
                        /\ loop[l].sent + loop[l].budget
                               =< rps * (loop[l].last - loop[l].begun)
        BY <1>1 DEF BudgetKept
    <2>1. loop[l].last \in Nat /\ now \in Nat /\ now' \in Nat
        BY <1>1 DEF TypeOK
    <2> QED BY <1>1, <2>1 DEF BudgetKept
<1>5. Alive' = Alive
    BY <1>1 DEF Alive
<1>6. AllCounted => AllCounted'
    BY <1>1, <1>5 DEF AllCounted
<1>7. ~ overtaken' /\ OneStart => OneStart'
    <2> USE <1>5 DEF OneStart
    <2>1. CASE Start
        BY <2>1 DEF Start, MayStart, TypeOK
    <2>2. CASE SyncFailed
        BY <2>2 DEF SyncFailed, TypeOK
    <2>3. CASE Reload
        BY <2>3 DEF Reload, SetSyncStatus, TypeOK
    <2>4. CASE Loaded
        BY <2>4 DEF Loaded, SetSyncStatus, TypeOK
    <2>5. CASE Pause \/ Resume \/ Stop \/ Unmount
        BY <2>5 DEF Pause, Resume, Stop, Unmount, sync, TypeOK
    <2>6. CASE Tick \/ UNCHANGED vars
        BY <2>6 DEF Tick, vars, sync
    <2> QED BY <2>1, <2>2, <2>3, <2>4, <2>5, <2>6
<1>8. overtaken => overtaken'
    BY DEF Tick, Reload, Loaded, Start, SyncFailed, Pause, Resume, Stop, Unmount,
           SetSyncStatus, vars, sync
<1> QED BY <1>2, <1>3, <1>4, <1>6, <1>7, <1>8 DEF TypeOK

LEMMA NextIInv == IInv /\ [Next]_vars => IInv'
BY LeavePreserves, ReturnPreserves, PassPreserves, SettlePreserves,
   SyncedPreserves, OthersPreserve DEF Next, LoopStep

-----------------------------------------------------------------------------
(***************************************************************************)
(* Theorems.                                                               *)
(***************************************************************************)

\* The invariant of the dashboard.
THEOREM Invariance == Spec => []IInv
BY InitIInv, NextIInv, PTL DEF Spec

\* Every variable keeps its type.
THEOREM TypeCorrect == Spec => []TypeOK
<1>1. IInv => TypeOK
    BY DEF IInv
<1> QED BY <1>1, Invariance, PTL

\* The flags that loops read agree with the state that buttons act on,
\* however many loops share them.
THEOREM FlagsAgree == Spec => []FlagsMatchStatus
<1>1. IInv => FlagsMatchStatus
    BY DEF IInv
<1> QED BY <1>1, Invariance, PTL

\* A second loop needs a reload that hides a sync in progress.
THEOREM OneLoopOnly == Spec => []OneLoop
<1>1. ASSUME IInv PROVE OneLoop
    <2>1. CASE overtaken
        BY <2>1 DEF OneLoop
    <2>2. CASE ~ overtaken /\ Alive = {}
        BY <2>2, FS_EmptySet DEF OneLoop
    <2>3. CASE ~ overtaken /\ Alive # {}
        <3>1. PICK l : l \in Alive
            BY <2>3
        <3>2. Alive = {l}
            BY <1>1, <2>3, <3>1 DEF IInv, OneStart
        <3> QED BY <3>2, FS_Singleton DEF OneLoop
    <2> QED BY <2>1, <2>2, <2>3
<1> QED BY <1>1, Invariance, PTL

\* No more than concurrency requests are unanswered.
THEOREM ConcurrencyIsKept == Spec => []ConcurrencyKept
<1>1. IInv => ConcurrencyKept
    BY DEF IInv, AllCounted, ConcurrencyKept
<1> QED BY <1>1, Invariance, PTL

\* No loop outruns its rate, after a pause or a wait for free slots either.
THEOREM RateIsKept == Spec => []RateKept
<1>1. ASSUME IInv PROVE RateKept
    <2> SUFFICES ASSUME NEW l \in Loops, loop[l].pc = "run"
                 PROVE  loop[l].sent =< rps * (now - loop[l].begun)
        BY DEF RateKept
    <2>1. /\ Budget(l) \in 0 .. 2 * rps
          /\ loop[l].sent + Budget(l) =< rps * (now - loop[l].begun)
        BY <1>1, BudgetBound DEF IInv
    <2>2. /\ loop[l].sent \in Nat /\ now \in Int /\ loop[l].begun \in Int
        BY <1>1 DEF IInv, TypeOK
    <2>3. rps * (now - loop[l].begun) \in Int
        BY <2>2
    <2> QED BY <2>1, <2>2, <2>3
<1> QED BY <1>1, Invariance, PTL

\* Once the page is left no loop dispatches a request.
THEOREM SilentOnceLeft == Spec => SilentWhenLeft
<1>1. IInv /\ [Next]_vars => [~ mounted => outstanding' \subseteq outstanding]_vars
    <2> SUFFICES ASSUME IInv, Next, ~ mounted
                 PROVE  outstanding' \subseteq outstanding
        BY DEF vars, traffic
    <2>1. \A l \in Loops : ~ Pass(l)
        BY DEF IInv, StoppedWhenLeft, Pass, Over
    <2> QED BY <2>1
            DEF Next, LoopStep, Tick, Reload, Loaded, Start, Synced, SyncFailed,
                Leave, Return, Settle, Pause, Resume, Stop, Unmount, traffic
<1> QED BY <1>1, Invariance, PTL DEF Spec, SilentWhenLeft
=============================================================================
