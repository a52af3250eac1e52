------------------------------ MODULE Dashboard ------------------------------
(***************************************************************************)
(* The simulation of one dashboard page: the hook use<Algorithm>Simulation *)
(* with its buttons, the policy sync that precedes a run and the dispatch  *)
(* loop of simulationRuntime.  The five hooks share this control flow.     *)
(*                                                                         *)
(* JavaScript runs one callback at a time, so an action is the code from   *)
(* one await to the next.  The hook keeps its flags (stopRequested,        *)
(* pauseRequested, inFlight) in one object that all its loops share.       *)
(* policySyncStatus is read as last rendered, which is before any click.   *)
(***************************************************************************)
EXTENDS Integers, FiniteSets

CONSTANTS
    Loops,        \* the loops of the hook: they bound how often it starts
    Slots,        \* identities for requests in progress
    rps,          \* tokens a loop gains per tick
    concurrency,  \* requests in flight at once
    durationSec,  \* ticks of a session
    MaxTime       \* bound on the clock

ASSUME DashboardAssumption ==
    /\ IsFiniteSet(Loops)
    /\ IsFiniteSet(Slots)
    /\ rps \in Nat \ {0}
    /\ concurrency \in Nat \ {0}
    /\ durationSec \in Nat \ {0}
    /\ MaxTime \in Nat

VARIABLES
    now,               \* Date.now()
    mounted,           \* mountedRef
    status,            \* statusRef: "idle" | "running" | "paused" | "stopping"
    policySyncStatus,  \* "idle" | "loading" | "ready" | "syncing" | "error"
    syncs,             \* starts whose policy sync is in progress
    loads,             \* reloads of the active policy in progress
    stopRequested,
    pauseRequested,
    inFlight,          \* the requests that the runtime counts
    outstanding,       \* the requests that have not been answered
    loop,              \* loop -> its state
    overtaken          \* history: a reload has hidden a sync in progress

flags == <<stopRequested, pauseRequested>>
traffic == <<inFlight, outstanding>>
sync == <<policySyncStatus, syncs, loads, overtaken>>
vars == <<now, mounted, status, flags, traffic, loop, sync>>

-----------------------------------------------------------------------------
Smaller(a, b) == IF a < b THEN a ELSE b

\* sent is a history of the loop's dispatches.
NewLoop == [pc |-> "new", begun |-> 0, budget |-> 0, last |-> 0,
            waits |-> {}, sent |-> 0]

TypeOK ==
    /\ now \in 0 .. MaxTime
    /\ mounted \in BOOLEAN
    /\ status \in {"idle", "running", "paused", "stopping"}
    /\ policySyncStatus \in {"idle", "loading", "ready", "syncing", "error"}
    /\ syncs \in Nat /\ loads \in Nat
    /\ stopRequested \in BOOLEAN /\ pauseRequested \in BOOLEAN
    /\ inFlight \subseteq outstanding
    /\ outstanding \subseteq Slots
    /\ loop \in [Loops -> [pc : {"new", "run", "drain", "done"},
                           begun : 0 .. MaxTime, budget : 0 .. 2 * rps,
                           last : 0 .. MaxTime, waits : SUBSET Slots, sent : Nat]]
    /\ overtaken \in BOOLEAN

Alive == {l \in Loops : loop[l].pc \in {"run", "drain"}}

-----------------------------------------------------------------------------
\* The hook is mounted and its effect loads the active policy.
Init ==
    /\ now = 0
    /\ mounted = TRUE
    /\ status = "idle"
    /\ policySyncStatus = "loading"
    /\ syncs = 0
    /\ loads = 1
    /\ stopRequested = FALSE
    /\ pauseRequested = FALSE
    /\ inFlight = {}
    /\ outstanding = {}
    /\ loop = [l \in Loops |-> NewLoop]
    /\ overtaken = FALSE

Tick ==
    /\ now < MaxTime
    /\ now' = now + 1
    /\ UNCHANGED <<mounted, status, flags, traffic, loop, sync>>

(***************************************************************************)
(* Reloading the active policy.                                            *)
(***************************************************************************)
SetSyncStatus(new) ==
    /\ policySyncStatus' = new
    /\ overtaken' = (overtaken \/ (syncs > 0 /\ new # "syncing"))

Reload ==
    /\ mounted
    /\ loads = 0
    /\ SetSyncStatus("loading")
    /\ loads' = loads + 1
    /\ UNCHANGED <<now, mounted, status, flags, traffic, loop, syncs>>

\* The answer is ignored once the page is left.
Loaded ==
    /\ loads > 0
    /\ loads' = loads - 1
    /\ \/ mounted /\ \E new \in {"ready", "error"} : SetSyncStatus(new)
       \/ ~ mounted /\ UNCHANGED <<policySyncStatus, overtaken>>
    /\ UNCHANGED <<now, mounted, status, flags, traffic, loop, syncs>>

\* Mutant of MayStart: the sync in progress is not looked at.
MayStartAnyway == status = "idle"

(***************************************************************************)
(* Start, and what follows its sync.                                       *)
(***************************************************************************)
MayStart == status = "idle" /\ policySyncStatus # "syncing"

Start ==
    /\ mounted
    /\ MayStart
    /\ syncs < Cardinality({l \in Loops : loop[l].pc = "new"})
    /\ policySyncStatus' = "syncing"
    /\ syncs' = syncs + 1
    /\ UNCHANGED <<now, mounted, status, flags, traffic, loop, loads, overtaken>>

\* Nothing is checked again: the session begins and its loop runs.
BeginLoop(l) ==
    /\ loop[l].pc = "new"
    /\ loop' = [loop EXCEPT ![l] =
           [NewLoop EXCEPT !.pc = "run", !.begun = now, !.last = now]]
    /\ status' = "running"
    /\ stopRequested' = FALSE
    /\ pauseRequested' = FALSE
    /\ inFlight' = {}
    /\ UNCHANGED outstanding

Synced ==
    /\ syncs > 0
    /\ syncs' = syncs - 1
    /\ now + durationSec =< MaxTime
    /\ IF mounted
       THEN policySyncStatus' = "ready" /\ \E l \in Loops : BeginLoop(l)
       ELSE UNCHANGED <<policySyncStatus, status, flags, traffic, loop>>
    /\ UNCHANGED <<now, mounted, loads, overtaken>>

SyncFailed ==
    /\ syncs > 0
    /\ syncs' = syncs - 1
    /\ policySyncStatus' = IF mounted THEN "error" ELSE policySyncStatus
    /\ UNCHANGED <<now, mounted, status, flags, traffic, loop, loads, overtaken>>

\* Mutant of Over: the pause is looked at before the deadline.
OverUnlessPaused(l) ==
    \/ stopRequested
    \/ ~ pauseRequested /\ now >= loop[l].begun + durationSec

(***************************************************************************)
(* The dispatch loop.                                                      *)
(***************************************************************************)
Over(l) == stopRequested \/ now >= loop[l].begun + durationSec

\* Mutant of Finish: the flags are reset although the page is left.
FinishAlways(l) ==
    /\ loop' = [loop EXCEPT ![l] = [NewLoop EXCEPT !.pc = "done"]]
    /\ status' = "idle" /\ stopRequested' = FALSE /\ pauseRequested' = FALSE

\* What the hook does when its loop has returned.
Finish(l) ==
    /\ loop' = [loop EXCEPT ![l] = [NewLoop EXCEPT !.pc = "done"]]
    /\ IF mounted
       THEN status' = "idle" /\ stopRequested' = FALSE /\ pauseRequested' = FALSE
       ELSE UNCHANGED <<status, flags>>

\* Mutant of Awaited: the loop returns without waiting.
AwaitedNone == {}

\* The requests that a loop which is over still waits for.
Awaited == inFlight

\* A loop that is over returns when the requests then in flight are settled.
Leave(l) ==
    /\ loop[l].pc = "run"
    /\ Over(l)
    /\ IF Awaited = {}
       THEN Finish(l)
       ELSE /\ loop' = [loop EXCEPT ![l] =
                   [NewLoop EXCEPT !.pc = "drain", !.waits = Awaited]]
            /\ UNCHANGED <<status, flags>>
    /\ UNCHANGED <<now, mounted, traffic, sync>>

Return(l) ==
    /\ loop[l].pc = "drain"
    /\ loop[l].waits \cap outstanding = {}
    /\ Finish(l)
    /\ UNCHANGED <<now, mounted, traffic, sync>>

\* Mutant of Budget: the time is always counted from the start.
BudgetFromBegin(l) ==
    Smaller(loop[l].budget + (now - loop[l].begun) * rps, 2 * rps)

\* The tokens of the time since the loop last looked, pauses included.
Budget(l) ==
    Smaller(loop[l].budget + (now - loop[l].last) * rps, 2 * rps)

\* One pass of the loop, from one sleep to the next: it dispatches as many
\* requests as its tokens and the shared count of requests allow.
Pass(l) ==
    LET n == Smaller(Budget(l), concurrency - Cardinality(inFlight)) IN
    /\ loop[l].pc = "run"
    /\ ~ Over(l)
    /\ ~ pauseRequested
    /\ \E new \in SUBSET (Slots \ outstanding) :
        /\ Cardinality(new) = n
        /\ inFlight' = inFlight \cup new
        /\ outstanding' = outstanding \cup new
    /\ loop' = [loop EXCEPT ![l].budget = Budget(l) - n, ![l].last = now,
                            ![l].sent = @ + n]
    /\ UNCHANGED <<now, mounted, status, flags, sync>>

\* Mutant of Settle: a request that is settled stays counted.
SettleStillCounted(r) ==
    /\ r \in outstanding
    /\ outstanding' = outstanding \ {r}
    /\ UNCHANGED <<now, mounted, status, flags, inFlight, loop, sync>>

\* A request is answered, or fails.
Settle(r) ==
    /\ r \in outstanding
    /\ outstanding' = outstanding \ {r}
    /\ inFlight' = inFlight \ {r}
    /\ UNCHANGED <<now, mounted, status, flags, loop, sync>>

(***************************************************************************)
(* The other buttons, and leaving the page.                                *)
(***************************************************************************)
Pause ==
    /\ mounted
    /\ status = "running"
    /\ status' = "paused"
    /\ pauseRequested' = TRUE
    /\ UNCHANGED <<now, mounted, stopRequested, traffic, loop, sync>>

Resume ==
    /\ mounted
    /\ status = "paused"
    /\ status' = "running"
    /\ pauseRequested' = FALSE
    /\ UNCHANGED <<now, mounted, stopRequested, traffic, loop, sync>>

\* Mutant of Stop: a paused session stays paused.
StopPaused ==
    /\ mounted
    /\ status \in {"running", "paused"}
    /\ status' = "stopping"
    /\ stopRequested' = TRUE
    /\ UNCHANGED <<now, mounted, pauseRequested, traffic, loop, sync>>

Stop ==
    /\ mounted
    /\ status \in {"running", "paused"}
    /\ status' = "stopping"
    /\ stopRequested' = TRUE
    /\ pauseRequested' = FALSE
    /\ UNCHANGED <<now, mounted, traffic, loop, sync>>

Unmount ==
    /\ mounted
    /\ mounted' = FALSE
    /\ stopRequested' = TRUE
    /\ pauseRequested' = FALSE
    /\ UNCHANGED <<now, status, traffic, loop, sync>>

LoopStep(l) == Leave(l) \/ Return(l) \/ Pass(l)

Next ==
    \/ Tick
    \/ Reload \/ Loaded
    \/ Start \/ Synced \/ SyncFailed
    \/ \E l \in Loops : LoopStep(l)
    \/ \E r \in Slots : Settle(r)
    \/ Pause \/ Resume \/ Stop \/ Unmount

(***************************************************************************)
(* Time passes, a loop wakes from its sleep, and the browser settles every *)
(* request.  No button is ever sure to be pressed.                         *)
(***************************************************************************)
Fairness ==
    /\ WF_vars(Tick)
    /\ \A l \in Loops : WF_vars(Leave(l)) /\ WF_vars(Return(l))
    /\ \A r \in Slots : WF_vars(Settle(r))

Spec == Init /\ [][Next]_vars /\ Fairness

-----------------------------------------------------------------------------
(***************************************************************************)
(* Properties.                                                             *)
(***************************************************************************)

\* The flags that loops read agree with the state that buttons act on, also
\* when several loops share them: a session that runs or is paused has not
\* been told to stop, and only a paused one holds its requests back.
FlagsMatchStatus ==
    mounted =>
        /\ stopRequested = (status = "stopping")
        /\ pauseRequested = (status = "paused")

\* A second loop exists only when a reload has hidden a sync in progress.
OneLoop == overtaken \/ Cardinality(Alive) =< 1

\* No more than concurrency requests are unanswered, those of a session
\* that has been stopped before included.
ConcurrencyKept == overtaken \/ Cardinality(outstanding) =< concurrency

\* No loop outruns its rate: the burst after a pause and the one after a
\* wait for free slots are made of tokens of the time that has passed.
RateKept ==
    \A l \in Loops :
        loop[l].pc = "run" => loop[l].sent =< rps * (now - loop[l].begun)

\* Once the page is left no loop dispatches a request, whatever sync, sleep
\* or answer it was waiting for.
SilentWhenLeft ==
    [][~ mounted => outstanding' \subseteq outstanding]_vars

\* Every session ends at its deadline, paused ones too.
SessionEnds == status # "idle" ~> (status = "idle" \/ ~ mounted)

\* "Stop ends dispatch": when a stopped session has become idle, no loop is
\* left to dispatch requests.
DocStopEndsDispatch ==
    [][status = "stopping" /\ status' = "idle" => Alive' = {}]_vars
=============================================================================
